------------------------------ MODULE Registry ------------------------------
(***************************************************************************)
(* The in-memory catalogue of performative transactions (src/pt): buckets  *)
(* of features, transformations and conditions, one bucket per name, one   *)
(* record per deployed address, and for every name the address deployed    *)
(* last.  Every accepted feature or transformation is also written to      *)
(* storage/<kind>/<name>.json: one file per NAME, whatever the number of   *)
(* versions in memory.                                                     *)
(*                                                                         *)
(* All methods run on one asio strand and none waits for anything but that *)
(* strand, so each call is one step.                                       *)
(***************************************************************************)
EXTENDS Naturals, Sequences, FiniteSets

CONSTANTS
  FeatureNames, TransformationNames, ConditionNames,
  EmptyName,          \* the empty string, refused as a name
  Addresses,          \* addresses of deployed contracts
  Users,              \* account addresses of owners
  Features,           \* the features clients may deploy
  Transformations,    \* the transformations clients may deploy
  Serializable,       \* those whose record protobuf can print as JSON
  Reregistration,     \* whether a taken name can be deployed again
  DiskMayFail,        \* whether storage/ may refuse a directory, an open or a write
  NoAddress, NoRecord, NoFile, Truncated

\* One dimension of a feature: the sub-feature it is made of and the names of
\* the transformations applied to it.  Argument values and the order of the
\* transformations decide nothing here.
Dimension == [feature_name : FeatureNames, transformations : SUBSET TransformationNames]

Feature == [name : FeatureNames, dimensions : Seq(Dimension)]

Transformation == [name : TransformationNames, sol_src : STRING]

FeatureRecord == [feature : Features, owner : Users]

TransformationRecord == [transformation : Transformations, owner : Users]

ASSUME CatalogueAssumption ==
  /\ Features \subseteq Feature
  /\ Transformations \subseteq Transformation
  /\ Serializable \subseteq Features \cup Transformations

ASSUME SwitchAssumption ==
  /\ Reregistration \in BOOLEAN
  /\ DiskMayFail \in BOOLEAN

ASSUME SentinelAssumption ==
  /\ NoAddress \notin Addresses
  /\ NoRecord \notin FeatureRecord \cup TransformationRecord
  /\ NoFile \notin FeatureRecord \cup TransformationRecord
  /\ Truncated \notin FeatureRecord \cup TransformationRecord
  /\ NoFile # Truncated

VARIABLES
  featureBuckets,        \* keys of _features, empty buckets included
  features,              \* _features: name -> address -> record
  newestFeature,         \* _newest_feature
  ownedFeatures,         \* _owned_features
  featureFiles,          \* storage/features/<name>.json
  transformationBuckets, transformations, newestTransformation,
  ownedTransformations, transformationFiles,
  conditions,            \* _conditions: name -> addresses
  newestCondition,
  unsavedFeatures,       \* history: names whose last store did not leave the
  unsavedTransformations,\*   record it was given in the file
  diverged               \* a check recurses for ever: the server thread is lost

featureFileVars == <<featureFiles, unsavedFeatures>>
transformationFileVars == <<transformationFiles, unsavedTransformations>>
featureVars ==
  <<featureBuckets, features, newestFeature, ownedFeatures, featureFileVars>>
transformationVars ==
  <<transformationBuckets, transformations, newestTransformation,
    ownedTransformations, transformationFileVars>>
conditionVars == <<conditions, newestCondition>>
registryVars == <<featureVars, transformationVars, conditionVars, diverged>>

-----------------------------------------------------------------------------
(* Look-ups *)

isFeatureBucketEmpty(name) == \A a \in Addresses : features[name][a] = NoRecord

isTransformationBucketEmpty(name) ==
  \A a \in Addresses : transformations[name][a] = NoRecord

getFeature(name, address) == features[name][address]

getNewestFeature(name) ==
  IF newestFeature[name] = NoAddress THEN NoRecord
  ELSE getFeature(name, newestFeature[name])

getTransformation(name, address) == transformations[name][address]

getNewestTransformation(name) ==
  IF newestTransformation[name] = NoAddress THEN NoRecord
  ELSE getTransformation(name, newestTransformation[name])

getOwnedFeatures(user) == ownedFeatures[user]

getOwnedTransformations(user) == ownedTransformations[user]

-----------------------------------------------------------------------------
(***************************************************************************)
(* checkIfSubFeaturesExist.  The loop over the dimensions returns in its    *)
(* first iteration, so the check follows ONE chain of names: the           *)
(* sub-feature of the first dimension, then the sub-feature of the first    *)
(* dimension of that name's newest version, and so on.  The chain ends at a *)
(* feature without dimensions (true), at a name without records (false), or *)
(* never.  A set of names stands for the recursion: it is Followed when the *)
(* chain cannot leave it.                                                   *)
(***************************************************************************)
FirstName(feature) == feature.dimensions[1].feature_name

Composed(feature) == feature.dimensions # <<>>

Continues(name) ==
  /\ getNewestFeature(name) # NoRecord
  /\ Composed(getNewestFeature(name).feature)

NextName(name) == FirstName(getNewestFeature(name).feature)

Followed(names) == \A n \in names : Continues(n) => NextName(n) \in names

\* (mutant) the bucket of the feature itself is made before the check
SubFeatureMissingButItself(feature) ==
  /\ Composed(feature)
  /\ \A names \in SUBSET FeatureNames :
       FirstName(feature) \in names /\ Followed(names) =>
         \E n \in names \ {feature.name} : isFeatureBucketEmpty(n)

\* (mutant) the check is left out
SubFeatureNeverMissing(feature) == FALSE

SubFeatureMissing(feature) ==
  /\ Composed(feature)
  /\ \A names \in SUBSET FeatureNames :
       FirstName(feature) \in names /\ Followed(names) =>
         \E n \in names : isFeatureBucketEmpty(n)

CheckDiverges(feature) ==
  /\ Composed(feature)
  /\ \E names \in SUBSET FeatureNames :
       /\ FirstName(feature) \in names
       /\ Followed(names)
       /\ \A n \in names : Continues(n)

checkIfSubFeaturesExist(feature) ==
  ~SubFeatureMissing(feature) /\ ~CheckDiverges(feature)

\* (mutant) only the first dimension is looked at
TransformationsOfFirstExist(feature) ==
  \A i \in DOMAIN feature.dimensions :
    i = 1 => \A t \in feature.dimensions[i].transformations : ~isTransformationBucketEmpty(t)

TransformationsExist(feature) ==
  \A i \in DOMAIN feature.dimensions :
    \A t \in feature.dimensions[i].transformations : ~isTransformationBucketEmpty(t)

-----------------------------------------------------------------------------
(* Initially every map is empty and storage/ holds nothing. *)
RegistryInit ==
  /\ featureBuckets = {}
  /\ features = [n \in FeatureNames |-> [a \in Addresses |-> NoRecord]]
  /\ newestFeature = [n \in FeatureNames |-> NoAddress]
  /\ ownedFeatures = [u \in Users |-> {}]
  /\ featureFiles = [n \in FeatureNames |-> NoFile]
  /\ transformationBuckets = {}
  /\ transformations = [n \in TransformationNames |-> [a \in Addresses |-> NoRecord]]
  /\ newestTransformation = [n \in TransformationNames |-> NoAddress]
  /\ ownedTransformations = [u \in Users |-> {}]
  /\ transformationFiles = [n \in TransformationNames |-> NoFile]
  /\ unsavedFeatures = {} /\ unsavedTransformations = {}
  /\ conditions = [n \in ConditionNames |-> {}]
  /\ newestCondition = [n \in ConditionNames |-> NoAddress]
  /\ diverged = FALSE

\* What opening <name>.json with trunc, writing the record and closing the
\* stream leaves of a file that held old: no result of the stream is looked at.
\* An open that fails leaves the old content, a write that fails leaves nothing
\* that can be parsed.
Written(record, old) == {record} \cup (IF DiskMayFail THEN {old, Truncated} ELSE {})

(* addFeature: the refusals in the order of the code, then the registration. *)

\* (mutant) the address is compared with the newest version only
FeatureIsNewest(address, feature) == newestFeature[feature.name] = address

FeatureKnown(address, feature) == getFeature(feature.name, address) # NoRecord

RefuseUnsupportedFeature(feature) ==
  /\ feature.name = EmptyName \/ SubFeatureMissing(feature)
  /\ UNCHANGED registryVars

\* The recursion over a cyclic chain of newest versions never returns.
DivergeOnFeature(feature) ==
  /\ feature.name # EmptyName
  /\ CheckDiverges(feature)
  /\ diverged' = TRUE
  /\ UNCHANGED <<featureVars, transformationVars, conditionVars>>

RefuseKnownFeature(address, feature) ==
  /\ feature.name # EmptyName
  /\ checkIfSubFeaturesExist(feature)
  /\ FeatureKnown(address, feature)
  /\ UNCHANGED registryVars

\* The refusals that come once the bucket is there.
KnownFeaturePassed(address, feature) ==
  /\ feature.name # EmptyName
  /\ checkIfSubFeaturesExist(feature)
  /\ ~FeatureKnown(address, feature)
  /\ featureBuckets' = featureBuckets \cup {feature.name}

\* (mutant) the newest address is set before the transformations are checked
NewestBeforeTransformations(address, feature) ==
  /\ KnownFeaturePassed(address, feature)
  /\ ~TransformationsExist(feature)
  /\ newestFeature' = [newestFeature EXCEPT ![feature.name] = address]
  /\ UNCHANGED <<features, ownedFeatures, featureFileVars,
                 transformationVars, conditionVars, diverged>>

\* The bucket made for the name stays, empty, when the feature is refused.
RefuseUntransformableFeature(address, feature) ==
  /\ KnownFeaturePassed(address, feature)
  /\ ~TransformationsExist(feature)
  /\ UNCHANGED <<features, newestFeature, ownedFeatures, featureFileVars,
                 transformationVars, conditionVars, diverged>>

\* The file is opened, and so emptied, before the record is printed as JSON: a
\* record that cannot be printed is refused and the name has lost its file.
TruncateFeature(feature) ==
  /\ feature \notin Serializable
  /\ featureFiles' = [featureFiles EXCEPT ![feature.name] = Truncated]
  /\ unsavedFeatures' = unsavedFeatures \cup {feature.name}

\* A refusal after the checks: the directory cannot be made, or the record
\* cannot be printed, whether the file could be opened or not.
RefuseUnstorableFeature(address, feature) ==
  /\ KnownFeaturePassed(address, feature)
  /\ TransformationsExist(feature)
  /\ \/ TruncateFeature(feature)
     \/ DiskMayFail /\ UNCHANGED featureFileVars
  /\ UNCHANGED <<features, newestFeature, ownedFeatures,
                 transformationVars, conditionVars, diverged>>

\* Which names a store that left content for the record leaves unsaved.
Unsaved(unsaved, name, record, content) ==
  IF content = record THEN unsaved \ {name} ELSE unsaved \cup {name}

\* (mutant) the file of a name is written once
StoreFirstVersion(record) ==
  LET n == record.feature.name IN
  IF featureFiles[n] # NoFile
  THEN UNCHANGED featureFileVars
  ELSE \E content \in Written(record, NoFile) :
         /\ featureFiles' = [featureFiles EXCEPT ![n] = content]
         /\ unsavedFeatures' = Unsaved(unsavedFeatures, n, record, content)

\* (mutant) the feature is serialised instead of its record
StoreBareFeature(record) ==
  /\ featureFiles' = [featureFiles EXCEPT ![record.feature.name] = record.feature]
  /\ UNCHANGED unsavedFeatures

StoreFeature(record) ==
  LET n == record.feature.name IN
  \E content \in Written(record, featureFiles[n]) :
    /\ featureFiles' = [featureFiles EXCEPT ![n] = content]
    /\ unsavedFeatures' = Unsaved(unsavedFeatures, n, record, content)

\* (mutant) the set of the owner's names is replaced
OwnOnly(owner, name) == ownedFeatures' = [ownedFeatures EXCEPT ![owner] = {name}]

OwnFeature(owner, name) ==
  ownedFeatures' = [ownedFeatures EXCEPT ![owner] = @ \cup {name}]

RegisterFeature(address, feature, owner) ==
  LET name   == feature.name
      record == [feature |-> feature, owner |-> owner]
  IN
  /\ KnownFeaturePassed(address, feature)
  /\ TransformationsExist(feature)
  /\ feature \in Serializable
  /\ StoreFeature(record)
  /\ OwnFeature(owner, name)
  /\ newestFeature' = [newestFeature EXCEPT ![name] = address]
  /\ features' = [features EXCEPT ![name][address] = record]
  /\ UNCHANGED <<transformationVars, conditionVars, diverged>>

addFeature(address, feature, owner) ==
  \/ RefuseUnsupportedFeature(feature)
  \/ DivergeOnFeature(feature)
  \/ RefuseKnownFeature(address, feature)
  \/ RefuseUntransformableFeature(address, feature)
  \/ RefuseUnstorableFeature(address, feature)
  \/ RegisterFeature(address, feature, owner)

(* addTransformation *)

RefuseTransformation(address, transformation) ==
  /\ \/ transformation.name = EmptyName
     \/ getTransformation(transformation.name, address) # NoRecord
  /\ UNCHANGED registryVars

NewTransformation(address, transformation) ==
  /\ transformation.name # EmptyName
  /\ getTransformation(transformation.name, address) = NoRecord
  /\ transformationBuckets' = transformationBuckets \cup {transformation.name}

TruncateTransformation(transformation) ==
  /\ transformation \notin Serializable
  /\ transformationFiles' = [transformationFiles EXCEPT ![transformation.name] = Truncated]
  /\ unsavedTransformations' = unsavedTransformations \cup {transformation.name}

RefuseUnstorableTransformation(address, transformation) ==
  /\ NewTransformation(address, transformation)
  /\ \/ TruncateTransformation(transformation)
     \/ DiskMayFail /\ UNCHANGED transformationFileVars
  /\ UNCHANGED <<transformations, newestTransformation, ownedTransformations,
                 featureVars, conditionVars, diverged>>

StoreTransformation(record) ==
  LET n == record.transformation.name IN
  \E content \in Written(record, transformationFiles[n]) :
    /\ transformationFiles' = [transformationFiles EXCEPT ![n] = content]
    /\ unsavedTransformations' = Unsaved(unsavedTransformations, n, record, content)

RegisterTransformation(address, transformation, owner) ==
  LET name   == transformation.name
      record == [transformation |-> transformation, owner |-> owner]
  IN
  /\ NewTransformation(address, transformation)
  /\ transformation \in Serializable
  /\ StoreTransformation(record)
  /\ ownedTransformations' = [ownedTransformations EXCEPT ![owner] = @ \cup {name}]
  /\ newestTransformation' = [newestTransformation EXCEPT ![name] = address]
  /\ transformations' = [transformations EXCEPT ![name][address] = record]
  /\ UNCHANGED <<featureVars, conditionVars, diverged>>

addTransformation(address, transformation, owner) ==
  \/ RefuseTransformation(address, transformation)
  \/ RefuseUnstorableTransformation(address, transformation)
  \/ RegisterTransformation(address, transformation, owner)

(* addCondition keeps no owner and writes no file. *)
addCondition(address, name) ==
  /\ IF address \in conditions[name]
     THEN UNCHANGED conditionVars
     ELSE /\ newestCondition' = [newestCondition EXCEPT ![name] = address]
          /\ conditions' = [conditions EXCEPT ![name] = @ \cup {address}]
  /\ UNCHANGED <<featureVars, transformationVars, diverged>>

-----------------------------------------------------------------------------
\* The callers reach addFeature and addTransformation only after the contract
\* was deployed, and its constructor registers the name on the chain.
Deployable(bucketEmpty) == Reregistration \/ bucketEmpty

AddSomeFeature ==
  \E address \in Addresses, feature \in Features, owner \in Users :
    /\ Deployable(isFeatureBucketEmpty(feature.name))
    /\ addFeature(address, feature, owner)

AddSomeTransformation ==
  \E address \in Addresses, transformation \in Transformations, owner \in Users :
    /\ Deployable(isTransformationBucketEmpty(transformation.name))
    /\ addTransformation(address, transformation, owner)

AddSomeCondition ==
  \E address \in Addresses, name \in ConditionNames : addCondition(address, name)

RegistryNext ==
  /\ ~diverged
  /\ AddSomeFeature \/ AddSomeTransformation \/ AddSomeCondition

RegistrySpec == RegistryInit /\ [][RegistryNext]_registryVars

-----------------------------------------------------------------------------
(* The type invariant: the shape of every map of registry.hpp. *)
RegistryTypeOK ==
  /\ featureBuckets \subseteq FeatureNames
  /\ features \in [FeatureNames -> [Addresses -> FeatureRecord \cup {NoRecord}]]
  /\ newestFeature \in [FeatureNames -> Addresses \cup {NoAddress}]
  /\ ownedFeatures \in [Users -> SUBSET FeatureNames]
  /\ featureFiles \in [FeatureNames -> FeatureRecord \cup {NoFile, Truncated}]
  /\ transformationBuckets \subseteq TransformationNames
  /\ transformations \in
       [TransformationNames -> [Addresses -> TransformationRecord \cup {NoRecord}]]
  /\ newestTransformation \in [TransformationNames -> Addresses \cup {NoAddress}]
  /\ ownedTransformations \in [Users -> SUBSET TransformationNames]
  /\ transformationFiles \in
       [TransformationNames -> TransformationRecord \cup {NoFile, Truncated}]
  /\ unsavedFeatures \subseteq FeatureNames
  /\ unsavedTransformations \subseteq TransformationNames
  /\ conditions \in [ConditionNames -> SUBSET Addresses]
  /\ newestCondition \in [ConditionNames -> Addresses \cup {NoAddress}]
  /\ diverged \in BOOLEAN

\* The three look-ups that use `.at` never throw: a name that has a newest
\* address has a bucket with a record of that name at that address, and a
\* name with a record has a newest address.  isFeatureBucketEmpty and
\* checkIfSubFeaturesExist (registry.cpp:18-21) rely on both directions.
NewestIsRegistered ==
  /\ \A n \in FeatureNames :
       /\ (newestFeature[n] # NoAddress) <=> ~isFeatureBucketEmpty(n)
       /\ newestFeature[n] # NoAddress =>
            /\ n \in featureBuckets
            /\ getNewestFeature(n) # NoRecord
            /\ getNewestFeature(n).feature.name = n
  /\ \A n \in TransformationNames :
       /\ (newestTransformation[n] # NoAddress) <=> ~isTransformationBucketEmpty(n)
       /\ newestTransformation[n] # NoAddress =>
            /\ n \in transformationBuckets
            /\ getNewestTransformation(n) # NoRecord
            /\ getNewestTransformation(n).transformation.name = n

\* What a restart will read of a name.  One file serves all versions, and the
\* maps go on whether or not it could be written: as long as the last store of
\* the name succeeded the file is the record of its newest version (and there is
\* none for a name without records).  After a store that failed it is missing,
\* cannot be parsed, or is some version that was registered under that name:
\* never a record that was refused.
FilesFollowNewest ==
  /\ \A n \in FeatureNames :
       featureFiles[n] \in
         IF n \in unsavedFeatures
         THEN {NoFile, Truncated} \cup ({getFeature(n, a) : a \in Addresses} \ {NoRecord})
         ELSE IF newestFeature[n] = NoAddress THEN {NoFile} ELSE {getNewestFeature(n)}
  /\ \A n \in TransformationNames :
       transformationFiles[n] \in
         IF n \in unsavedTransformations
         THEN {NoFile, Truncated}
              \cup ({getTransformation(n, a) : a \in Addresses} \ {NoRecord})
         ELSE IF newestTransformation[n] = NoAddress THEN {NoFile}
         ELSE {getNewestTransformation(n)}

\* The list of names an account owns (GET /account) is exactly the names of
\* which it deployed some version: a later version by somebody else does not
\* take the name from the list, and no name is listed without a record.
OwnedMatchesRecords ==
  \A u \in Users :
    /\ getOwnedFeatures(u) =
         {n \in FeatureNames :
            \E a \in Addresses :
              getFeature(n, a) # NoRecord /\ getFeature(n, a).owner = u}
    /\ getOwnedTransformations(u) =
         {n \in TransformationNames :
            \E a \in Addresses :
              getTransformation(n, a) # NoRecord /\ getTransformation(n, a).owner = u}

\* No registered version, old or new, names a transformation the registry does
\* not hold.
TransformationsClosed ==
  \A n \in FeatureNames, a \in Addresses :
    getFeature(n, a) # NoRecord =>
      LET dimensions == getFeature(n, a).feature.dimensions
      IN \A i \in DOMAIN dimensions :
           \A t \in dimensions[i].transformations : ~isTransformationBucketEmpty(t)

\* The sub-feature of the FIRST dimension of every registered version is
\* registered: all that checkIfSubFeaturesExist guarantees of the references
\* between features.
FirstSubFeaturesClosed ==
  \A n \in FeatureNames, a \in Addresses :
    /\ getFeature(n, a) # NoRecord
    /\ Composed(getFeature(n, a).feature)
    => ~isFeatureBucketEmpty(FirstName(getFeature(n, a).feature))

\* checkIfSubFeaturesExist never recurses for ever: no set of names, each of
\* whose newest versions continues inside the set.  It holds while a name can
\* be deployed only once.
ChecksTerminate ==
  /\ ~diverged
  /\ \A feature \in Features : ~CheckDiverges(feature)

\* registry.hpp:177-179 says of checkIfSubFeaturesExist that it iterates over
\* all dimensions and returns false if any sub-feature does not exist: a
\* feature it accepts has the sub-features of all its dimensions registered.
AllSubFeaturesExist ==
  \A feature \in Features :
    checkIfSubFeaturesExist(feature) =>
      \A i \in DOMAIN feature.dimensions :
        ~isFeatureBucketEmpty(feature.dimensions[i].feature_name)

\* Versions are kept for ever and never come back: a record is neither changed
\* nor removed, and the newest version of a name moves only to an address that
\* held no record of that name before.
HistoryIsAppendOnly ==
  [][/\ \A n \in FeatureNames, a \in Addresses :
          getFeature(n, a) # NoRecord => features'[n][a] = features[n][a]
     /\ \A n \in FeatureNames :
          newestFeature'[n] # newestFeature[n] =>
            /\ newestFeature'[n] # NoAddress
            /\ features[n][newestFeature'[n]] = NoRecord
     /\ \A n \in TransformationNames, a \in Addresses :
          getTransformation(n, a) # NoRecord =>
            transformations'[n][a] = transformations[n][a]
     /\ \A n \in TransformationNames :
          newestTransformation'[n] # newestTransformation[n] =>
            /\ newestTransformation'[n] # NoAddress
            /\ transformations[n][newestTransformation'[n]] = NoRecord
  ]_registryVars
=============================================================================
