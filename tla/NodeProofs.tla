----------------------------- MODULE NodeProofs -----------------------------
(* Proofs about Node: what holds over the life of the process, for any      *)
(* names, catalogue and number of starts.                                   *)
EXTENDS Node, RegistryProofs

(***************************************************************************)
(* The inductive invariant.  What the catalogue holds is on the chain at   *)
(* the address of its version; what is stored, and what of it is still to  *)
(* be loaded, is of its name, and is what was published last while the     *)
(* disk does not fail.                                                     *)
(***************************************************************************)

\* Nothing is registered.
Vacant ==
  /\ \A n \in FeatureNames :
       newestFeature[n] = NoAddress /\ \A a \in Addresses : getFeature(n, a) = NoRecord
  /\ \A n \in TransformationNames :
       newestTransformation[n] = NoAddress
       /\ \A a \in Addresses : getTransformation(n, a) = NoRecord

FeaturesOnChain ==
  \A n \in FeatureNames, a \in Addresses :
    getFeature(n, a) # NoRecord =>
      /\ ptReady
      /\ a = AddressOf(getFeature(n, a).owner, getFeature(n, a).feature)
      /\ ~Reregistration => featureOnChain[n] = a

TransformationsOnChain ==
  \A n \in TransformationNames, a \in Addresses :
    getTransformation(n, a) # NoRecord =>
      /\ ptReady
      /\ a = AddressOf(getTransformation(n, a).owner, getTransformation(n, a).transformation)
      /\ ~Reregistration => transformationOnChain[n] = a

FeatureIsPublished(record) ==
  ~DiskMayFail =>
    publishedFeatures[record.feature.name] = AddressOf(record.owner, record.feature)

TransformationIsPublished(record) ==
  ~DiskMayFail =>
    publishedTransformations[record.transformation.name] =
      AddressOf(record.owner, record.transformation)

FilesPublished ==
  /\ \A n \in FeatureNames :
       featureFiles[n] \in FeatureRecord =>
         featureFiles[n].feature.name = n /\ FeatureIsPublished(featureFiles[n])
  /\ \A n \in TransformationNames :
       transformationFiles[n] \in TransformationRecord =>
         /\ transformationFiles[n].transformation.name = n
         /\ TransformationIsPublished(transformationFiles[n])

LoadPublished ==
  /\ boot = "features" =>
       \A r \in toLoad : r \in FeatureRecord /\ FeatureIsPublished(r)
  /\ boot = "transformations" =>
       \A r \in toLoad : r \in TransformationRecord /\ TransformationIsPublished(r)

NodeInv ==
  /\ NodeTypeOK
  /\ NewestIsRegistered
  /\ boot = "loadPT" => Vacant
  /\ FeaturesOnChain /\ TransformationsOnChain
  /\ FilesPublished /\ LoadPublished
  /\ ~DiskMayFail => NeverRollsBack

-----------------------------------------------------------------------------
(* A fresh process: empty maps, and any files *)

Emptied ==
  /\ featureBuckets = {} /\ transformationBuckets = {}
  /\ features = [n \in FeatureNames |-> [a \in Addresses |-> NoRecord]]
  /\ newestFeature = [n \in FeatureNames |-> NoAddress]
  /\ ownedFeatures = [u \in Users |-> {}]
  /\ transformations = [n \in TransformationNames |-> [a \in Addresses |-> NoRecord]]
  /\ newestTransformation = [n \in TransformationNames |-> NoAddress]
  /\ ownedTransformations = [u \in Users |-> {}]
  /\ conditions = [n \in ConditionNames |-> {}]
  /\ newestCondition = [n \in ConditionNames |-> NoAddress]
  /\ diverged = FALSE

FilesTyped ==
  /\ featureFiles \in [FeatureNames -> FeatureRecord \cup {NoFile, Truncated}]
  /\ transformationFiles \in
       [TransformationNames -> TransformationRecord \cup {NoFile, Truncated}]
  /\ unsavedFeatures \subseteq FeatureNames
  /\ unsavedTransformations \subseteq TransformationNames

\* With empty maps everything said of the catalogue holds.
LEMMA EmptiedSafe ==
  Emptied /\ FilesTyped =>
    /\ RegistryTypeOK
    /\ Vacant
    /\ NewestIsRegistered
    /\ TransformationsClosed /\ FirstSubFeaturesClosed
    /\ NoCycle
<1> SUFFICES ASSUME Emptied, FilesTyped
             PROVE  /\ RegistryTypeOK
                    /\ Vacant
                    /\ NewestIsRegistered
                    /\ TransformationsClosed /\ FirstSubFeaturesClosed
                    /\ NoCycle
  OBVIOUS
<1>1. /\ features \in [FeatureNames -> [Addresses -> FeatureRecord \cup {NoRecord}]]
      /\ transformations \in
           [TransformationNames -> [Addresses -> TransformationRecord \cup {NoRecord}]]
  BY DEF Emptied
<1>2. /\ newestFeature \in [FeatureNames -> Addresses \cup {NoAddress}]
      /\ newestTransformation \in [TransformationNames -> Addresses \cup {NoAddress}]
      /\ newestCondition \in [ConditionNames -> Addresses \cup {NoAddress}]
  BY DEF Emptied
<1>3. /\ ownedFeatures \in [Users -> SUBSET FeatureNames]
      /\ ownedTransformations \in [Users -> SUBSET TransformationNames]
      /\ conditions \in [ConditionNames -> SUBSET Addresses]
  BY DEF Emptied
<1>4. RegistryTypeOK
  BY <1>1, <1>2, <1>3 DEF Emptied, FilesTyped, RegistryTypeOK
<1>5. Vacant
  BY DEF Emptied, Vacant, getFeature, getTransformation
<1>6. /\ \A n \in FeatureNames : isFeatureBucketEmpty(n) /\ getNewestFeature(n) = NoRecord
      /\ \A n \in TransformationNames : isTransformationBucketEmpty(n)
  BY <1>5
  DEF Vacant, isFeatureBucketEmpty, isTransformationBucketEmpty, getNewestFeature, getFeature,
      getTransformation
<1>7. NewestIsRegistered
  BY <1>5, <1>6 DEF Vacant, NewestIsRegistered
<1>8. TransformationsClosed /\ FirstSubFeaturesClosed
  BY <1>5 DEF Vacant, TransformationsClosed, FirstSubFeaturesClosed
<1>9. NoCycle
  BY <1>6 DEF NoCycle, Continues
<1> QED
  BY <1>4, <1>5, <1>7, <1>8, <1>9

\* A process that is started again is a fresh one.
LEMMA RestartEmpties == Restart => Emptied'
BY DEF Restart, Emptied

-----------------------------------------------------------------------------
(***************************************************************************)
(* What a deployment does.  It is refused, and no record changes, although *)
(* the name may stay on the chain and a record that cannot be printed      *)
(* empties the file of its name; or the contract is entered on the chain   *)
(* and its record in the catalogue.                                        *)
(***************************************************************************)
Refused ==
  /\ RefusalStep
  /\ diverged' # diverged => \E feature \in Features : CheckDiverges(feature)

FeatureEntered(feature, owner) ==
  /\ NameFree(featureOnChain, feature.name)
  /\ featureOnChain' = Enter(featureOnChain, owner, feature)

TransformationEntered(transformation, owner) ==
  /\ NameFree(transformationOnChain, transformation.name)
  /\ transformationOnChain' = Enter(transformationOnChain, owner, transformation)

\* At most the file of that name was emptied.
FeatureFileKept(feature) ==
  \/ UNCHANGED featureFiles
  \/ /\ feature \notin Serializable
     /\ featureFiles' = [featureFiles EXCEPT ![feature.name] = Truncated]

TransformationFileKept(transformation) ==
  \/ UNCHANGED transformationFiles
  \/ /\ transformation \notin Serializable
     /\ transformationFiles' = [transformationFiles EXCEPT ![transformation.name] = Truncated]

LEMMA FeatureDeployed ==
  ASSUME RegistryTypeOK, NEW feature \in Features, NEW owner \in Users,
         deployFeature(feature, owner)
  PROVE  /\ UNCHANGED <<transformationOnChain, transformationFiles>>
         /\ \/ /\ Refused /\ FeatureFileKept(feature)
               /\ UNCHANGED featureOnChain \/ FeatureEntered(feature, owner)
            \/ /\ RegisterFeature(AddressOf(owner, feature), feature, owner)
               /\ feature \in Constructible
               /\ ptReady /\ FeatureEntered(feature, owner)
<1> USE DEF featureVars, transformationVars, conditionVars, featureFileVars,
            transformationFileVars
<1> DEFINE address == AddressOf(owner, feature)
<1>0. address \in Addresses
  BY NodeAssumption DEF Contracts
<1>1. ASSUME UNCHANGED registryVars
      PROVE  Refused /\ FeatureFileKept(feature) /\ UNCHANGED transformationFiles
  BY <1>1, FilesUntouched
  DEF registryVars, RegistryTypeOK, RefusalStep, Refused, FeatureFileKept
<1>2. ASSUME CheckDiverges(feature), diverged' = TRUE,
             UNCHANGED <<featureVars, transformationVars, conditionVars>>
      PROVE  Refused /\ FeatureFileKept(feature) /\ UNCHANGED transformationFiles
  BY <1>2, FilesUntouched DEF RegistryTypeOK, RefusalStep, Refused, FeatureFileKept
<1>3. CASE RefuseFeatureContract(feature, owner)
  <2>1. CASE SubFeatureMissing(feature) /\ UNCHANGED <<registryVars, chainVars>>
    BY <1>1, <2>1 DEF chainVars
  <2>2. CASE /\ CheckDiverges(feature)
             /\ diverged' = TRUE
             /\ UNCHANGED <<featureVars, transformationVars, conditionVars, chainVars>>
    BY <1>2, <2>2 DEF chainVars
  <2>3. CASE /\ featureOnChain' \in Failed(featureOnChain, owner, feature)
             /\ UNCHANGED <<registryVars, transformationOnChain>>
    <3>1. UNCHANGED featureOnChain \/ FeatureEntered(feature, owner)
      BY <2>3 DEF Failed, FeatureEntered
    <3> QED
      BY <1>1, <2>3, <3>1
  <2> QED
    BY <1>3, <2>1, <2>2, <2>3 DEF RefuseFeatureContract
<1>4. CASE /\ Constructed(feature, featureOnChain)
           /\ featureOnChain' = Enter(featureOnChain, owner, feature)
           /\ addFeature(address, feature, owner)
           /\ UNCHANGED transformationOnChain
  <2>1. feature \in Constructible /\ ptReady /\ FeatureEntered(feature, owner)
    BY <1>4 DEF Constructed, FeatureEntered
  <2>2. CASE RefuseUnsupportedFeature(feature) \/ RefuseKnownFeature(address, feature)
    BY <1>1, <1>4, <2>1, <2>2 DEF RefuseUnsupportedFeature, RefuseKnownFeature
  <2>3. CASE DivergeOnFeature(feature)
    BY <1>2, <1>4, <2>1, <2>3 DEF DivergeOnFeature
  <2>4. CASE \/ RefuseUntransformableFeature(address, feature)
             \/ RefuseUnstorableFeature(address, feature)
    <3>1. RefusalStep \/ RegisterFeature(address, feature, owner)
      BY <1>0, <1>4, FeatureRefusals
    <3>2. /\ UNCHANGED <<diverged, transformationFiles>>
          /\ FeatureFileKept(feature)
      BY <2>4
      DEF RefuseUntransformableFeature, RefuseUnstorableFeature, TruncateFeature,
          FeatureFileKept
    <3> QED
      BY <1>4, <2>1, <3>1, <3>2 DEF Refused, RegisterFeature
  <2>5. CASE RegisterFeature(address, feature, owner)
    <3>1. UNCHANGED transformationFiles
      BY <2>5 DEF RegisterFeature
    <3> QED
      BY <1>4, <2>1, <2>5, <3>1
  <2> QED
    BY <1>4, <2>2, <2>3, <2>4, <2>5 DEF addFeature
<1> QED
  BY <1>3, <1>4 DEF deployFeature

LEMMA TransformationDeployed ==
  ASSUME RegistryTypeOK, NEW transformation \in Transformations, NEW owner \in Users,
         deployTransformation(transformation, owner)
  PROVE  /\ UNCHANGED <<featureOnChain, featureFiles>>
         /\ \/ /\ Refused /\ TransformationFileKept(transformation)
               /\ \/ UNCHANGED transformationOnChain
                  \/ TransformationEntered(transformation, owner)
            \/ /\ RegisterTransformation(AddressOf(owner, transformation),
                                         transformation, owner)
               /\ transformation \in Constructible /\ transformation.sol_src # ""
               /\ ptReady /\ TransformationEntered(transformation, owner)
<1> USE DEF featureVars, transformationVars, conditionVars, featureFileVars,
            transformationFileVars
<1> DEFINE address == AddressOf(owner, transformation)
<1>0. address \in Addresses
  BY NodeAssumption DEF Contracts
<1>1. ASSUME UNCHANGED registryVars
      PROVE  Refused /\ TransformationFileKept(transformation) /\ UNCHANGED featureFiles
  BY <1>1, FilesUntouched
  DEF registryVars, RegistryTypeOK, RefusalStep, Refused, TransformationFileKept
<1>2. CASE RefuseTransformationContract(transformation, owner)
  <2>1. UNCHANGED transformationOnChain \/ TransformationEntered(transformation, owner)
    BY <1>2 DEF RefuseTransformationContract, Failed, TransformationEntered
  <2>2. UNCHANGED <<registryVars, featureOnChain>>
    BY <1>2 DEF RefuseTransformationContract
  <2> QED
    BY <1>1, <2>1, <2>2
<1>3. CASE /\ transformation.sol_src # ""
           /\ Constructed(transformation, transformationOnChain)
           /\ transformationOnChain' = Enter(transformationOnChain, owner, transformation)
           /\ addTransformation(address, transformation, owner)
           /\ UNCHANGED featureOnChain
  <2>1. /\ transformation \in Constructible
        /\ ptReady /\ TransformationEntered(transformation, owner)
    BY <1>3 DEF Constructed, TransformationEntered
  <2>2. CASE RefuseTransformation(address, transformation)
    BY <1>1, <1>3, <2>1, <2>2 DEF RefuseTransformation
  <2>3. CASE RefuseUnstorableTransformation(address, transformation)
    <3>1. RefusalStep \/ RegisterTransformation(address, transformation, owner)
      BY <1>0, <1>3, TransformationRefusals
    <3>2. /\ UNCHANGED <<diverged, featureFiles>>
          /\ TransformationFileKept(transformation)
      BY <2>3
      DEF RefuseUnstorableTransformation, TruncateTransformation, TransformationFileKept
    <3> QED
      BY <1>3, <2>1, <3>1, <3>2 DEF Refused, RegisterTransformation
  <2>4. CASE RegisterTransformation(address, transformation, owner)
    <3>1. UNCHANGED featureFiles
      BY <2>4 DEF RegisterTransformation
    <3> QED
      BY <1>3, <2>1, <2>4, <3>1
  <2> QED
    BY <1>3, <2>2, <2>3, <2>4 DEF addTransformation
<1> QED
  BY <1>2, <1>3 DEF deployTransformation

-----------------------------------------------------------------------------
(* What a deployment keeps of the catalogue: RegistryProofs, and what a     *)
(* refusal leaves.                                                          *)

CatalogueStep == [RegistryNext]_registryVars \/ Refused

\* A name that is free on the chain has no version in the catalogue, or may be
\* deployed again: a registration is a step of the Registry's specification.
LEMMA RegistrationIsStep ==
  ASSUME ~diverged, NEW owner \in Users
  PROVE  /\ FeaturesOnChain =>
              \A feature \in Features :
                /\ NameFree(featureOnChain, feature.name)
                /\ RegisterFeature(AddressOf(owner, feature), feature, owner)
                => RegistryNext
         /\ TransformationsOnChain =>
              \A transformation \in Transformations :
                /\ NameFree(transformationOnChain, transformation.name)
                /\ RegisterTransformation(AddressOf(owner, transformation),
                                          transformation, owner)
                => RegistryNext
<1>1. ASSUME FeaturesOnChain, NEW feature \in Features,
             NameFree(featureOnChain, feature.name),
             RegisterFeature(AddressOf(owner, feature), feature, owner)
      PROVE  RegistryNext
  <2>1. AddressOf(owner, feature) \in Addresses
    BY NodeAssumption DEF Contracts
  <2>2. feature.name \in FeatureNames
    BY CatalogueShape
  <2>3. Deployable(isFeatureBucketEmpty(feature.name))
    BY <1>1, <2>2, SentinelAssumption
    DEF FeaturesOnChain, NameFree, Deployable, isFeatureBucketEmpty, getFeature
  <2> QED
    BY <1>1, <2>1, <2>3 DEF RegistryNext, AddSomeFeature, addFeature
<1>2. ASSUME TransformationsOnChain, NEW transformation \in Transformations,
             NameFree(transformationOnChain, transformation.name),
             RegisterTransformation(AddressOf(owner, transformation), transformation, owner)
      PROVE  RegistryNext
  <2>1. AddressOf(owner, transformation) \in Addresses
    BY NodeAssumption DEF Contracts
  <2>2. transformation.name \in TransformationNames
    BY CatalogueAssumption DEF Transformation
  <2>3. Deployable(isTransformationBucketEmpty(transformation.name))
    BY <1>2, <2>2, SentinelAssumption
    DEF TransformationsOnChain, NameFree, Deployable, isTransformationBucketEmpty,
        getTransformation
  <2> QED
    BY <1>2, <2>1, <2>3 DEF RegistryNext, AddSomeTransformation, addTransformation
<1> QED
  BY <1>1, <1>2

LEMMA CatalogueKept ==
  ASSUME RegistryTypeOK, NewestIsRegistered, CatalogueStep
  PROVE  RegistryTypeOK' /\ NewestIsRegistered'
<1>1. CASE [RegistryNext]_registryVars
  BY <1>1, TypeStep, NewestStep
<1>2. CASE Refused
  <2>1. RefusalStep
    BY <1>2 DEF Refused
  <2>2. RegistryTypeOK'
    BY <2>1
    DEF RefusalStep, FeatureFileEmptied, TransformationFileEmptied, RegistryTypeOK,
        conditionVars
  <2>3. NewestIsRegistered'
    BY <2>1, LookupsStand
    DEF NewestIsRegistered, isFeatureBucketEmpty, isTransformationBucketEmpty,
        getNewestFeature, getNewestTransformation, getFeature, getTransformation
  <2> QED
    BY <2>2, <2>3
<1> QED
  BY <1>1, <1>2 DEF CatalogueStep

LEMMA ReferencesKept ==
  ASSUME RegistryTypeOK, TransformationsClosed, FirstSubFeaturesClosed, CatalogueStep
  PROVE  TransformationsClosed' /\ FirstSubFeaturesClosed'
<1>1. CASE [RegistryNext]_registryVars
  BY <1>1, ReferencesStep
<1>2. CASE Refused
  <2>1. RefusalStep
    BY <1>2 DEF Refused
  <2> QED
    BY <2>1, LookupsStand
    DEF TransformationsClosed, FirstSubFeaturesClosed, isFeatureBucketEmpty,
        isTransformationBucketEmpty, getFeature, getTransformation, Composed, FirstName
<1> QED
  BY <1>1, <1>2 DEF CatalogueStep

LEMMA AcyclicKept ==
  ASSUME ~Reregistration, RegistryTypeOK, NewestIsRegistered, FirstSubFeaturesClosed,
         NoCycle, ~diverged, CatalogueStep
  PROVE  NoCycle' /\ ~diverged'
<1>1. CASE [RegistryNext]_registryVars
  BY <1>1, NoCycleStep, NotDivergedStep
<1>2. CASE Refused
  <2>1. RefusalStep
    BY <1>2 DEF Refused
  <2>2. NoCycle'
    BY <2>1, LookupsStand
    DEF NoCycle, Followed, Continues, NextName, getNewestFeature, getFeature, Composed, FirstName
  <2>3. \A feature \in Features : ~CheckDiverges(feature)
    BY NoCycleNoDivergence
  <2>4. diverged' = diverged
    BY <1>2, <2>3 DEF Refused
  <2> QED
    BY <2>2, <2>4
<1> QED
  BY <1>1, <1>2 DEF CatalogueStep

-----------------------------------------------------------------------------
(***************************************************************************)
(* The two deployments, whoever asks for them: a client or the loader.     *)
(***************************************************************************)
ChainTyped ==
  /\ featureOnChain \in [FeatureNames -> Addresses \cup {NoAddress}]
  /\ transformationOnChain \in [TransformationNames -> Addresses \cup {NoAddress}]

\* What either deployment relies on and keeps.
Deploying ==
  /\ RegistryTypeOK /\ NewestIsRegistered
  /\ ChainTyped
  /\ FeaturesOnChain /\ TransformationsOnChain

\* The newest version moves; the file becomes its record, unless the disk fails.
FeatureMoved(feature, owner) ==
  LET n == feature.name
      record == [feature |-> feature, owner |-> owner]
  IN  /\ newestFeature' = [newestFeature EXCEPT ![n] = AddressOf(owner, feature)]
      /\ \E content \in Written(record, featureFiles[n]) :
           featureFiles' = [featureFiles EXCEPT ![n] = content]

TransformationMoved(transformation, owner) ==
  LET n == transformation.name
      record == [transformation |-> transformation, owner |-> owner]
  IN  /\ newestTransformation' =
           [newestTransformation EXCEPT ![n] = AddressOf(owner, transformation)]
      /\ \E content \in Written(record, transformationFiles[n]) :
           transformationFiles' = [transformationFiles EXCEPT ![n] = content]

LEMMA FeatureDeployment ==
  ASSUME Deploying, ~diverged, UNCHANGED ptReady,
         NEW feature \in Features, NEW owner \in Users, deployFeature(feature, owner)
  PROVE  /\ Deploying'
         /\ CatalogueStep
         /\ UNCHANGED <<newestTransformation, transformationFiles>>
         /\ \/ UNCHANGED newestFeature /\ FeatureFileKept(feature)
            \/ FeatureMoved(feature, owner)
<1> DEFINE name    == feature.name
           address == AddressOf(owner, feature)
           record  == [feature |-> feature, owner |-> owner]
<1> USE DEF Deploying
<1>1. name \in FeatureNames
  BY CatalogueShape
<1>2. address \in Addresses /\ address # NoAddress
  BY NodeAssumption, SentinelAssumption DEF Contracts
<1>3. /\ UNCHANGED <<transformationOnChain, transformationFiles>>
      /\ \/ /\ Refused /\ FeatureFileKept(feature)
            /\ UNCHANGED featureOnChain \/ FeatureEntered(feature, owner)
         \/ /\ RegisterFeature(address, feature, owner)
            /\ ptReady /\ FeatureEntered(feature, owner)
  BY FeatureDeployed
<1>4. CatalogueStep
  BY <1>3, RegistrationIsStep DEF CatalogueStep, FeatureEntered
<1>5. RegistryTypeOK' /\ NewestIsRegistered'
  BY <1>4, CatalogueKept
<1>6. ASSUME FeatureEntered(feature, owner)
      PROVE  /\ featureOnChain' \in [FeatureNames -> Addresses \cup {NoAddress}]
             /\ featureOnChain'[name] = address
             /\ \A n \in FeatureNames \ {name} : featureOnChain'[n] = featureOnChain[n]
             /\ ~Reregistration => featureOnChain[name] = NoAddress
  BY <1>1, <1>2, <1>6 DEF ChainTyped, FeatureEntered, Enter, NameFree
<1>7. ChainTyped'
  BY <1>3, <1>6 DEF ChainTyped
<1>8. CASE /\ Refused /\ FeatureFileKept(feature)
           /\ UNCHANGED featureOnChain \/ FeatureEntered(feature, owner)
  <2>1. UNCHANGED <<features, newestFeature, transformations, newestTransformation>>
    BY <1>8, LookupsStand DEF Refused
  <2>2. ASSUME NEW n \in FeatureNames, NEW a \in Addresses, getFeature(n, a) # NoRecord,
               ~Reregistration
        PROVE  featureOnChain'[n] = a
    <3>1. featureOnChain[n] = a /\ a # NoAddress
      BY <2>2, SentinelAssumption DEF FeaturesOnChain
    <3> QED
      BY <1>6, <1>8, <2>2, <3>1
  <2>3. FeaturesOnChain'
    BY <2>1, <2>2 DEF FeaturesOnChain, getFeature
  <2>4. TransformationsOnChain'
    BY <1>3, <2>1 DEF TransformationsOnChain, getTransformation
  <2> QED
    BY <1>3, <1>4, <1>5, <1>7, <1>8, <2>1, <2>3, <2>4
<1>9. CASE /\ RegisterFeature(address, feature, owner)
           /\ ptReady /\ FeatureEntered(feature, owner)
  <2>1. UNCHANGED transformationVars
    BY <1>9 DEF RegisterFeature
  <2>2. FeatureMoved(feature, owner)
    BY <1>9 DEF RegisterFeature, StoreFeature, FeatureMoved
  <2>3. FeatureAdded(address, feature, owner, name, record)
    BY <1>2, <1>9, FeatureEffect
  <2>4. \A n \in FeatureNames, a \in Addresses :
          getFeature(n, a)' = IF n = name /\ a = address THEN record ELSE getFeature(n, a)
    BY <2>3 DEF FeatureAdded
  <2>5. record.feature = feature /\ record.owner = owner
    OBVIOUS
  <2> HIDE DEF record
  <2>6. ASSUME NEW n \in FeatureNames, NEW a \in Addresses, getFeature(n, a)' # NoRecord
        PROVE  /\ ptReady'
               /\ a = AddressOf(getFeature(n, a)'.owner, getFeature(n, a)'.feature)
               /\ ~Reregistration => featureOnChain'[n] = a
    <3>1. CASE n = name /\ a = address
      BY <1>6, <1>9, <2>4, <2>5, <3>1
    <3>2. CASE ~(n = name /\ a = address)
      <4>1. getFeature(n, a)' = getFeature(n, a) /\ getFeature(n, a) # NoRecord
        BY <2>4, <2>6, <3>2
      <4>2. /\ ptReady
            /\ a = AddressOf(getFeature(n, a).owner, getFeature(n, a).feature)
            /\ ~Reregistration => featureOnChain[n] = a
        BY <4>1 DEF FeaturesOnChain
      <4>3. ~Reregistration => n # name
        BY <1>6, <1>9, <4>2, SentinelAssumption
      <4> QED
        BY <1>6, <1>9, <4>1, <4>2, <4>3
    <3> QED
      BY <3>1, <3>2
  <2>7. FeaturesOnChain'
    BY <2>6 DEF FeaturesOnChain
  <2>8. TransformationsOnChain'
    BY <1>3, <2>1 DEF TransformationsOnChain, getTransformation, transformationVars
  <2> QED
    BY <1>3, <1>4, <1>5, <1>7, <2>1, <2>2, <2>7, <2>8 DEF transformationVars
<1> QED
  BY <1>3, <1>8, <1>9

LEMMA TransformationDeployment ==
  ASSUME Deploying, ~diverged, UNCHANGED ptReady,
         NEW transformation \in Transformations, NEW owner \in Users,
         deployTransformation(transformation, owner)
  PROVE  /\ Deploying'
         /\ CatalogueStep
         /\ UNCHANGED <<newestFeature, featureFiles>>
         /\ \/ UNCHANGED newestTransformation /\ TransformationFileKept(transformation)
            \/ TransformationMoved(transformation, owner)
<1> DEFINE name    == transformation.name
           address == AddressOf(owner, transformation)
           record  == [transformation |-> transformation, owner |-> owner]
<1> USE DEF Deploying
<1>1. name \in TransformationNames
  BY CatalogueAssumption DEF Transformation
<1>2. address \in Addresses /\ address # NoAddress
  BY NodeAssumption, SentinelAssumption DEF Contracts
<1>3. /\ UNCHANGED <<featureOnChain, featureFiles>>
      /\ \/ /\ Refused /\ TransformationFileKept(transformation)
            /\ UNCHANGED transformationOnChain \/ TransformationEntered(transformation, owner)
         \/ /\ RegisterTransformation(address, transformation, owner)
            /\ ptReady /\ TransformationEntered(transformation, owner)
  BY TransformationDeployed
<1>4. CatalogueStep
  BY <1>3, RegistrationIsStep DEF CatalogueStep, TransformationEntered
<1>5. RegistryTypeOK' /\ NewestIsRegistered'
  BY <1>4, CatalogueKept
<1>6. ASSUME TransformationEntered(transformation, owner)
      PROVE  /\ transformationOnChain' \in [TransformationNames -> Addresses \cup {NoAddress}]
             /\ transformationOnChain'[name] = address
             /\ \A n \in TransformationNames \ {name} :
                  transformationOnChain'[n] = transformationOnChain[n]
             /\ ~Reregistration => transformationOnChain[name] = NoAddress
  BY <1>1, <1>2, <1>6 DEF ChainTyped, TransformationEntered, Enter, NameFree
<1>7. ChainTyped'
  BY <1>3, <1>6 DEF ChainTyped
<1>8. CASE /\ Refused /\ TransformationFileKept(transformation)
           /\ UNCHANGED transformationOnChain \/ TransformationEntered(transformation, owner)
  <2>1. UNCHANGED <<features, newestFeature, transformations, newestTransformation>>
    BY <1>8, LookupsStand DEF Refused
  <2>2. ASSUME NEW n \in TransformationNames, NEW a \in Addresses,
               getTransformation(n, a) # NoRecord, ~Reregistration
        PROVE  transformationOnChain'[n] = a
    <3>1. transformationOnChain[n] = a /\ a # NoAddress
      BY <2>2, SentinelAssumption DEF TransformationsOnChain
    <3> QED
      BY <1>6, <1>8, <2>2, <3>1
  <2>3. TransformationsOnChain'
    BY <2>1, <2>2 DEF TransformationsOnChain, getTransformation
  <2>4. FeaturesOnChain'
    BY <1>3, <2>1 DEF FeaturesOnChain, getFeature
  <2> QED
    BY <1>3, <1>4, <1>5, <1>7, <1>8, <2>1, <2>3, <2>4
<1>9. CASE /\ RegisterTransformation(address, transformation, owner)
           /\ ptReady /\ TransformationEntered(transformation, owner)
  <2>1. UNCHANGED featureVars
    BY <1>9 DEF RegisterTransformation
  <2>2. TransformationMoved(transformation, owner)
    BY <1>9 DEF RegisterTransformation, StoreTransformation, TransformationMoved
  <2>3. TransformationAdded(address, transformation, owner, name, record)
    BY <1>2, <1>9, TransformationEffect
  <2>4. \A n \in TransformationNames, a \in Addresses :
          getTransformation(n, a)' =
            IF n = name /\ a = address THEN record ELSE getTransformation(n, a)
    BY <2>3 DEF TransformationAdded
  <2>5. record.transformation = transformation /\ record.owner = owner
    OBVIOUS
  <2> HIDE DEF record
  <2>6. ASSUME NEW n \in TransformationNames, NEW a \in Addresses,
               getTransformation(n, a)' # NoRecord
        PROVE  /\ ptReady'
               /\ a = AddressOf(getTransformation(n, a)'.owner,
                                getTransformation(n, a)'.transformation)
               /\ ~Reregistration => transformationOnChain'[n] = a
    <3>1. CASE n = name /\ a = address
      BY <1>6, <1>9, <2>4, <2>5, <3>1
    <3>2. CASE ~(n = name /\ a = address)
      <4>1. /\ getTransformation(n, a)' = getTransformation(n, a)
            /\ getTransformation(n, a) # NoRecord
        BY <2>4, <2>6, <3>2
      <4>2. /\ ptReady
            /\ a = AddressOf(getTransformation(n, a).owner,
                             getTransformation(n, a).transformation)
            /\ ~Reregistration => transformationOnChain[n] = a
        BY <4>1 DEF TransformationsOnChain
      <4>3. ~Reregistration => n # name
        BY <1>6, <1>9, <4>2, SentinelAssumption
      <4> QED
        BY <1>6, <1>9, <4>1, <4>2, <4>3
    <3> QED
      BY <3>1, <3>2
  <2>7. TransformationsOnChain'
    BY <2>6 DEF TransformationsOnChain
  <2>8. FeaturesOnChain'
    BY <1>3, <2>1 DEF FeaturesOnChain, getFeature, featureVars
  <2> QED
    BY <1>3, <1>4, <1>5, <1>7, <2>1, <2>2, <2>7, <2>8 DEF featureVars
<1> QED
  BY <1>3, <1>8, <1>9

-----------------------------------------------------------------------------
(***************************************************************************)
(* The steps of the process: a deployment, by the loader or for a client;  *)
(* a step of the start that touches no catalogue; a kill.                  *)
(***************************************************************************)
Quiet ==
  /\ UNCHANGED <<registryVars, chainVars, starts, publishedVars>>
  /\ \/ loadPT \/ readTransformations \/ readFeatures \/ listen
     \/ UNCHANGED nodeVars

LEMMA NodeStepCases ==
  ASSUME [NodeNext]_nodeVars
  PROVE  \/ Quiet
         \/ ~diverged /\ (loadTransformation \/ POST_transformation)
         \/ ~diverged /\ (loadFeature \/ POST_feature)
         \/ Kill
BY DEF NodeNext, Start, Quiet, loadPT, readTransformations, readFeatures, listen, nodeVars,
       bootVars

LEMMA KillRestarts ==
  Kill => /\ Restart
          /\ boot' = "loadPT" /\ toLoad' = {}
BY DEF Kill, kill, killWhileStoringFeature, killWhileStoringTransformation, Restart

\* A posted record that is stored is the newest, and what is published last.
LEMMA FeatureStepKeeps ==
  ASSUME NodeInv, ~diverged, loadFeature \/ POST_feature
  PROVE  NodeInv' /\ CatalogueStep
<1>0. Deploying
  BY DEF NodeInv, NodeTypeOK, Deploying, ChainTyped
<1> DEFINE Kept(feature, owner) ==
      /\ UNCHANGED <<newestTransformation, transformationFiles>>
      /\ \/ UNCHANGED newestFeature /\ FeatureFileKept(feature)
         \/ FeatureMoved(feature, owner)
<1>1. ASSUME loadFeature
      PROVE  /\ Deploying' /\ CatalogueStep
             /\ \E record \in toLoad :
                  /\ record.feature \in Features /\ record.owner \in Users
                  /\ FeatureIsPublished(record)
                  /\ toLoad' = toLoad \ {record}
                  /\ Kept(record.feature, record.owner)
             /\ boot = "features"
             /\ UNCHANGED <<boot, ptReady, starts, publishedVars>>
  <2>1. /\ boot = "features"
        /\ UNCHANGED <<boot, ptReady, starts, publishedVars>>
    BY <1>1 DEF loadFeature
  <2> PICK record \in toLoad :
        /\ deployFeature(record.feature, record.owner)
        /\ toLoad' = toLoad \ {record}
    BY <1>1 DEF loadFeature
  <2>2. record \in FeatureRecord /\ FeatureIsPublished(record)
    BY <2>1 DEF NodeInv, LoadPublished
  <2>3. record.feature \in Features /\ record.owner \in Users
    BY <2>2 DEF FeatureRecord
  <2> QED
    BY <1>0, <2>1, <2>2, <2>3, FeatureDeployment
<1>2. ASSUME POST_feature
      PROVE  /\ Deploying' /\ CatalogueStep
             /\ \E feature \in Features, owner \in Users :
                  /\ Kept(feature, owner)
                  /\ publishedFeatures' =
                       [publishedFeatures EXCEPT ![feature.name] =
                          IF newestFeature'[feature.name] # newestFeature[feature.name]
                          THEN newestFeature'[feature.name] ELSE @]
             /\ boot = "serving"
             /\ UNCHANGED <<bootVars, publishedTransformations>>
  <2>1. /\ boot = "serving"
        /\ UNCHANGED <<bootVars, publishedTransformations>>
    BY <1>2 DEF POST_feature
  <2>2. PICK feature \in Features, owner \in Users :
        /\ deployFeature(feature, owner)
        /\ publishedFeatures' =
             [publishedFeatures EXCEPT ![feature.name] =
                IF newestFeature'[feature.name] # newestFeature[feature.name]
                THEN newestFeature'[feature.name] ELSE @]
    BY <1>2 DEF POST_feature
  <2>3. UNCHANGED ptReady
    BY <2>1 DEF bootVars
  <2> QED
    BY <1>0, <2>1, <2>2, <2>3, FeatureDeployment
<1>3. /\ featureFiles \in [FeatureNames -> FeatureRecord \cup {NoFile, Truncated}]
      /\ newestFeature \in [FeatureNames -> Addresses \cup {NoAddress}]
      /\ publishedFeatures \in [FeatureNames -> Addresses \cup {NoAddress}]
  BY DEF NodeInv, NodeTypeOK, RegistryTypeOK
<1>4. ASSUME NEW feature \in Features, NEW owner \in Users, Kept(feature, owner),
             publishedFeatures' \in [FeatureNames -> Addresses \cup {NoAddress}],
             UNCHANGED publishedTransformations,
             \A n \in FeatureNames \ {feature.name} :
               publishedFeatures'[n] = publishedFeatures[n],
             \/ UNCHANGED <<newestFeature, publishedFeatures>> /\ FeatureFileKept(feature)
             \/ /\ FeatureMoved(feature, owner)
                /\ ~DiskMayFail => publishedFeatures'[feature.name] = AddressOf(owner, feature)
      PROVE  FilesPublished' /\ (~DiskMayFail => NeverRollsBack')
  <2>1. feature.name \in FeatureNames
    BY CatalogueShape
  <2>2. UNCHANGED <<newestTransformation, transformationFiles, publishedTransformations>>
    BY <1>4
  <2>3. CASE UNCHANGED <<newestFeature, publishedFeatures>> /\ FeatureFileKept(feature)
    <3>1. \A n \in FeatureNames :
            featureFiles'[n] = featureFiles[n] \/ featureFiles'[n] = Truncated
      BY <1>3, <2>1, <2>3 DEF FeatureFileKept
    <3>2. FilesPublished'
      BY <2>2, <2>3, <3>1, SentinelAssumption
      DEF NodeInv, FilesPublished, FeatureIsPublished, TransformationIsPublished
    <3> QED
      BY <2>2, <2>3, <3>2 DEF NodeInv, NeverRollsBack
  <2>4. CASE /\ FeatureMoved(feature, owner)
             /\ ~DiskMayFail => publishedFeatures'[feature.name] = AddressOf(owner, feature)
    <3> DEFINE record == [feature |-> feature, owner |-> owner]
    <3>1. PICK content \in Written(record, featureFiles[feature.name]) :
            featureFiles' = [featureFiles EXCEPT ![feature.name] = content]
      BY <2>4 DEF FeatureMoved
    <3>2. record.feature = feature /\ record.owner = owner
      OBVIOUS
    <3> HIDE DEF record
    <3>3. /\ newestFeature'[feature.name] = AddressOf(owner, feature)
          /\ \A n \in FeatureNames \ {feature.name} : newestFeature'[n] = newestFeature[n]
      BY <1>3, <2>1, <2>4 DEF FeatureMoved
    <3>4. /\ featureFiles'[feature.name] = content
          /\ \A n \in FeatureNames \ {feature.name} : featureFiles'[n] = featureFiles[n]
      BY <1>3, <2>1, <3>1
    <3>5. \A n \in FeatureNames :
            featureFiles'[n] \in FeatureRecord =>
              /\ featureFiles'[n].feature.name = n
              /\ ~DiskMayFail =>
                   publishedFeatures'[featureFiles'[n].feature.name] =
                     AddressOf(featureFiles'[n].owner, featureFiles'[n].feature)
      <4>1. content \in FeatureRecord =>
              \/ content = record
              \/ DiskMayFail /\ content = featureFiles[feature.name]
        BY <3>1, SentinelAssumption DEF Written
      <4> QED
        BY <1>4, <2>1, <2>4, <3>2, <3>4, <4>1 DEF NodeInv, FilesPublished, FeatureIsPublished
    <3>6. FilesPublished'
      BY <2>2, <3>5
      DEF NodeInv, FilesPublished, FeatureIsPublished, TransformationIsPublished
    <3>7. ~DiskMayFail => NeverRollsBack'
      BY <1>4, <2>2, <2>4, <3>3 DEF NodeInv, NeverRollsBack
    <3> QED
      BY <3>6, <3>7
  <2> QED
    BY <1>4, <2>3, <2>4
<1> HIDE DEF Kept
<1>5. CASE loadFeature
  <2> PICK record \in toLoad :
        /\ record.feature \in Features /\ record.owner \in Users
        /\ FeatureIsPublished(record)
        /\ toLoad' = toLoad \ {record}
        /\ Kept(record.feature, record.owner)
    BY <1>1, <1>5
  <2>1. /\ Deploying' /\ CatalogueStep /\ boot = "features"
        /\ UNCHANGED <<boot, ptReady, starts, publishedVars>>
    BY <1>1, <1>5
  <2>2. FilesPublished' /\ (~DiskMayFail => NeverRollsBack')
    <3>1. UNCHANGED <<publishedFeatures, publishedTransformations>>
      BY <2>1 DEF publishedVars
    <3>2. \/ UNCHANGED <<newestFeature, publishedFeatures>> /\ FeatureFileKept(record.feature)
          \/ /\ FeatureMoved(record.feature, record.owner)
             /\ ~DiskMayFail => publishedFeatures'[record.feature.name] =
                                  AddressOf(record.owner, record.feature)
      BY <3>1 DEF Kept, FeatureIsPublished
    <3> QED
      BY <1>3, <1>4, <3>1, <3>2
  <2>3. LoadPublished'
    BY <2>1
    DEF NodeInv, LoadPublished, FeatureIsPublished, TransformationIsPublished, publishedVars
  <2>4. NodeTypeOK'
    BY <2>1 DEF NodeInv, NodeTypeOK, Deploying, ChainTyped, publishedVars
  <2> QED
    BY <2>1, <2>2, <2>3, <2>4 DEF NodeInv, Deploying
<1>6. CASE POST_feature
  <2>1. PICK feature \in Features, owner \in Users :
        /\ Kept(feature, owner)
        /\ publishedFeatures' =
             [publishedFeatures EXCEPT ![feature.name] =
                IF newestFeature'[feature.name] # newestFeature[feature.name]
                THEN newestFeature'[feature.name] ELSE @]
    BY <1>2, <1>6
  <2>2. /\ Deploying' /\ CatalogueStep /\ boot = "serving"
        /\ UNCHANGED <<bootVars, publishedTransformations>>
    BY <1>2, <1>6
  <2>3. /\ feature.name \in FeatureNames
        /\ newestFeature'[feature.name] \in Addresses \cup {NoAddress}
    BY <2>2, CatalogueShape DEF Deploying, RegistryTypeOK
  <2>4. /\ publishedFeatures' \in [FeatureNames -> Addresses \cup {NoAddress}]
        /\ \A n \in FeatureNames \ {feature.name} :
             publishedFeatures'[n] = publishedFeatures[n]
        /\ publishedFeatures'[feature.name] =
             IF newestFeature'[feature.name] # newestFeature[feature.name]
             THEN newestFeature'[feature.name] ELSE publishedFeatures[feature.name]
    BY <1>3, <2>1, <2>3
  <2>5. \/ UNCHANGED <<newestFeature, publishedFeatures>> /\ FeatureFileKept(feature)
        \/ /\ FeatureMoved(feature, owner)
           /\ ~DiskMayFail => publishedFeatures'[feature.name] = AddressOf(owner, feature)
    <3>1. CASE UNCHANGED newestFeature /\ FeatureFileKept(feature)
      BY <1>3, <2>1, <3>1
    <3>2. CASE FeatureMoved(feature, owner)
      <4>1. newestFeature'[feature.name] = AddressOf(owner, feature)
        BY <1>3, <2>3, <3>2 DEF FeatureMoved
      <4>2. AddressOf(owner, feature) # NoAddress
        BY NodeAssumption, SentinelAssumption DEF Contracts
      <4>3. ~DiskMayFail => newestFeature[feature.name] \in {NoAddress, publishedFeatures[feature.name]}
        BY <2>3 DEF NodeInv, NeverRollsBack
      <4> QED
        BY <2>4, <3>2, <4>1, <4>2, <4>3
    <3> QED
      BY <2>1, <3>1, <3>2 DEF Kept
  <2>6. FilesPublished' /\ (~DiskMayFail => NeverRollsBack')
    BY <1>4, <2>1, <2>2, <2>4, <2>5
  <2>7. LoadPublished'
    BY <2>2 DEF LoadPublished, bootVars
  <2>8. NodeTypeOK'
    BY <2>2, <2>4 DEF NodeInv, NodeTypeOK, Deploying, ChainTyped, bootVars
  <2> QED
    BY <2>2, <2>6, <2>7, <2>8 DEF NodeInv, Deploying, bootVars
<1> QED
  BY <1>1, <1>2, <1>5, <1>6
LEMMA TransformationStepKeeps ==
  ASSUME NodeInv, ~diverged, loadTransformation \/ POST_transformation
  PROVE  NodeInv' /\ CatalogueStep
<1>0. Deploying
  BY DEF NodeInv, NodeTypeOK, Deploying, ChainTyped
<1> DEFINE Kept(transformation, owner) ==
      /\ UNCHANGED <<newestFeature, featureFiles>>
      /\ \/ UNCHANGED newestTransformation /\ TransformationFileKept(transformation)
         \/ TransformationMoved(transformation, owner)
<1>1. ASSUME loadTransformation
      PROVE  /\ Deploying' /\ CatalogueStep
             /\ \E record \in toLoad :
                  /\ record.transformation \in Transformations /\ record.owner \in Users
                  /\ TransformationIsPublished(record)
                  /\ toLoad' = toLoad \ {record}
                  /\ Kept(record.transformation, record.owner)
             /\ boot = "transformations"
             /\ UNCHANGED <<boot, ptReady, starts, publishedVars>>
  <2>1. /\ boot = "transformations"
        /\ UNCHANGED <<boot, ptReady, starts, publishedVars>>
    BY <1>1 DEF loadTransformation
  <2> PICK record \in toLoad :
        /\ deployTransformation(record.transformation, record.owner)
        /\ toLoad' = toLoad \ {record}
    BY <1>1 DEF loadTransformation
  <2>2. record \in TransformationRecord /\ TransformationIsPublished(record)
    BY <2>1 DEF NodeInv, LoadPublished
  <2>3. record.transformation \in Transformations /\ record.owner \in Users
    BY <2>2 DEF TransformationRecord
  <2> QED
    BY <1>0, <2>1, <2>2, <2>3, TransformationDeployment
<1>2. ASSUME POST_transformation
      PROVE  /\ Deploying' /\ CatalogueStep
             /\ \E transformation \in Transformations, owner \in Users :
                  /\ Kept(transformation, owner)
                  /\ publishedTransformations' =
                       [publishedTransformations EXCEPT ![transformation.name] =
                          IF newestTransformation'[transformation.name] #
                             newestTransformation[transformation.name]
                          THEN newestTransformation'[transformation.name] ELSE @]
             /\ boot = "serving"
             /\ UNCHANGED <<bootVars, publishedFeatures>>
  <2>1. /\ boot = "serving"
        /\ UNCHANGED <<bootVars, publishedFeatures>>
    BY <1>2 DEF POST_transformation
  <2>2. PICK transformation \in Transformations, owner \in Users :
        /\ deployTransformation(transformation, owner)
        /\ publishedTransformations' =
             [publishedTransformations EXCEPT ![transformation.name] =
                IF newestTransformation'[transformation.name] #
                   newestTransformation[transformation.name]
                THEN newestTransformation'[transformation.name] ELSE @]
    BY <1>2 DEF POST_transformation
  <2>3. UNCHANGED ptReady
    BY <2>1 DEF bootVars
  <2> QED
    BY <1>0, <2>1, <2>2, <2>3, TransformationDeployment
<1>3. /\ transformationFiles \in
           [TransformationNames -> TransformationRecord \cup {NoFile, Truncated}]
      /\ newestTransformation \in [TransformationNames -> Addresses \cup {NoAddress}]
      /\ publishedTransformations \in [TransformationNames -> Addresses \cup {NoAddress}]
  BY DEF NodeInv, NodeTypeOK, RegistryTypeOK
<1>4. ASSUME NEW transformation \in Transformations, NEW owner \in Users,
             Kept(transformation, owner),
             publishedTransformations' \in [TransformationNames -> Addresses \cup {NoAddress}],
             UNCHANGED publishedFeatures,
             \A n \in TransformationNames \ {transformation.name} :
               publishedTransformations'[n] = publishedTransformations[n],
             \/ UNCHANGED <<newestTransformation, publishedTransformations>> /\ TransformationFileKept(transformation)
             \/ /\ TransformationMoved(transformation, owner)
                /\ ~DiskMayFail => publishedTransformations'[transformation.name] = AddressOf(owner, transformation)
      PROVE  FilesPublished' /\ (~DiskMayFail => NeverRollsBack')
  <2>1. transformation.name \in TransformationNames
    BY CatalogueAssumption DEF Transformation
  <2>2. UNCHANGED <<newestFeature, featureFiles, publishedFeatures>>
    BY <1>4
  <2>3. CASE UNCHANGED <<newestTransformation, publishedTransformations>> /\ TransformationFileKept(transformation)
    <3>1. \A n \in TransformationNames :
            transformationFiles'[n] = transformationFiles[n] \/ transformationFiles'[n] = Truncated
      BY <1>3, <2>1, <2>3 DEF TransformationFileKept
    <3>2. FilesPublished'
      BY <2>2, <2>3, <3>1, SentinelAssumption
      DEF NodeInv, FilesPublished, TransformationIsPublished, FeatureIsPublished
    <3> QED
      BY <2>2, <2>3, <3>2 DEF NodeInv, NeverRollsBack
  <2>4. CASE /\ TransformationMoved(transformation, owner)
             /\ ~DiskMayFail => publishedTransformations'[transformation.name] = AddressOf(owner, transformation)
    <3> DEFINE record == [transformation |-> transformation, owner |-> owner]
    <3>1. PICK content \in Written(record, transformationFiles[transformation.name]) :
            transformationFiles' = [transformationFiles EXCEPT ![transformation.name] = content]
      BY <2>4 DEF TransformationMoved
    <3>2. record.transformation = transformation /\ record.owner = owner
      OBVIOUS
    <3> HIDE DEF record
    <3>3. /\ newestTransformation'[transformation.name] = AddressOf(owner, transformation)
          /\ \A n \in TransformationNames \ {transformation.name} :
               newestTransformation'[n] = newestTransformation[n]
      BY <1>3, <2>1, <2>4 DEF TransformationMoved
    <3>4. /\ transformationFiles'[transformation.name] = content
          /\ \A n \in TransformationNames \ {transformation.name} :
               transformationFiles'[n] = transformationFiles[n]
      BY <1>3, <2>1, <3>1
    <3>5. \A n \in TransformationNames :
            transformationFiles'[n] \in TransformationRecord =>
              /\ transformationFiles'[n].transformation.name = n
              /\ ~DiskMayFail =>
                   publishedTransformations'[transformationFiles'[n].transformation.name] =
                     AddressOf(transformationFiles'[n].owner, transformationFiles'[n].transformation)
      <4>1. content \in TransformationRecord =>
              \/ content = record
              \/ DiskMayFail /\ content = transformationFiles[transformation.name]
        BY <3>1, SentinelAssumption DEF Written
      <4> QED
        BY <1>4, <2>1, <2>4, <3>2, <3>4, <4>1 DEF NodeInv, FilesPublished, TransformationIsPublished
    <3>6. FilesPublished'
      BY <2>2, <3>5
      DEF NodeInv, FilesPublished, TransformationIsPublished, FeatureIsPublished
    <3>7. ~DiskMayFail => NeverRollsBack'
      BY <1>4, <2>2, <2>4, <3>3 DEF NodeInv, NeverRollsBack
    <3> QED
      BY <3>6, <3>7
  <2> QED
    BY <1>4, <2>3, <2>4
<1> HIDE DEF Kept
<1>5. CASE loadTransformation
  <2> PICK record \in toLoad :
        /\ record.transformation \in Transformations /\ record.owner \in Users
        /\ TransformationIsPublished(record)
        /\ toLoad' = toLoad \ {record}
        /\ Kept(record.transformation, record.owner)
    BY <1>1, <1>5
  <2>1. /\ Deploying' /\ CatalogueStep /\ boot = "transformations"
        /\ UNCHANGED <<boot, ptReady, starts, publishedVars>>
    BY <1>1, <1>5
  <2>2. FilesPublished' /\ (~DiskMayFail => NeverRollsBack')
    <3>1. UNCHANGED <<publishedTransformations, publishedFeatures>>
      BY <2>1 DEF publishedVars
    <3>2. \/ UNCHANGED <<newestTransformation, publishedTransformations>> /\ TransformationFileKept(record.transformation)
          \/ /\ TransformationMoved(record.transformation, record.owner)
             /\ ~DiskMayFail => publishedTransformations'[record.transformation.name] =
                                  AddressOf(record.owner, record.transformation)
      BY <3>1 DEF Kept, TransformationIsPublished
    <3> QED
      BY <1>3, <1>4, <3>1, <3>2
  <2>3. LoadPublished'
    BY <2>1
    DEF NodeInv, LoadPublished, TransformationIsPublished, FeatureIsPublished, publishedVars
  <2>4. NodeTypeOK'
    BY <2>1 DEF NodeInv, NodeTypeOK, Deploying, ChainTyped, publishedVars
  <2> QED
    BY <2>1, <2>2, <2>3, <2>4 DEF NodeInv, Deploying
<1>6. CASE POST_transformation
  <2>1. PICK transformation \in Transformations, owner \in Users :
        /\ Kept(transformation, owner)
        /\ publishedTransformations' =
             [publishedTransformations EXCEPT ![transformation.name] =
                IF newestTransformation'[transformation.name] #
                   newestTransformation[transformation.name]
                THEN newestTransformation'[transformation.name] ELSE @]
    BY <1>2, <1>6
  <2>2. /\ Deploying' /\ CatalogueStep /\ boot = "serving"
        /\ UNCHANGED <<bootVars, publishedFeatures>>
    BY <1>2, <1>6
  <2>3. /\ transformation.name \in TransformationNames
        /\ newestTransformation'[transformation.name] \in Addresses \cup {NoAddress}
    BY <2>2, CatalogueAssumption DEF Deploying, RegistryTypeOK, Transformation
  <2>4. /\ publishedTransformations' \in [TransformationNames -> Addresses \cup {NoAddress}]
        /\ \A n \in TransformationNames \ {transformation.name} :
             publishedTransformations'[n] = publishedTransformations[n]
        /\ publishedTransformations'[transformation.name] =
             IF newestTransformation'[transformation.name] #
                newestTransformation[transformation.name]
             THEN newestTransformation'[transformation.name]
             ELSE publishedTransformations[transformation.name]
    BY <1>3, <2>1, <2>3
  <2>5. \/ UNCHANGED <<newestTransformation, publishedTransformations>> /\ TransformationFileKept(transformation)
        \/ /\ TransformationMoved(transformation, owner)
           /\ ~DiskMayFail => publishedTransformations'[transformation.name] = AddressOf(owner, transformation)
    <3>1. CASE UNCHANGED newestTransformation /\ TransformationFileKept(transformation)
      BY <1>3, <2>1, <3>1
    <3>2. CASE TransformationMoved(transformation, owner)
      <4>1. newestTransformation'[transformation.name] = AddressOf(owner, transformation)
        BY <1>3, <2>3, <3>2 DEF TransformationMoved
      <4>2. AddressOf(owner, transformation) # NoAddress
        BY NodeAssumption, SentinelAssumption DEF Contracts
      <4>3. ~DiskMayFail => newestTransformation[transformation.name]
              \in {NoAddress, publishedTransformations[transformation.name]}
        BY <2>3 DEF NodeInv, NeverRollsBack
      <4> QED
        BY <2>4, <3>2, <4>1, <4>2, <4>3
    <3> QED
      BY <2>1, <3>1, <3>2 DEF Kept
  <2>6. FilesPublished' /\ (~DiskMayFail => NeverRollsBack')
    BY <1>4, <2>1, <2>2, <2>4, <2>5
  <2>7. LoadPublished'
    BY <2>2 DEF LoadPublished, bootVars
  <2>8. NodeTypeOK'
    BY <2>2, <2>4 DEF NodeInv, NodeTypeOK, Deploying, ChainTyped, bootVars
  <2> QED
    BY <2>2, <2>6, <2>7, <2>8 DEF NodeInv, Deploying, bootVars
<1> QED
  BY <1>1, <1>2, <1>5, <1>6


LEMMA QuietStepKeeps ==
  ASSUME NodeInv, Quiet
  PROVE  NodeInv'
<1> USE DEF registryVars, chainVars, publishedVars, featureVars, transformationVars,
            conditionVars, featureFileVars, transformationFileVars
<1>1. UNCHANGED <<registryVars, chainVars, starts, publishedVars>>
  BY DEF Quiet
<1>2. /\ NewestIsRegistered' /\ (~DiskMayFail => NeverRollsBack') /\ FilesPublished'
      /\ RegistryTypeOK'
  <2>1. RegistryTypeOK'
    BY <1>1 DEF NodeInv, NodeTypeOK, RegistryTypeOK
  <2>2. NewestIsRegistered'
    BY <1>1
    DEF NodeInv, NewestIsRegistered, isFeatureBucketEmpty, isTransformationBucketEmpty,
        getNewestFeature, getNewestTransformation, getFeature, getTransformation
  <2>3. (~DiskMayFail => NeverRollsBack') /\ FilesPublished'
    BY <1>1
    DEF NodeInv, NeverRollsBack, FilesPublished, FeatureIsPublished, TransformationIsPublished
  <2> QED
    BY <2>1, <2>2, <2>3
<1>3. Vacant' <=> Vacant
  BY <1>1 DEF Vacant, getFeature, getTransformation
<1>4. boot = "loadPT" \/ UNCHANGED ptReady
  BY DEF Quiet, loadPT, readTransformations, readFeatures, listen, nodeVars, bootVars
<1>5. FeaturesOnChain' /\ TransformationsOnChain'
  <2>1. CASE boot = "loadPT"
    BY <1>3, <2>1 DEF NodeInv, Vacant, FeaturesOnChain, TransformationsOnChain
  <2>2. CASE UNCHANGED ptReady
    BY <1>1, <2>2
    DEF NodeInv, FeaturesOnChain, TransformationsOnChain, getFeature, getTransformation
  <2> QED
    BY <1>4, <2>1, <2>2
<1>6. /\ \A r \in Intact(featureFiles) : r \in FeatureRecord /\ FeatureIsPublished(r)
      /\ \A r \in Intact(transformationFiles) :
           r \in TransformationRecord /\ TransformationIsPublished(r)
  <2>1. /\ featureFiles \in [FeatureNames -> FeatureRecord \cup {NoFile, Truncated}]
        /\ transformationFiles \in
             [TransformationNames -> TransformationRecord \cup {NoFile, Truncated}]
    BY DEF NodeInv, NodeTypeOK, RegistryTypeOK
  <2> QED
    BY <2>1 DEF Intact, NodeInv, FilesPublished
<1>7. /\ \A records \in LoadJSONRecords(featureFiles) : records \subseteq Intact(featureFiles)
      /\ \A records \in LoadJSONRecords(transformationFiles) :
           records \subseteq Intact(transformationFiles)
  BY DEF LoadJSONRecords
<1>8. /\ boot' \in Boots /\ ptReady' \in BOOLEAN
      /\ toLoad' \subseteq FeatureRecord \cup TransformationRecord
      /\ LoadPublished'
      /\ boot' = "loadPT" => boot = "loadPT"
  <2> USE DEF Boots, LoadPublished, FeatureIsPublished, TransformationIsPublished
  <2>1. CASE loadPT
    BY <1>1, <2>1 DEF loadPT, NodeInv, NodeTypeOK
  <2>2. CASE readTransformations
    <3>1. toLoad' \subseteq Intact(transformationFiles) /\ boot' = "transformations"
          /\ UNCHANGED ptReady
      BY <1>7, <2>2 DEF readTransformations
    <3> QED
      BY <1>1, <1>6, <3>1 DEF NodeInv, NodeTypeOK
  <2>3. CASE readFeatures
    <3>1. toLoad' \subseteq Intact(featureFiles) /\ boot' = "features" /\ UNCHANGED ptReady
      BY <1>7, <2>3 DEF readFeatures, Sorted
    <3> QED
      BY <1>1, <1>6, <3>1 DEF NodeInv, NodeTypeOK
  <2>4. CASE listen
    BY <1>1, <2>4 DEF listen, NodeInv, NodeTypeOK
  <2>5. CASE UNCHANGED nodeVars
    BY <1>1, <2>5 DEF nodeVars, bootVars, NodeInv, NodeTypeOK
  <2> QED
    BY <2>1, <2>2, <2>3, <2>4, <2>5 DEF Quiet
<1>9. NodeTypeOK'
  BY <1>1, <1>2, <1>8 DEF NodeInv, NodeTypeOK
<1> QED
  BY <1>2, <1>3, <1>5, <1>8, <1>9 DEF NodeInv

LEMMA FreshIsSafe ==
  Emptied' /\ FilesTyped' =>
    /\ RegistryTypeOK'
    /\ Vacant'
    /\ NewestIsRegistered'
    /\ TransformationsClosed' /\ FirstSubFeaturesClosed'
    /\ NoCycle'
BY EmptiedSafe, PTL

LEMMA StartsBounded ==
  /\ 1 \in 1..MaxStarts
  /\ \A k \in 1..MaxStarts : k < MaxStarts => k + 1 \in 1..MaxStarts
<1>1. MaxStarts \in Nat /\ MaxStarts # 0
  BY NodeAssumption
<1> QED
  BY <1>1

\* What a kill leaves of a file that was being written.
FeatureLeft(feature, owner) ==
  LET n      == feature.name
      record == [feature |-> feature, owner |-> owner]
  IN  \E content \in LeftByKill(feature, record) :
        /\ featureFiles' = [featureFiles EXCEPT ![n] = content]
        /\ unsavedFeatures' = Unsaved(unsavedFeatures, n, record, content)
        /\ publishedFeatures' = IF content = record
                                THEN Enter(publishedFeatures, owner, feature)
                                ELSE publishedFeatures

TransformationLeft(transformation, owner) ==
  LET n      == transformation.name
      record == [transformation |-> transformation, owner |-> owner]
  IN  \E content \in LeftByKill(transformation, record) :
        /\ transformationFiles' = [transformationFiles EXCEPT ![n] = content]
        /\ unsavedTransformations' = Unsaved(unsavedTransformations, n, record, content)
        /\ publishedTransformations' = IF content = record
                                       THEN Enter(publishedTransformations, owner,
                                                  transformation)
                                       ELSE publishedTransformations

\* What a kill may leave of the files is typed, and stands for what is published.
LEMMA KillFiles ==
  ASSUME NodeInv, Kill
  PROVE  /\ FilesTyped' /\ FilesPublished'
         /\ publishedFeatures' \in [FeatureNames -> Addresses \cup {NoAddress}]
         /\ publishedTransformations' \in [TransformationNames -> Addresses \cup {NoAddress}]
<1>1. /\ FilesTyped
      /\ publishedFeatures \in [FeatureNames -> Addresses \cup {NoAddress}]
      /\ publishedTransformations \in [TransformationNames -> Addresses \cup {NoAddress}]
  BY DEF NodeInv, NodeTypeOK, RegistryTypeOK, FilesTyped
<1>2. CASE kill
  BY <1>1, <1>2
  DEF kill, publishedVars, featureFileVars, transformationFileVars, NodeInv, FilesTyped,
      FilesPublished, FeatureIsPublished, TransformationIsPublished
<1>3. CASE killWhileStoringFeature
  <2> PICK feature \in Features, owner \in Users :
        /\ FeatureLeft(feature, owner)
        /\ UNCHANGED <<transformationFileVars, publishedTransformations>>
    BY <1>3 DEF killWhileStoringFeature, FeatureLeft
  <2> DEFINE n == feature.name
             record == [feature |-> feature, owner |-> owner]
  <2>1. n \in FeatureNames /\ record \in FeatureRecord
    BY CatalogueShape DEF FeatureRecord
  <2>2. record.feature = feature /\ record.owner = owner
    OBVIOUS
  <2>3. AddressOf(owner, feature) \in Addresses
    BY NodeAssumption DEF Contracts
  <2>4. Truncated \notin FeatureRecord
    BY SentinelAssumption
  <2>5. PICK content \in {record, Truncated} :
          /\ featureFiles' = [featureFiles EXCEPT ![n] = content]
          /\ unsavedFeatures' = Unsaved(unsavedFeatures, n, record, content)
          /\ publishedFeatures' = IF content = record
                     THEN Enter(publishedFeatures, owner, feature) ELSE publishedFeatures
    BY DEF FeatureLeft, LeftByKill
  <2> HIDE DEF record
  <2>6. unsavedFeatures' \subseteq FeatureNames
    BY <1>1, <2>1, <2>5 DEF Unsaved, FilesTyped
  <2>7. /\ featureFiles' \in [FeatureNames -> FeatureRecord \cup {NoFile, Truncated}]
        /\ featureFiles'[n] = content
        /\ \A m \in FeatureNames \ {n} : featureFiles'[m] = featureFiles[m]
    BY <1>1, <2>1, <2>5 DEF FilesTyped
  <2>8. /\ publishedFeatures' \in [FeatureNames -> Addresses \cup {NoAddress}]
        /\ content = record => publishedFeatures'[n] = AddressOf(owner, feature)
        /\ \A m \in FeatureNames \ {n} : publishedFeatures'[m] = publishedFeatures[m]
    BY <1>1, <2>1, <2>3, <2>5 DEF Enter
  <2>9. \A m \in FeatureNames :
          featureFiles'[m] \in FeatureRecord =>
            /\ featureFiles'[m].feature.name = m
            /\ ~DiskMayFail =>
                 publishedFeatures'[featureFiles'[m].feature.name] =
                   AddressOf(featureFiles'[m].owner, featureFiles'[m].feature)
    BY <2>2, <2>4, <2>5, <2>7, <2>8 DEF NodeInv, FilesPublished, FeatureIsPublished
  <2>10. FilesPublished'
    BY <2>9
    DEF NodeInv, FilesPublished, FeatureIsPublished, TransformationIsPublished,
        featureFileVars, transformationFileVars
  <2> QED
    BY <1>1, <2>6, <2>7, <2>8, <2>10 DEF FilesTyped, featureFileVars, transformationFileVars
<1>4. CASE killWhileStoringTransformation
  <2> PICK transformation \in Transformations, owner \in Users :
        /\ TransformationLeft(transformation, owner)
        /\ UNCHANGED <<featureFileVars, publishedFeatures>>
    BY <1>4 DEF killWhileStoringTransformation, TransformationLeft
  <2> DEFINE n == transformation.name
             record == [transformation |-> transformation, owner |-> owner]
  <2>1. n \in TransformationNames /\ record \in TransformationRecord
    BY CatalogueAssumption DEF Transformation, TransformationRecord
  <2>2. record.transformation = transformation /\ record.owner = owner
    OBVIOUS
  <2>3. AddressOf(owner, transformation) \in Addresses
    BY NodeAssumption DEF Contracts
  <2>4. Truncated \notin TransformationRecord
    BY SentinelAssumption
  <2>5. PICK content \in {record, Truncated} :
          /\ transformationFiles' = [transformationFiles EXCEPT ![n] = content]
          /\ unsavedTransformations' = Unsaved(unsavedTransformations, n, record, content)
          /\ publishedTransformations' = IF content = record
                     THEN Enter(publishedTransformations, owner, transformation) ELSE publishedTransformations
    BY DEF TransformationLeft, LeftByKill
  <2> HIDE DEF record
  <2>6. unsavedTransformations' \subseteq TransformationNames
    BY <1>1, <2>1, <2>5 DEF Unsaved, FilesTyped
  <2>7. /\ transformationFiles' \in [TransformationNames -> TransformationRecord \cup {NoFile, Truncated}]
        /\ transformationFiles'[n] = content
        /\ \A m \in TransformationNames \ {n} : transformationFiles'[m] = transformationFiles[m]
    BY <1>1, <2>1, <2>5 DEF FilesTyped
  <2>8. /\ publishedTransformations' \in [TransformationNames -> Addresses \cup {NoAddress}]
        /\ content = record => publishedTransformations'[n] = AddressOf(owner, transformation)
        /\ \A m \in TransformationNames \ {n} : publishedTransformations'[m] = publishedTransformations[m]
    BY <1>1, <2>1, <2>3, <2>5 DEF Enter
  <2>9. \A m \in TransformationNames :
          transformationFiles'[m] \in TransformationRecord =>
            /\ transformationFiles'[m].transformation.name = m
            /\ ~DiskMayFail =>
                 publishedTransformations'[transformationFiles'[m].transformation.name] =
                   AddressOf(transformationFiles'[m].owner, transformationFiles'[m].transformation)
    BY <2>2, <2>4, <2>5, <2>7, <2>8 DEF NodeInv, FilesPublished, TransformationIsPublished
  <2>10. FilesPublished'
    BY <2>9
    DEF NodeInv, FilesPublished, FeatureIsPublished, TransformationIsPublished,
        featureFileVars, transformationFileVars
  <2> QED
    BY <1>1, <2>6, <2>7, <2>8, <2>10 DEF FilesTyped, featureFileVars, transformationFileVars
<1> QED
  BY <1>2, <1>3, <1>4 DEF Kill

LEMMA KillStepKeeps ==
  ASSUME NodeInv, Kill
  PROVE  /\ NodeInv'
         /\ TransformationsClosed' /\ FirstSubFeaturesClosed'
         /\ NoCycle' /\ ~diverged'
<1>1. Restart /\ boot' = "loadPT" /\ toLoad' = {}
  BY KillRestarts
<1>2. /\ FilesTyped' /\ FilesPublished'
      /\ publishedFeatures' \in [FeatureNames -> Addresses \cup {NoAddress}]
      /\ publishedTransformations' \in [TransformationNames -> Addresses \cup {NoAddress}]
  BY KillFiles
<1>3. Emptied'
  BY <1>1, RestartEmpties
<1>4. /\ RegistryTypeOK' /\ Vacant' /\ NewestIsRegistered'
      /\ TransformationsClosed' /\ FirstSubFeaturesClosed' /\ NoCycle'
  BY <1>2, <1>3, FreshIsSafe
<1>5. FeaturesOnChain' /\ TransformationsOnChain' /\ NeverRollsBack'
  BY <1>4 DEF Vacant, FeaturesOnChain, TransformationsOnChain, NeverRollsBack
<1>6. LoadPublished'
  BY <1>1 DEF LoadPublished
<1>7. ptReady' \in BOOLEAN /\ starts' \in 1..MaxStarts
  <2>1. ptReady' = FALSE /\ starts < MaxStarts /\ starts' = starts + 1
    BY <1>1 DEF Restart
  <2>2. starts \in 1..MaxStarts
    BY DEF NodeInv, NodeTypeOK
  <2> QED
    BY <2>1, <2>2, StartsBounded
<1>8. /\ featureOnChain' \in [FeatureNames -> Addresses \cup {NoAddress}]
      /\ transformationOnChain' \in [TransformationNames -> Addresses \cup {NoAddress}]
  BY <1>1 DEF Restart
<1>9. NodeTypeOK'
  BY <1>1, <1>2, <1>4, <1>7, <1>8 DEF NodeTypeOK, Boots
<1> QED
  BY <1>1, <1>2, <1>3, <1>4, <1>5, <1>6, <1>9 DEF NodeInv, Emptied

-----------------------------------------------------------------------------
(* The invariant *)

LEMMA NodeStart ==
  NodeInit => /\ NodeInv
              /\ TransformationsClosed /\ FirstSubFeaturesClosed
              /\ NoCycle /\ ~diverged
<1> SUFFICES ASSUME NodeInit
             PROVE  /\ NodeInv
                    /\ TransformationsClosed /\ FirstSubFeaturesClosed
                    /\ NoCycle /\ ~diverged
  OBVIOUS
<1>1. Emptied /\ FilesTyped
  BY DEF NodeInit, RegistryInit, Emptied, FilesTyped
<1>2. /\ RegistryTypeOK /\ Vacant /\ NewestIsRegistered
      /\ TransformationsClosed /\ FirstSubFeaturesClosed /\ NoCycle
  BY <1>1, EmptiedSafe
<1>3. FeaturesOnChain /\ TransformationsOnChain /\ NeverRollsBack
  BY <1>2 DEF Vacant, FeaturesOnChain, TransformationsOnChain, NeverRollsBack
<1>4. FilesPublished /\ LoadPublished
  BY SentinelAssumption DEF NodeInit, RegistryInit, FilesPublished, LoadPublished
<1>5. NodeTypeOK
  <2>1. starts \in 1..MaxStarts
    BY StartsBounded DEF NodeInit
  <2>2. /\ featureOnChain \in [FeatureNames -> Addresses \cup {NoAddress}]
        /\ transformationOnChain \in [TransformationNames -> Addresses \cup {NoAddress}]
        /\ publishedFeatures \in [FeatureNames -> Addresses \cup {NoAddress}]
        /\ publishedTransformations \in [TransformationNames -> Addresses \cup {NoAddress}]
    BY DEF NodeInit
  <2> QED
    BY <1>2, <2>1, <2>2 DEF NodeInit, NodeTypeOK, Boots
<1> QED
  BY <1>1, <1>2, <1>3, <1>4, <1>5 DEF NodeInv, Emptied

LEMMA QuietIsCatalogueStep == Quiet => CatalogueStep
BY DEF Quiet, CatalogueStep, registryVars

LEMMA NodeStep ==
  ASSUME NodeInv, [NodeNext]_nodeVars
  PROVE  NodeInv' /\ (Kill \/ CatalogueStep)
BY NodeStepCases, QuietStepKeeps, QuietIsCatalogueStep, FeatureStepKeeps,
   TransformationStepKeeps, KillStepKeeps

\* The invariant holds over the whole life of the process.
THEOREM NodeSafe == NodeSpec => []NodeInv
<1>1. NodeInit => NodeInv
  BY NodeStart
<1>2. NodeInv /\ [NodeNext]_nodeVars => NodeInv'
  BY NodeStep
<1> QED
  BY <1>1, <1>2, PTL DEF NodeSpec

\* Every variable keeps its type, whatever is posted, killed and found in the
\* files.
THEOREM NodeTypeCorrect == NodeSpec => []NodeTypeOK
<1>1. NodeInv => NodeTypeOK
  BY DEF NodeInv
<1> QED
  BY <1>1, NodeSafe, PTL

\* While the disk does not fail no restart brings an older version back, nor the
\* owner of an older version, whatever kills and refusals emptied files before.
THEOREM NeverRollsBackCorrect ==
  ASSUME ~DiskMayFail
  PROVE  NodeSpec => []NeverRollsBack
<1>1. NodeInv => NeverRollsBack
  BY DEF NodeInv
<1> QED
  BY <1>1, NodeSafe, PTL

\* Loading the stored records, in whatever order and with whatever is missing,
\* never registers a version whose transformations, or whose first sub-feature,
\* are not registered.
THEOREM LoadedReferencesCorrect ==
  NodeSpec => [](TransformationsClosed /\ FirstSubFeaturesClosed)
<1>1. NodeInit => TransformationsClosed /\ FirstSubFeaturesClosed
  BY NodeStart
<1>2. /\ NodeInv /\ TransformationsClosed /\ FirstSubFeaturesClosed
      /\ [NodeNext]_nodeVars
      => (TransformationsClosed /\ FirstSubFeaturesClosed)'
  <2>1. NodeInv => RegistryTypeOK
    BY DEF NodeInv, NodeTypeOK
  <2> QED
    BY <2>1, NodeStep, KillStepKeeps, ReferencesKept
<1> QED
  BY <1>1, <1>2, NodeSafe, PTL DEF NodeSpec

\* The first sub-feature alone, as the run states it.
THEOREM LoadedSubFeaturesCorrect == NodeSpec => []FirstSubFeaturesClosed
BY LoadedReferencesCorrect, PTL

\* While a name can be deployed only once, no start and no request makes
\* checkIfSubFeaturesExist recurse for ever, whatever the files hold.
THEOREM NodeChecksTerminate ==
  ASSUME ~Reregistration
  PROVE  NodeSpec => []ChecksTerminate
<1> DEFINE Inv == FirstSubFeaturesClosed /\ NoCycle /\ ~diverged
<1>1. NodeInit => Inv
  BY NodeStart
<1>2. NodeInv /\ TransformationsClosed /\ Inv /\ [NodeNext]_nodeVars => Inv'
  <2>1. NodeInv => RegistryTypeOK /\ NewestIsRegistered
    BY DEF NodeInv, NodeTypeOK
  <2> QED
    BY <2>1, NodeStep, KillStepKeeps, ReferencesKept, AcyclicKept
<1>3. Inv => ChecksTerminate
  BY NoCycleNoDivergence DEF ChecksTerminate
<1> QED
  BY <1>1, <1>2, <1>3, NodeSafe, LoadedReferencesCorrect, PTL DEF NodeSpec

-----------------------------------------------------------------------------
(***************************************************************************)
(* What was published survives.  While the disk does not fail, all that    *)
(* was published has a file and what is stored leans on names that have a  *)
(* file; while the records of undamaged files are loaded, one that is not  *)
(* in the catalogue is still to come and its name is free on the chain.    *)
(***************************************************************************)
FeatureStorable(feature) ==
  /\ feature \in Constructible /\ feature \in Serializable
  /\ Composed(feature) => featureFiles[FirstName(feature)] # NoFile
  /\ \A i \in DOMAIN feature.dimensions :
       \A t \in feature.dimensions[i].transformations : transformationFiles[t] # NoFile

TransformationStorable(transformation) ==
  /\ transformation \in Constructible /\ transformation \in Serializable
  /\ transformation.sol_src # ""

StorageWhole ==
  /\ \A n \in FeatureNames :
       /\ featureFiles[n] = NoFile => publishedFeatures[n] = NoAddress
       /\ featureFiles[n] \in FeatureRecord => FeatureStorable(featureFiles[n].feature)
  /\ \A n \in TransformationNames :
       /\ transformationFiles[n] = NoFile => publishedTransformations[n] = NoAddress
       /\ transformationFiles[n] \in TransformationRecord =>
            TransformationStorable(transformationFiles[n].transformation)

TransformationsLoading ==
  /\ \A r \in toLoad : transformationOnChain[r.transformation.name] = NoAddress
  /\ \A n \in TransformationNames :
       transformationFiles[n] # NoFile =>
         \/ transformationFiles[n] \in toLoad
         \/ newestTransformation[n] = publishedTransformations[n]

TransformationsLoaded ==
  \A n \in TransformationNames :
    transformationFiles[n] # NoFile => newestTransformation[n] = publishedTransformations[n]

FeaturesLoading ==
  /\ \A r \in toLoad : featureOnChain[r.feature.name] = NoAddress
  /\ ~Cyclic(Intact(featureFiles)) =>
       \A n \in FeatureNames :
         featureFiles[n] # NoFile =>
           featureFiles[n] \in toLoad \/ newestFeature[n] = publishedFeatures[n]

ComesBack ==
  /\ boot \in {"loadPT", "readTransformations"} =>
       \A n \in TransformationNames : transformationOnChain[n] = NoAddress
  /\ boot \in {"loadPT", "readTransformations", "transformations"} =>
       \A n \in FeatureNames : featureOnChain[n] = NoAddress
  /\ boot = "transformations" =>
       \A r \in toLoad : r = transformationFiles[r.transformation.name]
  /\ boot = "features" => \A r \in toLoad : r = featureFiles[r.feature.name]
  /\ boot = "transformations" /\ ptReady /\ ~Damaged => TransformationsLoading
  /\ boot = "features" /\ ptReady /\ ~Damaged => TransformationsLoaded /\ FeaturesLoading

\* What the argument takes from the theorems before.
Settled ==
  NodeInv /\ FirstSubFeaturesClosed /\ ChecksTerminate

\* What is registered has a file.
LEMMA RegisteredStored ==
  ASSUME ~DiskMayFail, Settled, StorageWhole
  PROVE  /\ \A n \in FeatureNames : ~isFeatureBucketEmpty(n) => featureFiles[n] # NoFile
         /\ \A n \in TransformationNames :
              ~isTransformationBucketEmpty(n) => transformationFiles[n] # NoFile
<1>1. ASSUME NEW n \in FeatureNames, ~isFeatureBucketEmpty(n)
      PROVE  featureFiles[n] # NoFile
  <2>1. newestFeature[n] # NoAddress
    BY <1>1 DEF Settled, NodeInv, NewestIsRegistered
  <2>2. publishedFeatures[n] # NoAddress
    BY <2>1 DEF Settled, NodeInv, NeverRollsBack
  <2> QED
    BY <2>2 DEF StorageWhole
<1>2. ASSUME NEW n \in TransformationNames, ~isTransformationBucketEmpty(n)
      PROVE  transformationFiles[n] # NoFile
  <2>1. newestTransformation[n] # NoAddress
    BY <1>2 DEF Settled, NodeInv, NewestIsRegistered
  <2>2. publishedTransformations[n] # NoAddress
    BY <2>1 DEF Settled, NodeInv, NeverRollsBack
  <2> QED
    BY <2>2 DEF StorageWhole
<1> QED
  BY <1>1, <1>2

\* A feature that addFeature accepts leans on what is stored.
LEMMA AcceptedStorable ==
  ASSUME ~DiskMayFail, Settled, StorageWhole,
         NEW feature \in Features, feature \in Constructible, feature \in Serializable,
         checkIfSubFeaturesExist(feature), TransformationsExist(feature)
  PROVE  FeatureStorable(feature)
<1>1. ASSUME Composed(feature)
      PROVE  featureFiles[FirstName(feature)] # NoFile
  <2>1. ~SubFeatureMissing(feature)
    BY DEF checkIfSubFeaturesExist
  <2>2. ~isFeatureBucketEmpty(FirstName(feature)) /\ FirstName(feature) \in FeatureNames
    BY <1>1, <2>1, CatalogueShape DEF SubFeatureMissing
  <2> QED
    BY <2>2, RegisteredStored
<1>2. ASSUME NEW i \in DOMAIN feature.dimensions,
             NEW t \in feature.dimensions[i].transformations
      PROVE  transformationFiles[t] # NoFile
  <2>1. t \in TransformationNames /\ ~isTransformationBucketEmpty(t)
    BY CatalogueShape DEF TransformationsExist
  <2> QED
    BY <2>1, RegisteredStored
<1> QED
  BY <1>1, <1>2 DEF FeatureStorable

\* A file that is not missing and not emptied is a record of its name.
LEMMA StoredRecords ==
  ASSUME NodeInv
  PROVE  /\ \A n \in FeatureNames :
              featureFiles[n] # NoFile /\ featureFiles[n] # Truncated =>
                /\ featureFiles[n] \in FeatureRecord
                /\ featureFiles[n].feature.name = n
                /\ featureFiles[n].feature \in Features
                /\ featureFiles[n].owner \in Users
         /\ \A n \in TransformationNames :
              transformationFiles[n] # NoFile /\ transformationFiles[n] # Truncated =>
                /\ transformationFiles[n] \in TransformationRecord
                /\ transformationFiles[n].transformation.name = n
                /\ transformationFiles[n].transformation \in Transformations
                /\ transformationFiles[n].owner \in Users
<1>1. /\ featureFiles \in [FeatureNames -> FeatureRecord \cup {NoFile, Truncated}]
      /\ transformationFiles \in
           [TransformationNames -> TransformationRecord \cup {NoFile, Truncated}]
  BY DEF NodeInv, NodeTypeOK, RegistryTypeOK
<1>2. ASSUME NEW n \in FeatureNames, featureFiles[n] # NoFile, featureFiles[n] # Truncated
      PROVE  featureFiles[n] \in FeatureRecord /\ featureFiles[n].feature.name = n
  BY <1>1, <1>2 DEF NodeInv, FilesPublished
<1>3. ASSUME NEW n \in TransformationNames,
             transformationFiles[n] # NoFile, transformationFiles[n] # Truncated
      PROVE  /\ transformationFiles[n] \in TransformationRecord
             /\ transformationFiles[n].transformation.name = n
  BY <1>1, <1>3 DEF NodeInv, FilesPublished
<1>4. /\ \A r \in FeatureRecord : r.feature \in Features /\ r.owner \in Users
      /\ \A r \in TransformationRecord :
           r.transformation \in Transformations /\ r.owner \in Users
  BY DEF FeatureRecord, TransformationRecord
<1> QED
  BY <1>2, <1>3, <1>4

\* What an undamaged file holds was published.
LEMMA FiledPublished ==
  ASSUME ~DiskMayFail, NodeInv
  PROVE  /\ \A n \in FeatureNames :
              featureFiles[n] # NoFile /\ featureFiles[n] # Truncated =>
                publishedFeatures[n] # NoAddress
         /\ \A n \in TransformationNames :
              transformationFiles[n] # NoFile /\ transformationFiles[n] # Truncated =>
                publishedTransformations[n] # NoAddress
<1>1. \A u \in Users, c \in Contracts : AddressOf(u, c) # NoAddress
  BY NodeAssumption, SentinelAssumption
<1> QED
  BY <1>1, StoredRecords
  DEF NodeInv, FilesPublished, FeatureIsPublished, TransformationIsPublished, Contracts

\* While features are loaded, one that is next and no part of a ring is registered.
LEMMA LoadRegistersFeature ==
  ASSUME ~Reregistration, ~DiskMayFail, Settled, StorageWhole, ComesBack,
         boot = "features", ptReady, ~Damaged, ~Cyclic(Intact(featureFiles)),
         NEW record \in toLoad, Ready(record),
         deployFeature(record.feature, record.owner)
  PROVE  RegisterFeature(AddressOf(record.owner, record.feature), record.feature, record.owner)
<1> DEFINE feature == record.feature
           name    == feature.name
           address == AddressOf(record.owner, feature)
<1>1. /\ record \in FeatureRecord
      /\ feature \in Features /\ record.owner \in Users
      /\ name \in FeatureNames
  <2>1. record \in FeatureRecord
    BY DEF Settled, NodeInv, LoadPublished
  <2>2. feature \in Features /\ record.owner \in Users
    BY <2>1 DEF FeatureRecord
  <2> QED
    BY <2>1, <2>2, CatalogueShape
<1>2. /\ TransformationsLoaded /\ FeaturesLoading
      /\ record = featureFiles[name] /\ featureOnChain[name] = NoAddress
      /\ \A n \in FeatureNames : featureFiles[n] # Truncated
      /\ \A n \in TransformationNames : transformationFiles[n] # Truncated
  BY DEF ComesBack, FeaturesLoading, Damaged
<1>3. FeatureStorable(feature)
  BY <1>1, <1>2 DEF StorageWhole
<1> HIDE DEF feature
<1>4. ASSUME Composed(feature)
      PROVE  ~isFeatureBucketEmpty(FirstName(feature))
  <2> DEFINE first == FirstName(feature)
  <2>1. first \in FeatureNames /\ featureFiles[first] # NoFile
    BY <1>1, <1>3, <1>4, CatalogueShape DEF FeatureStorable
  <2>2. featureFiles[first] \notin toLoad
    <3>1. first \in SubFeatures(feature)
      BY <1>1, <1>4, CatalogueShape DEF SubFeatures, FirstName
    <3>2. featureFiles[first].feature.name = first
      BY <1>2, <2>1, StoredRecords DEF Settled
    <3> QED
      BY <3>1, <3>2 DEF Ready, feature
  <2>3. newestFeature[first] = publishedFeatures[first]
    BY <1>2, <2>1, <2>2 DEF FeaturesLoading
  <2>4. newestFeature[first] # NoAddress
    BY <1>2, <2>1, <2>3, FiledPublished DEF Settled
  <2> QED
    BY <2>1, <2>4 DEF Settled, NodeInv, NewestIsRegistered
<1>5. ~SubFeatureMissing(feature)
  <2> SUFFICES ASSUME Composed(feature)
               PROVE  \E names \in SUBSET FeatureNames :
                        /\ FirstName(feature) \in names /\ Followed(names)
                        /\ \A n \in names : ~isFeatureBucketEmpty(n)
    BY DEF SubFeatureMissing
  <2> DEFINE names == {n \in FeatureNames : ~isFeatureBucketEmpty(n)}
  <2>1. FirstName(feature) \in names
    BY <1>1, <1>4, CatalogueShape
  <2>2. ASSUME NEW n \in names, Continues(n)
        PROVE  NextName(n) \in names
    <3>1. /\ newestFeature[n] \in Addresses
          /\ getNewestFeature(n) = getFeature(n, newestFeature[n])
          /\ getNewestFeature(n) # NoRecord
      BY <2>2 DEF Continues, getNewestFeature, Settled, NodeInv, NodeTypeOK, RegistryTypeOK
    <3>2. getNewestFeature(n).feature \in Features
      BY <3>1
      DEF getFeature, Settled, NodeInv, NodeTypeOK, RegistryTypeOK, FeatureRecord
    <3>3. ~isFeatureBucketEmpty(NextName(n))
      BY <2>2, <3>1 DEF Settled, FirstSubFeaturesClosed, Continues, NextName
    <3>4. NextName(n) \in FeatureNames
      BY <2>2, <3>2, CatalogueShape DEF Continues, NextName
    <3> QED
      BY <3>3, <3>4
  <2> HIDE DEF names
  <2>3. Followed(names)
    BY <2>2 DEF Followed
  <2>4. names \in SUBSET FeatureNames /\ \A n \in names : ~isFeatureBucketEmpty(n)
    BY DEF names
  <2> QED
    BY <2>1, <2>3, <2>4
<1>6. checkIfSubFeaturesExist(feature) /\ ~CheckDiverges(feature)
  BY <1>1, <1>5 DEF checkIfSubFeaturesExist, Settled, ChecksTerminate
<1>7. TransformationsExist(feature)
  <2> SUFFICES ASSUME NEW i \in DOMAIN feature.dimensions,
                      NEW t \in feature.dimensions[i].transformations
               PROVE  ~isTransformationBucketEmpty(t)
    BY DEF TransformationsExist
  <2>1. t \in TransformationNames /\ transformationFiles[t] # NoFile
    BY <1>1, <1>3, CatalogueShape DEF FeatureStorable
  <2>2. newestTransformation[t] # NoAddress
    BY <1>2, <2>1, FiledPublished DEF TransformationsLoaded, Settled
  <2> QED
    BY <2>1, <2>2 DEF Settled, NodeInv, NewestIsRegistered
<1>8. /\ Constructed(feature, featureOnChain) /\ name # EmptyName
      /\ feature \in Serializable
  <2>1. feature \in Constructible /\ feature \in Serializable /\ name = feature.name
    BY <1>3 DEF FeatureStorable, feature
  <2> QED
    BY <1>2, <2>1, NodeAssumption DEF Constructed, NameFree
<1>9. ~FeatureKnown(address, feature)
  <2>1. address \in Addresses /\ address # NoAddress
    BY <1>1, NodeAssumption, SentinelAssumption DEF Contracts
  <2> QED
    BY <1>1, <1>2, <2>1
    DEF Settled, NodeInv, FeaturesOnChain, FeatureKnown, feature
<1>10. addFeature(address, feature, record.owner)
  BY <1>5, <1>6, <1>8 DEF deployFeature, RefuseFeatureContract, feature
<1> QED
  BY <1>5, <1>6, <1>7, <1>8, <1>9, <1>10
  DEF addFeature, RefuseUnsupportedFeature, DivergeOnFeature, RefuseKnownFeature,
      RefuseUntransformableFeature, RefuseUnstorableFeature, TruncateFeature, feature

LEMMA LoadRegistersTransformation ==
  ASSUME ~Reregistration, ~DiskMayFail, Settled, StorageWhole, ComesBack,
         boot = "transformations", ptReady, ~Damaged,
         NEW record \in toLoad,
         deployTransformation(record.transformation, record.owner)
  PROVE  RegisterTransformation(AddressOf(record.owner, record.transformation),
                                record.transformation, record.owner)
<1> DEFINE transformation == record.transformation
           name    == transformation.name
           address == AddressOf(record.owner, transformation)
<1>1. /\ record \in TransformationRecord
      /\ transformation \in Transformations /\ record.owner \in Users
      /\ name \in TransformationNames
  <2>1. record \in TransformationRecord
    BY DEF Settled, NodeInv, LoadPublished
  <2>2. transformation \in Transformations /\ record.owner \in Users
    BY <2>1 DEF TransformationRecord
  <2> QED
    BY <2>1, <2>2, CatalogueAssumption DEF Transformation
<1>2. record = transformationFiles[name] /\ transformationOnChain[name] = NoAddress
  BY DEF ComesBack, TransformationsLoading
<1>3. TransformationStorable(transformation)
  BY <1>1, <1>2 DEF StorageWhole
<1>4. /\ Constructed(transformation, transformationOnChain)
      /\ name # EmptyName /\ transformation.sol_src # ""
      /\ transformation \in Serializable
  BY <1>2, <1>3, NodeAssumption DEF TransformationStorable, Constructed, NameFree
<1>5. getTransformation(name, address) = NoRecord
  <2>1. address \in Addresses /\ address # NoAddress
    BY <1>1, NodeAssumption, SentinelAssumption DEF Contracts
  <2> QED
    BY <1>1, <1>2, <2>1 DEF Settled, NodeInv, TransformationsOnChain
<1>6. addTransformation(address, transformation, record.owner)
  BY <1>4 DEF deployTransformation, RefuseTransformationContract
<1> QED
  BY <1>4, <1>5, <1>6
  DEF addTransformation, RefuseTransformation, RefuseUnstorableTransformation,
      TruncateTransformation

-----------------------------------------------------------------------------
(* The storage stays whole *)

\* The file of one name is written or emptied.
FeatureFileMoved(feature, owner) ==
  LET n      == feature.name
      record == [feature |-> feature, owner |-> owner]
  IN  /\ \E content \in {record, Truncated} :
           featureFiles' = [featureFiles EXCEPT ![n] = content]
      /\ \A m \in FeatureNames \ {n} : publishedFeatures'[m] = publishedFeatures[m]
      /\ UNCHANGED <<transformationFiles, publishedTransformations>>

TransformationFileMoved(transformation, owner) ==
  LET n      == transformation.name
      record == [transformation |-> transformation, owner |-> owner]
  IN  /\ \E content \in {record, Truncated} :
           transformationFiles' = [transformationFiles EXCEPT ![n] = content]
      /\ \A m \in TransformationNames \ {n} : publishedTransformations'[m] = publishedTransformations[m]
      /\ UNCHANGED <<featureFiles, publishedFeatures>>

LEMMA FeatureStoredWhole ==
  ASSUME NodeInv, StorageWhole, NEW feature \in Features, NEW owner \in Users,
         FeatureFileMoved(feature, owner),
         featureFiles'[feature.name] = Truncated \/ FeatureStorable(feature)
  PROVE  StorageWhole'
<1> DEFINE name   == feature.name
           record == [feature |-> feature, owner |-> owner]
<1>1. /\ name \in FeatureNames
      /\ record \in FeatureRecord /\ record.feature = feature
      /\ record # NoFile /\ Truncated \notin FeatureRecord /\ Truncated # NoFile
  BY CatalogueShape, RecordIsPresent, SentinelAssumption DEF FeatureRecord
<1>2. PICK content \in {record, Truncated} :
        featureFiles' = [featureFiles EXCEPT ![name] = content]
  BY DEF FeatureFileMoved
<1> HIDE DEF record
<1>3. /\ featureFiles \in [FeatureNames -> FeatureRecord \cup {NoFile, Truncated}]
      /\ transformationFiles \in
           [TransformationNames -> TransformationRecord \cup {NoFile, Truncated}]
  BY DEF NodeInv, NodeTypeOK, RegistryTypeOK
<1>4. /\ featureFiles'[name] = content
      /\ \A m \in FeatureNames \ {name} : featureFiles'[m] = featureFiles[m]
      /\ \A m \in FeatureNames : featureFiles[m] # NoFile => featureFiles'[m] # NoFile
  BY <1>1, <1>2, <1>3
<1>5. UNCHANGED <<transformationFiles, publishedTransformations>>
  BY DEF FeatureFileMoved
<1>6. ASSUME NEW f \in Features, FeatureStorable(f)
      PROVE  FeatureStorable(f)'
  BY <1>4, <1>5, <1>6, CatalogueShape DEF FeatureStorable
<1>7. ASSUME NEW n \in FeatureNames
      PROVE  /\ featureFiles'[n] = NoFile => publishedFeatures'[n] = NoAddress
             /\ featureFiles'[n] \in FeatureRecord =>
                  /\ featureFiles'[n].feature \in Features
                  /\ FeatureStorable(featureFiles'[n].feature)
  <2>1. CASE n = name
    BY <1>1, <1>4, <2>1
  <2>2. CASE n # name
    <3>1. featureFiles'[n] = featureFiles[n] /\ publishedFeatures'[n] = publishedFeatures[n]
      BY <1>4, <2>2 DEF FeatureFileMoved
    <3> QED
      BY <3>1 DEF StorageWhole, FeatureRecord
  <2> QED
    BY <2>1, <2>2
<1>8. ASSUME NEW n \in FeatureNames, featureFiles'[n] \in FeatureRecord
      PROVE  FeatureStorable(featureFiles[n].feature)'
  BY <1>6, <1>7, <1>8 DEF FeatureStorable
<1> QED
  BY <1>5, <1>7, <1>8 DEF StorageWhole, TransformationStorable

LEMMA TransformationStoredWhole ==
  ASSUME NodeInv, StorageWhole, NEW transformation \in Transformations, NEW owner \in Users,
         TransformationFileMoved(transformation, owner),
         \/ transformationFiles'[transformation.name] = Truncated
         \/ TransformationStorable(transformation)
  PROVE  StorageWhole'
<1> DEFINE name   == transformation.name
           record == [transformation |-> transformation, owner |-> owner]
<1>1. /\ name \in TransformationNames
      /\ record \in TransformationRecord /\ record.transformation = transformation
      /\ record # NoFile /\ Truncated \notin TransformationRecord /\ Truncated # NoFile
  BY CatalogueAssumption, RecordIsPresent, SentinelAssumption
  DEF Transformation, TransformationRecord
<1>2. PICK content \in {record, Truncated} :
        transformationFiles' = [transformationFiles EXCEPT ![name] = content]
  BY DEF TransformationFileMoved
<1> HIDE DEF record
<1>3. transformationFiles \in
        [TransformationNames -> TransformationRecord \cup {NoFile, Truncated}]
  BY DEF NodeInv, NodeTypeOK, RegistryTypeOK
<1>4. /\ transformationFiles'[name] = content
      /\ \A m \in TransformationNames \ {name} :
           transformationFiles'[m] = transformationFiles[m]
      /\ \A m \in TransformationNames :
           transformationFiles[m] # NoFile => transformationFiles'[m] # NoFile
  BY <1>1, <1>2, <1>3
<1>5. UNCHANGED <<featureFiles, publishedFeatures>>
  BY DEF TransformationFileMoved
<1>6. ASSUME NEW f \in Features, FeatureStorable(f)
      PROVE  FeatureStorable(f)'
  BY <1>4, <1>5, <1>6, CatalogueShape DEF FeatureStorable
<1>7. ASSUME NEW n \in TransformationNames
      PROVE  /\ transformationFiles'[n] = NoFile => publishedTransformations'[n] = NoAddress
             /\ transformationFiles'[n] \in TransformationRecord =>
                  TransformationStorable(transformationFiles'[n].transformation)
  <2>1. CASE n = name
    BY <1>1, <1>4, <2>1
  <2>2. CASE n # name
    BY <1>4, <2>2 DEF TransformationFileMoved, StorageWhole
  <2> QED
    BY <2>1, <2>2
<1>8. ASSUME NEW n \in FeatureNames
      PROVE  /\ featureFiles'[n] = NoFile => publishedFeatures'[n] = NoAddress
             /\ featureFiles'[n] \in FeatureRecord => FeatureStorable(featureFiles[n].feature)'
  <2>1. featureFiles'[n] = featureFiles[n] /\ publishedFeatures'[n] = publishedFeatures[n]
    BY <1>5
  <2>2. featureFiles[n] \in FeatureRecord => featureFiles[n].feature \in Features
    BY DEF FeatureRecord
  <2>3. ASSUME featureFiles'[n] \in FeatureRecord
        PROVE  FeatureStorable(featureFiles[n].feature)'
    <3>1. FeatureStorable(featureFiles[n].feature) /\ featureFiles[n].feature \in Features
      BY <2>1, <2>2, <2>3 DEF StorageWhole
    <3> QED
      BY <1>6, <2>1, <3>1 DEF FeatureStorable
  <2> QED
    BY <2>1, <2>3 DEF StorageWhole
<1> QED
  BY <1>7, <1>8 DEF StorageWhole, TransformationStorable

\* What a step that deploys a feature does to what is stored and published.
LEMMA FeatureStoring ==
  ASSUME ~DiskMayFail, NodeInv, loadFeature \/ POST_feature
  PROVE  \E feature \in Features, owner \in Users :
           \/ UNCHANGED <<featureFiles, publishedFeatures, transformationFiles,
                          publishedTransformations>>
           \/ FeatureFileMoved(feature, owner) /\ featureFiles'[feature.name] = Truncated
           \/ /\ FeatureFileMoved(feature, owner)
              /\ RegisterFeature(AddressOf(owner, feature), feature, owner)
              /\ feature \in Constructible
<1>1. /\ UNCHANGED publishedTransformations
      /\ \E feature \in Features, owner \in Users :
           /\ deployFeature(feature, owner)
           /\ \/ UNCHANGED publishedFeatures
              \/ publishedFeatures' =
                   [publishedFeatures EXCEPT ![feature.name] =
                      IF newestFeature'[feature.name] # newestFeature[feature.name]
                      THEN newestFeature'[feature.name] ELSE @]
  <2>1. CASE POST_feature
    BY <2>1 DEF POST_feature
  <2>2. CASE loadFeature
    <3>1. \A r \in toLoad : r.feature \in Features /\ r.owner \in Users
      BY <2>2 DEF loadFeature, NodeInv, LoadPublished, FeatureRecord
    <3> QED
      BY <2>2, <3>1 DEF loadFeature, publishedVars
  <2> QED
    BY <2>1, <2>2
<1> PICK feature \in Features, owner \in Users :
           /\ deployFeature(feature, owner)
           /\ \/ UNCHANGED publishedFeatures
              \/ publishedFeatures' =
                   [publishedFeatures EXCEPT ![feature.name] =
                      IF newestFeature'[feature.name] # newestFeature[feature.name]
                      THEN newestFeature'[feature.name] ELSE @]
  BY <1>1
<1>2. /\ publishedFeatures \in [FeatureNames -> Addresses \cup {NoAddress}]
      /\ featureFiles \in [FeatureNames -> FeatureRecord \cup {NoFile, Truncated}]
      /\ RegistryTypeOK
  BY DEF NodeInv, NodeTypeOK, RegistryTypeOK
<1>3. feature.name \in FeatureNames
  BY CatalogueShape
<1>4. /\ UNCHANGED transformationFiles
      /\ \/ Refused /\ FeatureFileKept(feature)
         \/ /\ RegisterFeature(AddressOf(owner, feature), feature, owner)
            /\ feature \in Constructible
  BY <1>2, FeatureDeployed
<1>5. \A m \in FeatureNames \ {feature.name} : publishedFeatures'[m] = publishedFeatures[m]
  BY <1>2
<1>6. CASE Refused /\ FeatureFileKept(feature)
  <2>1. UNCHANGED newestFeature
    BY <1>6, LookupsStand DEF Refused
  <2>2. UNCHANGED publishedFeatures
    BY <1>2, <2>1
  <2>3. CASE featureFiles' = [featureFiles EXCEPT ![feature.name] = Truncated]
    BY <1>1, <1>2, <1>3, <1>4, <1>5, <2>3 DEF FeatureFileMoved
  <2> QED
    BY <1>1, <1>4, <1>6, <2>2, <2>3 DEF FeatureFileKept
<1>7. CASE /\ RegisterFeature(AddressOf(owner, feature), feature, owner)
           /\ feature \in Constructible
  <2>1. featureFiles' =
          [featureFiles EXCEPT ![feature.name] = [feature |-> feature, owner |-> owner]]
    BY <1>7 DEF RegisterFeature, StoreFeature, Written
  <2> QED
    BY <1>1, <1>4, <1>5, <1>7, <2>1 DEF FeatureFileMoved
<1> QED
  BY <1>4, <1>6, <1>7

LEMMA TransformationStoring ==
  ASSUME ~DiskMayFail, NodeInv, loadTransformation \/ POST_transformation
  PROVE  \E transformation \in Transformations, owner \in Users :
           \/ UNCHANGED <<featureFiles, publishedFeatures, transformationFiles,
                          publishedTransformations>>
           \/ /\ TransformationFileMoved(transformation, owner)
              /\ \/ transformationFiles'[transformation.name] = Truncated
                 \/ TransformationStorable(transformation)
<1>1. /\ UNCHANGED publishedFeatures
      /\ \E transformation \in Transformations, owner \in Users :
           /\ deployTransformation(transformation, owner)
           /\ \/ UNCHANGED publishedTransformations
              \/ LET n == transformation.name IN
                 publishedTransformations' =
                   [publishedTransformations EXCEPT ![n] =
                      IF newestTransformation'[n] # newestTransformation[n]
                      THEN newestTransformation'[n] ELSE @]
  <2>1. CASE POST_transformation
    BY <2>1 DEF POST_transformation
  <2>2. CASE loadTransformation
    <3>1. \A r \in toLoad : r.transformation \in Transformations /\ r.owner \in Users
      BY <2>2 DEF loadTransformation, NodeInv, LoadPublished, TransformationRecord
    <3> QED
      BY <2>2, <3>1 DEF loadTransformation, publishedVars
  <2> QED
    BY <2>1, <2>2
<1> PICK transformation \in Transformations, owner \in Users :
           /\ deployTransformation(transformation, owner)
           /\ \/ UNCHANGED publishedTransformations
              \/ LET n == transformation.name IN
                 publishedTransformations' =
                   [publishedTransformations EXCEPT ![n] =
                      IF newestTransformation'[n] # newestTransformation[n]
                      THEN newestTransformation'[n] ELSE @]
  BY <1>1
<1> DEFINE name == transformation.name
<1>2. /\ publishedTransformations \in [TransformationNames -> Addresses \cup {NoAddress}]
      /\ transformationFiles \in
           [TransformationNames -> TransformationRecord \cup {NoFile, Truncated}]
      /\ RegistryTypeOK
  BY DEF NodeInv, NodeTypeOK, RegistryTypeOK
<1>3. name \in TransformationNames
  BY CatalogueAssumption DEF Transformation
<1>4. /\ UNCHANGED featureFiles
      /\ \/ Refused /\ TransformationFileKept(transformation)
         \/ /\ RegisterTransformation(AddressOf(owner, transformation), transformation, owner)
            /\ transformation \in Constructible /\ transformation.sol_src # ""
  BY <1>2, TransformationDeployed
<1>5. \A m \in TransformationNames \ {name} :
        publishedTransformations'[m] = publishedTransformations[m]
  BY <1>2
<1>6. CASE Refused /\ TransformationFileKept(transformation)
  <2>1. UNCHANGED newestTransformation
    BY <1>6, LookupsStand DEF Refused
  <2>2. UNCHANGED publishedTransformations
    BY <1>2, <2>1
  <2>3. CASE transformationFiles' = [transformationFiles EXCEPT ![name] = Truncated]
    BY <1>1, <1>2, <1>3, <1>4, <1>5, <2>3 DEF TransformationFileMoved
  <2> QED
    BY <1>1, <1>4, <1>6, <2>2, <2>3 DEF TransformationFileKept
<1>7. CASE /\ RegisterTransformation(AddressOf(owner, transformation), transformation, owner)
           /\ transformation \in Constructible /\ transformation.sol_src # ""
  <2>1. transformationFiles' =
          [transformationFiles EXCEPT ![name] =
             [transformation |-> transformation, owner |-> owner]]
    BY <1>7 DEF RegisterTransformation, StoreTransformation, Written
  <2>2. TransformationStorable(transformation)
    BY <1>7 DEF RegisterTransformation, TransformationStorable
  <2> QED
    BY <1>1, <1>4, <1>5, <2>1, <2>2 DEF TransformationFileMoved
<1> QED
  BY <1>4, <1>6, <1>7

LEMMA StorageStands ==
  ASSUME StorageWhole,
         UNCHANGED <<featureFiles, publishedFeatures, transformationFiles,
                     publishedTransformations>>
  PROVE  StorageWhole'
BY DEF StorageWhole, FeatureStorable, TransformationStorable

LEMMA StorageStep ==
  ASSUME ~DiskMayFail, Settled, StorageWhole, [NodeNext]_nodeVars
  PROVE  StorageWhole'
<1>0. NodeInv
  BY DEF Settled
<1>1. CASE Quiet
  BY <1>1, StorageStands
  DEF Quiet, registryVars, featureVars, transformationVars, featureFileVars,
      transformationFileVars, publishedVars
<1>2. CASE loadFeature \/ POST_feature
  <2>1. PICK feature \in Features, owner \in Users :
          \/ UNCHANGED <<featureFiles, publishedFeatures, transformationFiles,
                         publishedTransformations>>
          \/ FeatureFileMoved(feature, owner) /\ featureFiles'[feature.name] = Truncated
          \/ /\ FeatureFileMoved(feature, owner)
             /\ RegisterFeature(AddressOf(owner, feature), feature, owner)
             /\ feature \in Constructible
    BY <1>0, <1>2, FeatureStoring
  <2>2. ASSUME RegisterFeature(AddressOf(owner, feature), feature, owner),
               feature \in Constructible
        PROVE  FeatureStorable(feature)
    <3>1. /\ checkIfSubFeaturesExist(feature) /\ TransformationsExist(feature)
          /\ feature \in Serializable
      BY <2>2 DEF RegisterFeature, KnownFeaturePassed
    <3> QED
      BY <2>2, <3>1, AcceptedStorable
  <2> QED
    BY <1>0, <2>1, <2>2, StorageStands, FeatureStoredWhole
<1>3. CASE loadTransformation \/ POST_transformation
  BY <1>0, <1>3, TransformationStoring, StorageStands, TransformationStoredWhole
<1>4. CASE kill
  BY <1>4, StorageStands DEF kill, publishedVars, featureFileVars, transformationFileVars
<1>5. CASE killWhileStoringFeature
  <2> PICK feature \in Features, owner \in Users :
        /\ StoringFeature(feature, owner)
        /\ FeatureLeft(feature, owner)
        /\ UNCHANGED <<transformationFileVars, publishedTransformations>>
    BY <1>5 DEF killWhileStoringFeature, FeatureLeft
  <2>1. /\ feature \in Constructible
        /\ checkIfSubFeaturesExist(feature) /\ TransformationsExist(feature)
    BY DEF StoringFeature, Constructed
  <2>2. /\ publishedFeatures \in [FeatureNames -> Addresses \cup {NoAddress}]
        /\ featureFiles \in [FeatureNames -> FeatureRecord \cup {NoFile, Truncated}]
        /\ feature.name \in FeatureNames
    BY <1>0, CatalogueShape DEF NodeInv, NodeTypeOK, RegistryTypeOK
  <2>3. FeatureFileMoved(feature, owner)
    BY <2>2 DEF FeatureLeft, LeftByKill, FeatureFileMoved, Enter, transformationFileVars
  <2>4. featureFiles'[feature.name] = Truncated \/ FeatureStorable(feature)
    BY <2>1, <2>2, AcceptedStorable DEF FeatureLeft, LeftByKill
  <2> QED
    BY <1>0, <2>3, <2>4, FeatureStoredWhole
<1>6. CASE killWhileStoringTransformation
  <2> PICK transformation \in Transformations, owner \in Users :
        /\ StoringTransformation(transformation, owner)
        /\ TransformationLeft(transformation, owner)
        /\ UNCHANGED <<featureFileVars, publishedFeatures>>
    BY <1>6 DEF killWhileStoringTransformation, TransformationLeft
  <2>1. transformation \in Constructible /\ transformation.sol_src # ""
    BY DEF StoringTransformation, Constructed
  <2>2. /\ publishedTransformations \in [TransformationNames -> Addresses \cup {NoAddress}]
        /\ transformationFiles \in
             [TransformationNames -> TransformationRecord \cup {NoFile, Truncated}]
        /\ transformation.name \in TransformationNames
    BY <1>0, CatalogueAssumption DEF NodeInv, NodeTypeOK, RegistryTypeOK, Transformation
  <2>3. TransformationFileMoved(transformation, owner)
    BY <2>2
    DEF TransformationLeft, LeftByKill, TransformationFileMoved, Enter, featureFileVars
  <2>4. \/ transformationFiles'[transformation.name] = Truncated
        \/ TransformationStorable(transformation)
    BY <2>1, <2>2 DEF TransformationLeft, LeftByKill, TransformationStorable
  <2> QED
    BY <1>0, <2>3, <2>4, TransformationStoredWhole
<1> QED
  BY <1>1, <1>2, <1>3, <1>4, <1>5, <1>6, NodeStepCases DEF Kill

-----------------------------------------------------------------------------
(* The loader misses nothing *)

LEMMA FileReads ==
  ASSUME NodeInv
  PROVE  /\ \A records \in LoadJSONRecords(featureFiles) : records \subseteq Intact(featureFiles)
         /\ \A records \in LoadJSONRecords(transformationFiles) :
              records \subseteq Intact(transformationFiles)
         /\ \A r \in Intact(featureFiles) :
              r.feature.name \in FeatureNames /\ r = featureFiles[r.feature.name]
         /\ \A r \in Intact(transformationFiles) :
              /\ r.transformation.name \in TransformationNames
              /\ r = transformationFiles[r.transformation.name]
<1>1. DOMAIN featureFiles = FeatureNames /\ DOMAIN transformationFiles = TransformationNames
  BY DEF NodeInv, NodeTypeOK, RegistryTypeOK
<1>2. /\ \A r \in Intact(featureFiles) :
           r.feature.name \in FeatureNames /\ r = featureFiles[r.feature.name]
      /\ \A r \in Intact(transformationFiles) :
           /\ r.transformation.name \in TransformationNames
           /\ r = transformationFiles[r.transformation.name]
  BY <1>1, StoredRecords DEF Intact
<1> QED
  BY <1>2 DEF LoadJSONRecords

\* Of undamaged files nothing is missed.
LEMMA WholeReads ==
  ASSUME ~Damaged, NodeInv
  PROVE  /\ LoadJSONRecords(featureFiles) = {Intact(featureFiles)}
         /\ LoadJSONRecords(transformationFiles) = {Intact(transformationFiles)}
         /\ \A n \in FeatureNames :
              featureFiles[n] # NoFile => featureFiles[n] \in Intact(featureFiles)
         /\ \A n \in TransformationNames :
              transformationFiles[n] # NoFile =>
                transformationFiles[n] \in Intact(transformationFiles)
<1>1. DOMAIN featureFiles = FeatureNames /\ DOMAIN transformationFiles = TransformationNames
  BY DEF NodeInv, NodeTypeOK, RegistryTypeOK
<1>2. /\ \A n \in FeatureNames : featureFiles[n] # Truncated
      /\ \A n \in TransformationNames : transformationFiles[n] # Truncated
  BY DEF Damaged
<1>3. /\ \A n \in FeatureNames :
           featureFiles[n] # NoFile => featureFiles[n] \in Intact(featureFiles)
      /\ \A n \in TransformationNames :
           transformationFiles[n] # NoFile =>
             transformationFiles[n] \in Intact(transformationFiles)
  BY <1>1, <1>2 DEF Intact
<1>4. /\ LoadJSONRecords(featureFiles) = {Intact(featureFiles)}
      /\ LoadJSONRecords(transformationFiles) = {Intact(transformationFiles)}
  BY <1>1, <1>2 DEF LoadJSONRecords
<1> QED
  BY <1>3, <1>4

LEMMA ComesBackQuiet ==
  ASSUME Settled, ComesBack, Quiet
  PROVE  ComesBack'
<1>0. NodeInv
  BY DEF Settled
<1>1. /\ UNCHANGED <<featureFiles, transformationFiles, newestFeature, newestTransformation,
                     featureOnChain, transformationOnChain, publishedFeatures,
                     publishedTransformations>>
  BY DEF Quiet, registryVars, featureVars, transformationVars, featureFileVars,
         transformationFileVars, chainVars, publishedVars
<1>2. /\ Cyclic(Intact(featureFiles))' <=> Cyclic(Intact(featureFiles))
      /\ Damaged' <=> Damaged
  BY <1>1 DEF Cyclic, Intact, Damaged
<1>3. CASE loadPT
  BY <1>1, <1>3 DEF loadPT, ComesBack
<1>4. CASE readTransformations
  <2>1. /\ boot = "readTransformations" /\ boot' = "transformations"
        /\ toLoad' \in LoadJSONRecords(transformationFiles)
    BY <1>4 DEF readTransformations
  <2>2. /\ \A n \in TransformationNames : transformationOnChain[n] = NoAddress
        /\ \A n \in FeatureNames : featureOnChain[n] = NoAddress
    BY <2>1 DEF ComesBack
  <2>3. \A r \in toLoad' :
          /\ r.transformation.name \in TransformationNames
          /\ r = transformationFiles[r.transformation.name]
    BY <1>0, <2>1, FileReads
  <2>4. ASSUME ~Damaged
        PROVE  TransformationsLoading'
    <3>1. toLoad' = Intact(transformationFiles)
      BY <1>0, <2>1, <2>4, WholeReads
    <3> QED
      BY <1>0, <1>1, <2>2, <2>3, <2>4, <3>1, WholeReads DEF TransformationsLoading
  <2> QED
    BY <1>1, <1>2, <2>1, <2>2, <2>3, <2>4 DEF ComesBack
<1>5. CASE readFeatures
  <2>1. /\ boot = "transformations" /\ toLoad = {} /\ boot' = "features"
        /\ UNCHANGED ptReady
        /\ \E records \in LoadJSONRecords(featureFiles) : toLoad' = Sorted(records)
    BY <1>5 DEF readFeatures
  <2>2. \A n \in FeatureNames : featureOnChain[n] = NoAddress
    BY <2>1 DEF ComesBack
  <2>3. \A r \in toLoad' :
          r.feature.name \in FeatureNames /\ r = featureFiles[r.feature.name]
    BY <1>0, <2>1, FileReads DEF Sorted
  <2>4. ASSUME ptReady, ~Damaged
        PROVE  TransformationsLoaded' /\ FeaturesLoading'
    <3>1. TransformationsLoaded'
      BY <1>1, <2>1, <2>4 DEF ComesBack, TransformationsLoading, TransformationsLoaded
    <3>2. toLoad' = Sorted(Intact(featureFiles))
      BY <1>0, <2>1, <2>4, WholeReads
    <3>3. ~Cyclic(Intact(featureFiles)) =>
            \A n \in FeatureNames : featureFiles[n] # NoFile => featureFiles[n] \in toLoad'
      BY <1>0, <2>4, <3>2, WholeReads DEF Sorted
    <3>4. FeaturesLoading'
      BY <1>1, <1>2, <2>2, <2>3, <3>3 DEF FeaturesLoading
    <3> QED
      BY <3>1, <3>4
  <2> QED
    BY <1>1, <1>2, <2>1, <2>3, <2>4 DEF ComesBack
<1>6. CASE listen
  BY <1>1, <1>6 DEF listen, ComesBack
<1>7. CASE UNCHANGED nodeVars
  BY <1>1, <1>2, <1>7
  DEF nodeVars, bootVars, ComesBack, TransformationsLoading, TransformationsLoaded,
      FeaturesLoading
<1> QED
  BY <1>3, <1>4, <1>5, <1>6, <1>7 DEF Quiet

LEMMA ComesBackLoadFeature ==
  ASSUME ~Reregistration, ~DiskMayFail, Settled, StorageWhole, ComesBack, loadFeature
  PROVE  ComesBack'
<1>1. /\ boot = "features" /\ boot' = "features"
      /\ UNCHANGED <<ptReady, publishedFeatures, publishedTransformations>>
  BY DEF loadFeature, publishedVars
<1>2. NodeInv /\ \A r \in toLoad : r \in FeatureRecord /\ r = featureFiles[r.feature.name]
  BY <1>1 DEF ComesBack, Settled, NodeInv, LoadPublished
<1> PICK record \in toLoad :
      /\ Ready(record)
      /\ deployFeature(record.feature, record.owner)
      /\ toLoad' = toLoad \ {record}
  BY DEF loadFeature
<1> DEFINE name == record.feature.name
           address == AddressOf(record.owner, record.feature)
<1>3. /\ record \in FeatureRecord /\ FeatureIsPublished(record)
      /\ record.feature \in Features /\ record.owner \in Users
      /\ record = [feature |-> record.feature, owner |-> record.owner]
  <2>1. record \in FeatureRecord /\ FeatureIsPublished(record)
    BY <1>1, <1>2 DEF NodeInv, LoadPublished
  <2> QED
    BY <2>1 DEF FeatureRecord
<1>4. name \in FeatureNames
  BY <1>3, CatalogueShape
<1>5. record = featureFiles[name] /\ record.feature \in Serializable
  <2>1. record = featureFiles[name]
    BY <1>2
  <2> QED
    BY <1>3, <1>4, <2>1 DEF StorageWhole, FeatureStorable
<1>6. /\ RegistryTypeOK
      /\ featureOnChain \in [FeatureNames -> Addresses \cup {NoAddress}]
  BY <1>2 DEF NodeInv, NodeTypeOK
<1>7. /\ \/ Refused /\ FeatureFileKept(record.feature)
         \/ RegisterFeature(address, record.feature, record.owner)
      /\ \/ UNCHANGED featureOnChain
         \/ featureOnChain' = Enter(featureOnChain, record.owner, record.feature)
      /\ UNCHANGED transformationFiles
  BY <1>3, <1>6, FeatureDeployed DEF FeatureEntered
<1>8. \A n \in FeatureNames \ {name} : featureOnChain'[n] = featureOnChain[n]
  BY <1>6, <1>7 DEF Enter
<1>9. /\ UNCHANGED <<transformationFiles, newestTransformation, featureFiles>>
      /\ \A n \in FeatureNames \ {name} : newestFeature'[n] = newestFeature[n]
  <2>1. CASE Refused /\ FeatureFileKept(record.feature)
    BY <1>5, <1>7, <2>1, LookupsStand DEF Refused, FeatureFileKept
  <2>2. CASE RegisterFeature(address, record.feature, record.owner)
    <3>1. UNCHANGED newestTransformation
      BY <2>2 DEF RegisterFeature, transformationVars
    <3>2. featureFiles' = [featureFiles EXCEPT ![name] = record]
      BY <1>3, <2>2 DEF RegisterFeature, StoreFeature, Written
    <3>3. UNCHANGED featureFiles
      BY <1>5, <1>6, <3>2 DEF RegistryTypeOK
    <3>4. \A n \in FeatureNames \ {name} : newestFeature'[n] = newestFeature[n]
      BY <1>6, <2>2 DEF RegisterFeature, RegistryTypeOK
    <3> QED
      BY <1>7, <3>1, <3>3, <3>4
  <2> QED
    BY <1>7, <2>1, <2>2
<1>10. /\ \A r \in toLoad' : r = featureFiles'[r.feature.name]
       /\ Damaged' <=> Damaged
       /\ Cyclic(Intact(featureFiles))' <=> Cyclic(Intact(featureFiles))
  <2>1. \A r \in toLoad' : r = featureFiles'[r.feature.name]
    BY <1>2, <1>9
  <2>2. Damaged' <=> Damaged
    BY <1>9 DEF Damaged
  <2>3. Cyclic(Intact(featureFiles))' <=> Cyclic(Intact(featureFiles))
    BY <1>9 DEF Cyclic, Intact
  <2> QED
    BY <2>1, <2>2, <2>3
<1> SUFFICES ASSUME ptReady, ~Damaged
             PROVE  TransformationsLoaded' /\ FeaturesLoading'
  BY <1>1, <1>10 DEF ComesBack
<1>11. TransformationsLoaded /\ FeaturesLoading
  BY <1>1 DEF ComesBack
<1>12. TransformationsLoaded'
  BY <1>1, <1>9, <1>11 DEF TransformationsLoaded
<1>13. ASSUME NEW r \in toLoad'
       PROVE  featureOnChain'[r.feature.name] = NoAddress
  <2>1. r \in toLoad /\ r # record
    OBVIOUS
  <2>2. r = featureFiles[r.feature.name] /\ featureOnChain[r.feature.name] = NoAddress
    BY <1>2, <1>11, <2>1 DEF FeaturesLoading
  <2>3. r.feature.name \in FeatureNames \ {name}
    <3>1. r.feature \in Features
      BY <1>2, <2>1 DEF FeatureRecord
    <3> QED
      BY <1>5, <2>1, <2>2, <3>1, CatalogueShape
  <2> QED
    BY <1>8, <2>2, <2>3
<1>14. ASSUME ~Cyclic(Intact(featureFiles)), NEW n \in FeatureNames, featureFiles[n] # NoFile
       PROVE  featureFiles[n] \in toLoad' \/ newestFeature'[n] = publishedFeatures[n]
  <2>1. CASE n = name
    <3>1. RegisterFeature(address, record.feature, record.owner)
      BY <1>1, <1>14, LoadRegistersFeature
    <3>2. newestFeature'[name] = address
      BY <1>4, <1>6, <3>1 DEF RegisterFeature, RegistryTypeOK
    <3> QED
      BY <1>3, <2>1, <3>2 DEF FeatureIsPublished
  <2>2. CASE n # name
    <3>1. featureFiles[n] # record
      BY <1>2, <1>14, <2>2, StoredRecords DEF Damaged
    <3> QED
      BY <1>9, <1>11, <1>14, <2>2, <3>1 DEF FeaturesLoading
  <2> QED
    BY <2>1, <2>2
<1>15. FeaturesLoading'
  BY <1>1, <1>9, <1>10, <1>13, <1>14 DEF FeaturesLoading
<1> QED
  BY <1>12, <1>15

LEMMA ComesBackLoadTransformation ==
  ASSUME ~Reregistration, ~DiskMayFail, Settled, StorageWhole, ComesBack, loadTransformation
  PROVE  ComesBack'
<1>1. /\ boot = "transformations" /\ boot' = "transformations"
      /\ UNCHANGED <<ptReady, publishedFeatures, publishedTransformations>>
  BY DEF loadTransformation, publishedVars
<1>2. /\ NodeInv
      /\ \A r \in toLoad :
           r \in TransformationRecord /\ r = transformationFiles[r.transformation.name]
  BY <1>1 DEF ComesBack, Settled, NodeInv, LoadPublished
<1> PICK record \in toLoad :
      /\ deployTransformation(record.transformation, record.owner)
      /\ toLoad' = toLoad \ {record}
  BY DEF loadTransformation
<1> DEFINE name == record.transformation.name
           address == AddressOf(record.owner, record.transformation)
<1>3. /\ record \in TransformationRecord /\ TransformationIsPublished(record)
      /\ record.transformation \in Transformations /\ record.owner \in Users
      /\ record = [transformation |-> record.transformation, owner |-> record.owner]
  <2>1. record \in TransformationRecord /\ TransformationIsPublished(record)
    BY <1>1, <1>2 DEF NodeInv, LoadPublished
  <2> QED
    BY <2>1 DEF TransformationRecord
<1>4. name \in TransformationNames
  BY <1>3, CatalogueAssumption DEF Transformation
<1>5. record = transformationFiles[name] /\ record.transformation \in Serializable
  <2>1. record = transformationFiles[name]
    BY <1>2
  <2> QED
    BY <1>3, <1>4, <2>1 DEF StorageWhole, TransformationStorable
<1>6. /\ RegistryTypeOK
      /\ transformationOnChain \in [TransformationNames -> Addresses \cup {NoAddress}]
  BY <1>2 DEF NodeInv, NodeTypeOK
<1>7. /\ UNCHANGED <<featureOnChain, featureFiles>>
      /\ \/ Refused /\ TransformationFileKept(record.transformation)
         \/ RegisterTransformation(address, record.transformation, record.owner)
      /\ \/ UNCHANGED transformationOnChain
         \/ transformationOnChain' =
              Enter(transformationOnChain, record.owner, record.transformation)
  BY <1>3, <1>6, TransformationDeployed DEF TransformationEntered
<1>8. \A n \in TransformationNames \ {name} :
        transformationOnChain'[n] = transformationOnChain[n]
  BY <1>6, <1>7 DEF Enter
<1>9. UNCHANGED transformationFiles
  <2>1. CASE Refused /\ TransformationFileKept(record.transformation)
    BY <1>5, <2>1 DEF TransformationFileKept
  <2>2. CASE RegisterTransformation(address, record.transformation, record.owner)
    <3>1. transformationFiles' = [transformationFiles EXCEPT ![name] = record]
      BY <1>3, <2>2 DEF RegisterTransformation, StoreTransformation, Written
    <3> QED
      BY <1>5, <1>6, <3>1 DEF RegistryTypeOK
  <2> QED
    BY <1>7, <2>1, <2>2
<1>10. /\ \A r \in toLoad' : r = transformationFiles'[r.transformation.name]
       /\ Damaged' <=> Damaged
  BY <1>2, <1>7, <1>9 DEF Damaged
<1> SUFFICES ASSUME ptReady, ~Damaged
             PROVE  TransformationsLoading'
  BY <1>1, <1>7, <1>10 DEF ComesBack
<1>11. TransformationsLoading
  BY <1>1 DEF ComesBack
<1>12. RegisterTransformation(address, record.transformation, record.owner)
  BY <1>1, LoadRegistersTransformation
<1>13. /\ newestTransformation'[name] = address
       /\ \A n \in TransformationNames \ {name} :
            newestTransformation'[n] = newestTransformation[n]
  BY <1>4, <1>6, <1>12 DEF RegisterTransformation, RegistryTypeOK
<1>14. ASSUME NEW r \in toLoad'
       PROVE  transformationOnChain'[r.transformation.name] = NoAddress
  <2>1. r \in toLoad /\ r # record
    OBVIOUS
  <2>2. /\ r = transformationFiles[r.transformation.name]
        /\ transformationOnChain[r.transformation.name] = NoAddress
    BY <1>2, <1>11, <2>1 DEF TransformationsLoading
  <2>3. r.transformation.name \in TransformationNames \ {name}
    <3>1. r.transformation \in Transformations
      BY <1>2, <2>1 DEF TransformationRecord
    <3> QED
      BY <1>5, <2>1, <2>2, <3>1, CatalogueAssumption DEF Transformation
  <2> QED
    BY <1>8, <2>2, <2>3
<1>15. ASSUME NEW n \in TransformationNames, transformationFiles[n] # NoFile
       PROVE  \/ transformationFiles[n] \in toLoad'
              \/ newestTransformation'[n] = publishedTransformations[n]
  <2>1. CASE n = name
    BY <1>3, <1>13, <2>1 DEF TransformationIsPublished
  <2>2. CASE n # name
    <3>1. transformationFiles[n] # record
      BY <1>2, <1>15, <2>2, StoredRecords DEF Damaged
    <3> QED
      BY <1>11, <1>13, <1>15, <2>2, <3>1 DEF TransformationsLoading
  <2> QED
    BY <2>1, <2>2
<1> QED
  BY <1>1, <1>9, <1>14, <1>15 DEF TransformationsLoading

LEMMA ComesBackStep ==
  ASSUME ~Reregistration, ~DiskMayFail, Settled, StorageWhole, ComesBack,
         [NodeNext]_nodeVars
  PROVE  ComesBack'
<1>1. CASE POST_feature
  BY <1>1 DEF POST_feature, bootVars, ComesBack
<1>2. CASE POST_transformation
  BY <1>2 DEF POST_transformation, bootVars, ComesBack
<1>3. CASE Kill
  <2>1. /\ boot' = "loadPT"
        /\ featureOnChain' = [n \in FeatureNames |-> NoAddress]
        /\ transformationOnChain' = [n \in TransformationNames |-> NoAddress]
    BY <1>3, KillRestarts DEF Restart
  <2> QED
    BY <2>1 DEF ComesBack
<1> QED
  BY <1>1, <1>2, <1>3, NodeStepCases, ComesBackQuiet, ComesBackLoadFeature,
     ComesBackLoadTransformation

\* A server that starts to listen has everything that was ever published, at its
\* old address: with names deployed once and a disk that does not fail, provided
\* the PT contracts were deployed, no file is damaged and the sub-features of what
\* is stored form no ring.
THEOREM PublishedSurviveCorrect ==
  ASSUME ~Reregistration, ~DiskMayFail
  PROVE  NodeSpec => PublishedSurvive
<1> DEFINE Inv == StorageWhole /\ ComesBack
           Survive == /\ boot # "serving" /\ boot' = "serving"
                      /\ ptReady /\ ~Damaged /\ ~Cyclic(Intact(featureFiles))
                      => /\ newestFeature = publishedFeatures
                         /\ newestTransformation = publishedTransformations
<1>1. NodeInit => Inv
  BY SentinelAssumption DEF NodeInit, RegistryInit, StorageWhole, ComesBack
<1>2. NodeInv /\ FirstSubFeaturesClosed /\ ChecksTerminate <=> Settled
  BY DEF Settled
<1>3. Settled /\ Inv /\ [NodeNext]_nodeVars => Inv'
  BY StorageStep, ComesBackStep
<1>4. Settled /\ Inv /\ [NodeNext]_nodeVars => [Survive]_nodeVars
  <2> SUFFICES ASSUME Settled, Inv, [NodeNext]_nodeVars,
                      boot # "serving", boot' = "serving",
                      ptReady, ~Damaged, ~Cyclic(Intact(featureFiles))
               PROVE  /\ newestFeature = publishedFeatures
                      /\ newestTransformation = publishedTransformations
    OBVIOUS
  <2>1. boot = "features" /\ toLoad = {}
    <3>1. CASE Kill
      BY <3>1, KillRestarts
    <3>2. CASE loadFeature \/ loadTransformation \/ POST_feature \/ POST_transformation
      BY <3>2 DEF loadFeature, loadTransformation, POST_feature, POST_transformation, bootVars
    <3>3. CASE Quiet
      BY <3>3
      DEF Quiet, loadPT, readTransformations, readFeatures, listen, nodeVars, bootVars
    <3> QED
      BY <3>1, <3>2, <3>3, NodeStepCases
  <2>2. TransformationsLoaded /\ FeaturesLoading
    BY <2>1 DEF ComesBack
  <2>3. NodeInv
    BY DEF Settled
  <2>4. ASSUME NEW n \in FeatureNames
        PROVE  newestFeature[n] = publishedFeatures[n]
    <3>1. CASE featureFiles[n] # NoFile
      BY <2>1, <2>2, <3>1 DEF FeaturesLoading
    <3>2. CASE featureFiles[n] = NoFile
      BY <2>3, <3>2 DEF StorageWhole, NodeInv, NeverRollsBack
    <3> QED
      BY <3>1, <3>2
  <2>5. ASSUME NEW n \in TransformationNames
        PROVE  newestTransformation[n] = publishedTransformations[n]
    <3>1. CASE transformationFiles[n] # NoFile
      BY <2>2, <3>1 DEF TransformationsLoaded
    <3>2. CASE transformationFiles[n] = NoFile
      BY <2>3, <3>2 DEF StorageWhole, NodeInv, NeverRollsBack
    <3> QED
      BY <3>1, <3>2
  <2>6. /\ newestFeature \in [FeatureNames -> Addresses \cup {NoAddress}]
        /\ publishedFeatures \in [FeatureNames -> Addresses \cup {NoAddress}]
        /\ newestTransformation \in [TransformationNames -> Addresses \cup {NoAddress}]
        /\ publishedTransformations \in [TransformationNames -> Addresses \cup {NoAddress}]
    BY <2>3 DEF NodeInv, NodeTypeOK, RegistryTypeOK
  <2> QED
    BY <2>4, <2>5, <2>6
<1> QED
  BY <1>1, <1>2, <1>3, <1>4, NodeSafe, LoadedSubFeaturesCorrect, NodeChecksTerminate, PTL
  DEF NodeSpec, PublishedSurvive

-----------------------------------------------------------------------------
(***************************************************************************)
(* The start goes on.  Node deploys the stored features in any order that  *)
(* takes a record when none of its sub-features is still to come; the      *)
(* orders that the sort of the loader may give are among them, and such a  *)
(* record is always there.                                                 *)
(***************************************************************************)

\* The records as the sort sees them: names, each with the names of its dimensions.
Mentioned(records) ==
  [n \in {r.feature.name : r \in records} |->
     LET feature == (CHOOSE r \in records : r.feature.name = n).feature
     IN  [i \in DOMAIN feature.dimensions |-> feature.dimensions[i].feature_name]]

Sort(records) == INSTANCE SortPromise
  WITH children <- Mentioned(records), result <- "sorting", order <- <<>>

OnePerName(records) ==
  \A r, s \in records : r.feature.name = s.feature.name => r = s

\* There is one file per name.
LEMMA StoredOnePerName ==
  ASSUME NodeInv, NEW records \in LoadJSONRecords(featureFiles)
  PROVE  records \subseteq FeatureRecord /\ OnePerName(records)
<1>1. records \subseteq Intact(featureFiles)
  BY DEF LoadJSONRecords
<1>2. featureFiles \in [FeatureNames -> FeatureRecord \cup {NoFile, Truncated}]
  BY DEF NodeInv, NodeTypeOK, RegistryTypeOK
<1>3. ASSUME NEW r \in records
      PROVE  r \in FeatureRecord /\ r.feature.name \in FeatureNames
             /\ featureFiles[r.feature.name] = r
  <2>1. PICK n \in FeatureNames : r = featureFiles[n] /\ r \notin {NoFile, Truncated}
    BY <1>1, <1>2 DEF Intact
  <2>2. r \in FeatureRecord
    BY <1>2, <2>1
  <2> QED
    BY <2>1, <2>2 DEF NodeInv, FilesPublished
<1> QED
  BY <1>3 DEF OnePerName

LEMMA MentionedOf ==
  ASSUME NEW records, OnePerName(records), NEW r \in records
  PROVE  /\ r.feature.name \in Sort(records)!Records
         /\ Sort(records)!Mentions(r.feature.name) = SubFeatures(r.feature)
<1> DEFINE name == r.feature.name
           chosen == CHOOSE s \in records : s.feature.name = name
<1>1. chosen = r
  <2>1. chosen \in records /\ chosen.feature.name = name
    OBVIOUS
  <2> QED
    BY <2>1 DEF OnePerName
<1>2. name \in Sort(records)!Records
  BY DEF Sort!Records, Mentioned
<1> DEFINE dims      == r.feature.dimensions
           mentioned == Mentioned(records)[name]
<1>3. mentioned = [i \in DOMAIN dims |-> dims[i].feature_name]
  BY <1>1 DEF Mentioned
<1>4. Sort(records)!Mentions(name) = {mentioned[i] : i \in DOMAIN mentioned}
  BY DEF Sort!Mentions
<1>5. SubFeatures(r.feature) = {dims[i].feature_name : i \in DOMAIN dims}
  BY DEF SubFeatures
<1>6. DOMAIN mentioned = DOMAIN dims /\ \A i \in DOMAIN dims : mentioned[i] = dims[i].feature_name
  BY <1>3
<1> HIDE DEF dims, mentioned
<1>7. Sort(records)!Mentions(name) = SubFeatures(r.feature)
  BY <1>4, <1>5, <1>6
<1> QED
  BY <1>2, <1>7

LEMMA RecordOf ==
  ASSUME NEW records, NEW n \in Sort(records)!Records
  PROVE  \E r \in records : r.feature.name = n
BY DEF Sort!Records, Mentioned

\* A ring of records is a ring of names.
LEMMA SameRings ==
  ASSUME NEW records, OnePerName(records)
  PROVE  Cyclic(records) <=> Sort(records)!Cyclic
<1>1. ASSUME Cyclic(records)
      PROVE  Sort(records)!Cyclic
  <2>1. PICK ring \in (SUBSET records) \ {{}} :
          \A r \in ring : \E s \in ring : s.feature.name \in SubFeatures(r.feature)
    BY <1>1 DEF Cyclic
  <2> DEFINE names == {r.feature.name : r \in ring}
  <2>2. names \in SUBSET Sort(records)!Records /\ names # {}
    <3>1. ASSUME NEW r \in ring
          PROVE  r.feature.name \in Sort(records)!Records
      <4>1. r \in records
        BY <2>1
      <4> QED
        BY <4>1, MentionedOf
    <3>2. ring # {}
      BY <2>1
    <3> QED
      BY <3>1, <3>2
  <2>3. ASSUME NEW n \in names
        PROVE  \E m \in names : m \in Sort(records)!Needs(n)
    <3>1. PICK r \in ring : n = r.feature.name
      OBVIOUS
    <3>2. PICK s \in ring : s.feature.name \in SubFeatures(r.feature)
      BY <2>1
    <3>3. r \in records /\ s \in records
      OBVIOUS
    <3>4. s.feature.name \in Sort(records)!Records
      BY <3>3, MentionedOf
    <3>5. Sort(records)!Mentions(n) = SubFeatures(r.feature)
      BY <3>1, <3>3, MentionedOf
    <3> QED
      BY <3>2, <3>4, <3>5 DEF Sort!Needs
  <2> QED
    BY <2>2, <2>3 DEF Sort!Cyclic, Sort!Ring
<1>2. ASSUME Sort(records)!Cyclic
      PROVE  Cyclic(records)
  <2>1. PICK names \in SUBSET Sort(records)!Records : Sort(records)!Ring(names)
    BY <1>2 DEF Sort!Cyclic
  <2> DEFINE ring == {r \in records : r.feature.name \in names}
  <2>2. ring # {}
    BY <2>1, RecordOf DEF Sort!Ring
  <2>3. ASSUME NEW r \in ring
        PROVE  \E s \in ring : s.feature.name \in SubFeatures(r.feature)
    <3>1. PICK m \in names : m \in Sort(records)!Needs(r.feature.name)
      BY <2>1 DEF Sort!Ring
    <3>2. m \in SubFeatures(r.feature)
      BY <3>1, MentionedOf DEF Sort!Needs
    <3>3. PICK s \in records : s.feature.name = m
      BY <2>1, RecordOf
    <3> QED
      BY <3>1, <3>2, <3>3
  <2> QED
    BY <2>2, <2>3 DEF Cyclic
<1> QED
  BY <1>1, <1>2

\* What is left of the records when those at the places before k were taken
Left(records, seq, k) ==
  {r \in records : \A i \in 1..(k - 1) : seq[i] # r.feature.name}

\* Every order that topologicalSort may give for what was read of storage/ is one
\* in which Node may deploy it, and where the sort throws Node deploys nothing:
\* the loader in Node does all that the sort and the loader of Loading do
\* (loadStoredFeatures).
THEOREM LoadTakesSortedOrders ==
  ASSUME NodeInv, NEW records \in LoadJSONRecords(featureFiles)
  PROVE  /\ Sorted(records) = IF Sort(records)!Cyclic THEN {} ELSE records
         /\ \A seq : Sort(records)!IsOrder(seq) =>
              /\ Left(records, seq, 1) = records
              /\ Left(records, seq, Len(seq) + 1) = {}
              /\ \A k \in DOMAIN seq : \E r \in Left(records, seq, k) :
                   /\ r.feature.name = seq[k]
                   /\ toLoad = Left(records, seq, k) => Ready(r)
                   /\ Left(records, seq, k + 1) = Left(records, seq, k) \ {r}
<1>1. OnePerName(records)
  BY StoredOnePerName
<1>2. Sorted(records) = IF Sort(records)!Cyclic THEN {} ELSE records
  BY <1>1, SameRings DEF Sorted
<1> SUFFICES ASSUME NEW seq, Sort(records)!IsOrder(seq)
             PROVE  /\ Left(records, seq, 1) = records
                    /\ Left(records, seq, Len(seq) + 1) = {}
                    /\ \A k \in DOMAIN seq : \E r \in Left(records, seq, k) :
                         /\ r.feature.name = seq[k]
                         /\ toLoad = Left(records, seq, k) => Ready(r)
                         /\ Left(records, seq, k + 1) = Left(records, seq, k) \ {r}
  BY <1>2
<1>3. /\ seq \in Seq(Sort(records)!Records)
      /\ Sort(records)!Records = {seq[i] : i \in DOMAIN seq}
      /\ \A i, j \in DOMAIN seq : seq[i] = seq[j] => i = j
      /\ \A j \in DOMAIN seq : \A n \in Sort(records)!Needs(seq[j]) :
           \E i \in DOMAIN seq : i < j /\ seq[i] = n
  BY DEF Sort!IsOrder, Sort!Once, Sort!ChildrenFirst
<1>4. DOMAIN seq = 1..Len(seq) /\ Len(seq) \in Nat
  BY <1>3
<1>5. Left(records, seq, 1) = records
  BY DEF Left
<1>6. Left(records, seq, Len(seq) + 1) = {}
  <2> SUFFICES ASSUME NEW r \in Left(records, seq, Len(seq) + 1) PROVE FALSE
    OBVIOUS
  <2>1. r \in records /\ \A i \in 1..Len(seq) : seq[i] # r.feature.name
    BY <1>4 DEF Left
  <2>2. r.feature.name \in Sort(records)!Records
    BY <1>1, <2>1, MentionedOf
  <2> QED
    BY <1>3, <1>4, <2>1, <2>2
<1>7. ASSUME NEW k \in DOMAIN seq
      PROVE  \E r \in Left(records, seq, k) :
               /\ r.feature.name = seq[k]
               /\ toLoad = Left(records, seq, k) => Ready(r)
               /\ Left(records, seq, k + 1) = Left(records, seq, k) \ {r}
  <2>1. k \in Nat /\ seq[k] \in Sort(records)!Records
    BY <1>3, <1>4
  <2>2. PICK r \in records : r.feature.name = seq[k]
    BY <2>1, RecordOf
  <2>3. r \in Left(records, seq, k)
    <3>1. \A i \in 1..(k - 1) : i \in DOMAIN seq /\ i # k
      BY <1>4
    <3> QED
      BY <1>3, <2>2, <3>1 DEF Left
  <2>4. Left(records, seq, k + 1) = Left(records, seq, k) \ {r}
    <3>1. 1..(k + 1 - 1) = 1..(k - 1) \cup {k}
      BY <1>4
    <3>2. \A s \in records : s.feature.name = seq[k] <=> s = r
      BY <1>1, <2>2 DEF OnePerName
    <3> QED
      BY <3>1, <3>2 DEF Left
  <2>5. ASSUME toLoad = Left(records, seq, k), NEW s \in toLoad,
               s.feature.name \in SubFeatures(r.feature)
        PROVE  FALSE
    <3>1. s \in records
      BY <2>5 DEF Left
    <3>2. s.feature.name \in Sort(records)!Needs(seq[k])
      BY <1>1, <2>2, <2>5, <3>1, MentionedOf DEF Sort!Needs
    <3>3. PICK i \in DOMAIN seq : i < k /\ seq[i] = s.feature.name
      BY <1>3, <3>2
    <3>4. i \in 1..(k - 1)
      BY <1>4, <3>3
    <3> QED
      BY <2>5, <3>3, <3>4 DEF Left
  <2> QED
    BY <2>2, <2>3, <2>4, <2>5 DEF Ready
<1> QED
  BY <1>5, <1>6, <1>7

\* While features are loaded there is one to take next: the records left never
\* wait for each other, so the loop of loadStoredFeatures comes to its end.
LoadGoesOn ==
  boot = "features" /\ toLoad # {} => \E record \in toLoad : Ready(record)

NoRingLeft == boot = "features" => ~Cyclic(toLoad)

THEOREM LoadNeverStuck == NodeSpec => []LoadGoesOn
<1>1. NodeInit => NoRingLeft
  BY DEF NodeInit, NoRingLeft
<1>2. NoRingLeft /\ [NodeNext]_nodeVars => NoRingLeft'
  <2> SUFFICES ASSUME NoRingLeft, [NodeNext]_nodeVars, boot' = "features"
               PROVE  ~Cyclic(toLoad)'
    BY DEF NoRingLeft
  <2>1. ASSUME toLoad' \subseteq toLoad, boot = "features"
        PROVE  ~Cyclic(toLoad)'
    BY <2>1 DEF NoRingLeft, Cyclic
  <2>2. CASE readFeatures
    <3>1. PICK records : toLoad' = Sorted(records)
      BY <2>2 DEF readFeatures
    <3>2. ~Cyclic({})
      BY DEF Cyclic
    <3> QED
      BY <3>1, <3>2 DEF Sorted
  <2>3. CASE loadFeature
    BY <2>1, <2>3 DEF loadFeature
  <2>4. CASE Kill
    BY <2>4, KillRestarts
  <2>5. CASE UNCHANGED nodeVars
    BY <2>1, <2>5 DEF nodeVars, bootVars
  <2>6. CASE POST_feature \/ POST_transformation \/ loadTransformation
    BY <2>1, <2>6 DEF POST_feature, POST_transformation, loadTransformation, bootVars
  <2>7. CASE loadPT \/ readTransformations \/ listen
    BY <2>7 DEF loadPT, readTransformations, listen
  <2> QED
    BY <2>2, <2>3, <2>4, <2>5, <2>6, <2>7 DEF NodeNext, Start
<1>3. NoRingLeft => LoadGoesOn
  <2> SUFFICES ASSUME NoRingLeft, boot = "features", toLoad # {},
                      \A record \in toLoad : ~Ready(record)
               PROVE  FALSE
    BY DEF LoadGoesOn
  <2>1. \A r \in toLoad : \E s \in toLoad : s.feature.name \in SubFeatures(r.feature)
    BY DEF Ready
  <2> QED
    BY <2>1 DEF NoRingLeft, Cyclic
<1> QED
  BY <1>1, <1>2, <1>3, PTL DEF NodeSpec
=============================================================================
