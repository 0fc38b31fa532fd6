-------------------------------- MODULE Node --------------------------------
(***************************************************************************)
(* The server process over its life: it starts, deploys the PT contracts,  *)
(* deploys again everything it finds in storage/, listens, deploys what    *)
(* clients post, and may be killed at any moment and started again.  What  *)
(* the EVM and the Registry hold is lost with the process; the files stay. *)
(*                                                                         *)
(* One thread runs the io_context and a deployment waits for nothing but   *)
(* strands, so no two deployments interleave: each is one step, apart from *)
(* the kill that finds a record half stored.                               *)
(***************************************************************************)
EXTENDS Registry

CONSTANTS
  Compilable,      \* contracts that solc accepts
  Constructible,   \* those whose constructor succeeds when their name is free
  MaxStarts        \* bound: how often the process is started

\* Transformations and features, as contracts.
Contracts == Features \cup Transformations

\* EVM::deploy is a CREATE2 with a constant salt: the address depends on the
\* deployer and the contract, and is the same after every start.
AddressOf(owner, contract) == [creator |-> owner, code |-> contract]

ASSUME NodeAssumption ==
  /\ \A u \in Users, c \in Contracts : AddressOf(u, c) \in Addresses
  /\ Constructible \subseteq Compilable
  /\ Compilable \subseteq {c \in Contracts : c.name # EmptyName}
  /\ MaxStarts \in Nat \ {0}

VARIABLES
  boot,                  \* how far the process has come
  ptReady,               \* the PT registry contract is deployed
  toLoad,                \* records read from storage/ and not deployed yet
  featureOnChain,        \* names known to the PT registry contract
  transformationOnChain,
  starts,                \* how often the process was started
  publishedFeatures,     \* history: per name, the version accepted last, or whose
  publishedTransformations \* record a kill found complete

chainVars == <<featureOnChain, transformationOnChain>>
bootVars == <<boot, ptReady, toLoad, starts>>
publishedVars == <<publishedFeatures, publishedTransformations>>
nodeVars == <<registryVars, chainVars, bootVars, publishedVars>>

NodeInit ==
  /\ RegistryInit
  /\ boot = "loadPT" /\ ptReady = FALSE /\ toLoad = {} /\ starts = 1
  /\ featureOnChain = [n \in FeatureNames |-> NoAddress]
  /\ transformationOnChain = [n \in TransformationNames |-> NoAddress]
  /\ publishedFeatures = [n \in FeatureNames |-> NoAddress]
  /\ publishedTransformations = [n \in TransformationNames |-> NoAddress]

-----------------------------------------------------------------------------
(***************************************************************************)
(* The outcome of compile, deploy and fetchOwner for a contract whose name *)
(* is in the given map of the PT registry.  The constructor registers the  *)
(* name there; the PT contracts are not part of the repository.            *)
(***************************************************************************)
NameFree(onChain, name) == Reregistration \/ onChain[name] = NoAddress

Constructed(contract, onChain) ==
  /\ ptReady
  /\ contract \in Constructible
  /\ NameFree(onChain, contract.name)

Enter(onChain, owner, contract) ==
  [onChain EXCEPT ![contract.name] = AddressOf(owner, contract)]

\* EVMStorage::call does not undo what a failed constructor wrote elsewhere: its
\* name may stay in the PT registry.
Failed(onChain, owner, contract) ==
  {onChain} \cup (IF ptReady /\ contract \in Compilable /\ NameFree(onChain, contract.name)
                  THEN {Enter(onChain, owner, contract)} ELSE {})

(* deployTransformation *)

RefuseTransformationContract(transformation, owner) ==
  /\ \/ transformation.name = EmptyName \/ transformation.sol_src = ""
     \/ ~Constructed(transformation, transformationOnChain)
  /\ IF transformation.name = EmptyName \/ transformation.sol_src = ""
     THEN UNCHANGED transformationOnChain
     ELSE transformationOnChain' \in Failed(transformationOnChain, owner, transformation)
  /\ UNCHANGED <<registryVars, featureOnChain>>

deployTransformation(transformation, owner) ==
  \/ RefuseTransformationContract(transformation, owner)
  \/ /\ transformation.name # EmptyName /\ transformation.sol_src # ""
     /\ Constructed(transformation, transformationOnChain)
     /\ transformationOnChain' = Enter(transformationOnChain, owner, transformation)
     /\ addTransformation(AddressOf(owner, transformation), transformation, owner)
     /\ UNCHANGED featureOnChain

(* deployFeature: the transformations are only checked by addFeature, when  *)
(* the contract is on the chain already.                                    *)

RefuseFeatureContract(feature, owner) ==
  \/ SubFeatureMissing(feature) /\ UNCHANGED <<registryVars, chainVars>>
  \/ /\ CheckDiverges(feature)
     /\ diverged' = TRUE
     /\ UNCHANGED <<featureVars, transformationVars, conditionVars, chainVars>>
  \/ /\ checkIfSubFeaturesExist(feature)
     /\ ~Constructed(feature, featureOnChain)
     /\ featureOnChain' \in Failed(featureOnChain, owner, feature)
     /\ UNCHANGED <<registryVars, transformationOnChain>>

deployFeature(feature, owner) ==
  \/ RefuseFeatureContract(feature, owner)
  \/ /\ checkIfSubFeaturesExist(feature)
     /\ Constructed(feature, featureOnChain)
     /\ featureOnChain' = Enter(featureOnChain, owner, feature)
     /\ addFeature(AddressOf(owner, feature), feature, owner)
     /\ UNCHANGED transformationOnChain

-----------------------------------------------------------------------------
(* Start: EVM::loadPT, then the stored records, then Server::listen.        *)

loadPT ==
  /\ boot = "loadPT"
  /\ ptReady' \in BOOLEAN
  /\ boot' = "readTransformations"
  /\ UNCHANGED <<registryVars, chainVars, toLoad, starts, publishedVars>>

Intact(files) == {files[n] : n \in DOMAIN files} \ {NoFile, Truncated}

\* _loadJSONRecords: what reading a directory may return.  A file that cannot be
\* parsed stays open, so the stream reads nothing from those that come after it,
\* in the order the directory gives them.
LoadJSONRecords(files) ==
  IF \E n \in DOMAIN files : files[n] = Truncated
  THEN SUBSET Intact(files)
  ELSE {Intact(files)}

readTransformations ==
  /\ boot = "readTransformations"
  /\ toLoad' \in LoadJSONRecords(transformationFiles)
  /\ boot' = "transformations"
  /\ UNCHANGED <<registryVars, chainVars, ptReady, starts, publishedVars>>

loadTransformation ==
  /\ boot = "transformations"
  /\ \E record \in toLoad :
       /\ deployTransformation(record.transformation, record.owner)
       /\ toLoad' = toLoad \ {record}
  /\ UNCHANGED <<boot, ptReady, starts, publishedVars>>

SubFeatures(feature) ==
  {feature.dimensions[i].feature_name : i \in DOMAIN feature.dimensions}

\* topologicalSort throws on a cycle of sub-features among the records.
Cyclic(records) ==
  \E ring \in (SUBSET records) \ {{}} :
    \A r \in ring : \E s \in ring : s.feature.name \in SubFeatures(r.feature)

\* (mutant) a cycle is not noticed
Unsorted(records) == records

\* What is left to deploy, in topological order, after the sort.
Sorted(records) == IF Cyclic(records) THEN {} ELSE records

readFeatures ==
  /\ boot = "transformations" /\ toLoad = {}
  /\ \E records \in LoadJSONRecords(featureFiles) : toLoad' = Sorted(records)
  /\ boot' = "features"
  /\ UNCHANGED <<registryVars, chainVars, ptReady, starts, publishedVars>>

\* (mutant) in any order
AnyNext(record) == record \in toLoad

\* A record none of whose sub-features is still to come: the sort may give any
\* such order, as the hash map it visits has none.
Ready(record) ==
  /\ record \in toLoad
  /\ \A r \in toLoad : r.feature.name \notin SubFeatures(record.feature)

loadFeature ==
  /\ boot = "features"
  /\ \E record \in toLoad :
       /\ Ready(record)
       /\ deployFeature(record.feature, record.owner)
       /\ toLoad' = toLoad \ {record}
  /\ UNCHANGED <<boot, ptReady, starts, publishedVars>>

listen ==
  /\ boot = "features" /\ toLoad = {}
  /\ boot' = "serving"
  /\ UNCHANGED <<registryVars, chainVars, ptReady, toLoad, starts, publishedVars>>

-----------------------------------------------------------------------------
(* Requests of authenticated clients *)

POST_transformation ==
  /\ boot = "serving"
  /\ \E transformation \in Transformations, owner \in Users :
       /\ deployTransformation(transformation, owner)
       /\ LET n == transformation.name IN
          publishedTransformations' =
            [publishedTransformations EXCEPT ![n] =
               IF newestTransformation'[n] # newestTransformation[n]
               THEN newestTransformation'[n] ELSE @]
  /\ UNCHANGED <<bootVars, publishedFeatures>>

POST_feature ==
  /\ boot = "serving"
  /\ \E feature \in Features, owner \in Users :
       /\ deployFeature(feature, owner)
       /\ LET n == feature.name IN
          publishedFeatures' =
            [publishedFeatures EXCEPT ![n] =
               IF newestFeature'[n] # newestFeature[n] THEN newestFeature'[n] ELSE @]
  /\ UNCHANGED <<bootVars, publishedTransformations>>

(***************************************************************************)
(* What anybody may ask.  The record is that of the version asked for, the *)
(* address and the owner beside it are those the PT registry contract has  *)
(* for the name.  No code, hence no owner, is found where a constructor    *)
(* failed.                                                                 *)
(***************************************************************************)
AddressAndOwner(onChain, name) ==
  IF ptReady /\ onChain[name] # NoAddress /\ onChain[name].code \in Constructible
  THEN [code |-> "OK", address |-> onChain[name], owner |-> onChain[name].creator]
  ELSE [code |-> "InternalServerError"]

GET_feature(name, address) ==
  IF getFeature(name, address) = NoRecord
  THEN [code |-> "NotFound"]
  ELSE AddressAndOwner(featureOnChain, name)

GET_newestFeature(name) ==
  IF getNewestFeature(name) = NoRecord
  THEN [code |-> "NotFound"]
  ELSE AddressAndOwner(featureOnChain, name)

GET_transformation(name, address) ==
  IF getTransformation(name, address) = NoRecord
  THEN [code |-> "NotFound"]
  ELSE AddressAndOwner(transformationOnChain, name)

GET_newestTransformation(name) ==
  IF getNewestTransformation(name) = NoRecord
  THEN [code |-> "NotFound"]
  ELSE AddressAndOwner(transformationOnChain, name)

-----------------------------------------------------------------------------
(* The process is killed, and started again *)

\* All but what is on the disk, which the kinds of kill tell apart.
Restart ==
  /\ starts < MaxStarts
  /\ starts' = starts + 1
  /\ boot' = "loadPT" /\ ptReady' = FALSE /\ toLoad' = {}
  /\ featureOnChain' = [n \in FeatureNames |-> NoAddress]
  /\ transformationOnChain' = [n \in TransformationNames |-> NoAddress]
  /\ featureBuckets' = {} /\ transformationBuckets' = {}
  /\ features' = [n \in FeatureNames |-> [a \in Addresses |-> NoRecord]]
  /\ newestFeature' = [n \in FeatureNames |-> NoAddress]
  /\ ownedFeatures' = [u \in Users |-> {}]
  /\ transformations' = [n \in TransformationNames |-> [a \in Addresses |-> NoRecord]]
  /\ newestTransformation' = [n \in TransformationNames |-> NoAddress]
  /\ ownedTransformations' = [u \in Users |-> {}]
  /\ conditions' = [n \in ConditionNames |-> {}]
  /\ newestCondition' = [n \in ConditionNames |-> NoAddress]
  /\ diverged' = FALSE

kill ==
  Restart /\ UNCHANGED <<featureFileVars, transformationFileVars, publishedVars>>

\* A record about to be stored: posted, or loaded and stored again.
StoringFeature(feature, owner) ==
  /\ \/ boot = "serving"
     \/ boot = "features" /\ \E r \in toLoad :
                               Ready(r) /\ r.feature = feature /\ r.owner = owner
  /\ checkIfSubFeaturesExist(feature)
  /\ Constructed(feature, featureOnChain)
  /\ ~FeatureKnown(AddressOf(owner, feature), feature)
  /\ TransformationsExist(feature)

StoringTransformation(transformation, owner) ==
  /\ \/ boot = "serving"
     \/ boot = "transformations" /\ \E r \in toLoad :
                               r.transformation = transformation /\ r.owner = owner
  /\ transformation.sol_src # ""
  /\ Constructed(transformation, transformationOnChain)
  /\ getTransformation(transformation.name, AddressOf(owner, transformation)) = NoRecord

\* Killed between the truncation of the file and the return of addFeature: the
\* file is empty, or complete while nobody was told.
LeftByKill(contract, record) ==
  {Truncated} \cup (IF contract \in Serializable THEN {record} ELSE {})

killWhileStoringFeature ==
  \E feature \in Features, owner \in Users :
    LET n      == feature.name
        record == [feature |-> feature, owner |-> owner]
    IN
    /\ StoringFeature(feature, owner)
    /\ \E content \in LeftByKill(feature, record) :
         /\ featureFiles' = [featureFiles EXCEPT ![n] = content]
         /\ unsavedFeatures' = Unsaved(unsavedFeatures, n, record, content)
         /\ publishedFeatures' = IF content = record
                                 THEN Enter(publishedFeatures, owner, feature)
                                 ELSE publishedFeatures
    /\ Restart
    /\ UNCHANGED <<transformationFileVars, publishedTransformations>>

killWhileStoringTransformation ==
  \E transformation \in Transformations, owner \in Users :
    LET n      == transformation.name
        record == [transformation |-> transformation, owner |-> owner]
    IN
    /\ StoringTransformation(transformation, owner)
    /\ \E content \in LeftByKill(transformation, record) :
         /\ transformationFiles' = [transformationFiles EXCEPT ![n] = content]
         /\ unsavedTransformations' = Unsaved(unsavedTransformations, n, record, content)
         /\ publishedTransformations' = IF content = record
                                        THEN Enter(publishedTransformations, owner,
                                                   transformation)
                                        ELSE publishedTransformations
    /\ Restart
    /\ UNCHANGED <<featureFileVars, publishedFeatures>>

-----------------------------------------------------------------------------
Start == loadPT \/ readTransformations \/ loadTransformation \/ readFeatures
         \/ loadFeature \/ listen

Kill == kill \/ killWhileStoringFeature \/ killWhileStoringTransformation

NodeNext ==
  \/ ~diverged /\ Start
  \/ ~diverged /\ POST_transformation
  \/ ~diverged /\ POST_feature
  \/ Kill

\* The one thread of io_context::run goes on with a coroutine that can go on.
NodeSpec == NodeInit /\ [][NodeNext]_nodeVars /\ WF_nodeVars(~diverged /\ Start)

-----------------------------------------------------------------------------
Boots == {"loadPT", "readTransformations", "transformations", "features", "serving"}

\* The type invariant
NodeTypeOK ==
  /\ RegistryTypeOK
  /\ boot \in Boots /\ ptReady \in BOOLEAN /\ starts \in 1..MaxStarts
  /\ toLoad \subseteq FeatureRecord \cup TransformationRecord
  /\ featureOnChain \in [FeatureNames -> Addresses \cup {NoAddress}]
  /\ transformationOnChain \in [TransformationNames -> Addresses \cup {NoAddress}]
  /\ publishedFeatures \in [FeatureNames -> Addresses \cup {NoAddress}]
  /\ publishedTransformations \in [TransformationNames -> Addresses \cup {NoAddress}]

\* Whatever kills, emptied files and broken starts came before, a name is
\* either unknown or stands for the version, owner included, that was published
\* last: while the disk does not fail a restart never brings an older version
\* back (storage/ against the maps of the Registry).
NeverRollsBack ==
  /\ \A n \in FeatureNames : newestFeature[n] \in {NoAddress, publishedFeatures[n]}
  /\ \A n \in TransformationNames :
       newestTransformation[n] \in {NoAddress, publishedTransformations[n]}

\* Some file was emptied, by a kill or by a refusal, and not written since.
Damaged ==
  \/ \E n \in FeatureNames : featureFiles[n] = Truncated
  \/ \E n \in TransformationNames : transformationFiles[n] = Truncated

\* A server that starts to listen has everything that was ever published, at its
\* old address, provided the PT contracts were deployed, no file is damaged and
\* the sub-features of what is stored form no ring (loadStoredTransformations
\* and loadStoredFeatures against addFeature and addTransformation).
PublishedSurvive ==
  [][/\ boot # "serving" /\ boot' = "serving"
     /\ ptReady /\ ~Damaged /\ ~Cyclic(Intact(featureFiles))
     => newestFeature = publishedFeatures /\ newestTransformation = publishedTransformations
  ]_nodeVars

\* README.md (GET /feature/<name>/<version>, GET /transformation/<name>/<version>)
\* says that a contract is fetched by name and version, with its address and its
\* owner: of a version in the catalogue the answer gives that version's address
\* and that version's owner, although the PT registry contract is asked for the
\* name alone; and the newest version is found whenever any version is.
AnswersAgree ==
  /\ \A n \in FeatureNames, a \in Addresses :
       getFeature(n, a) # NoRecord =>
         /\ GET_feature(n, a) = [code |-> "OK", address |-> a, owner |-> getFeature(n, a).owner]
         /\ GET_newestFeature(n) = GET_feature(n, a)
  /\ \A n \in TransformationNames, a \in Addresses :
       getTransformation(n, a) # NoRecord =>
         /\ GET_transformation(n, a) =
              [code |-> "OK", address |-> a, owner |-> getTransformation(n, a).owner]
         /\ GET_newestTransformation(n) = GET_transformation(n, a)

\* Every start ends with the server listening, whatever it finds in storage/ and
\* whether or not the PT contracts could be deployed (main.cpp).
ServesAgain == boot # "serving" ~> boot = "serving"
=============================================================================
