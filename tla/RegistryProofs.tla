--------------------------- MODULE RegistryProofs ---------------------------
(* Proofs about Registry, for any names, addresses, users and catalogue.    *)
EXTENDS Registry, TLAPS

\* A record is told apart from the mark of a missing one.
LEMMA RecordIsPresent ==
  /\ \A r \in FeatureRecord : r # NoRecord /\ r # NoFile /\ r # Truncated
  /\ \A r \in TransformationRecord : r # NoRecord /\ r # NoFile /\ r # Truncated
BY SentinelAssumption

\* The parts of a feature of the catalogue are of their types.
LEMMA CatalogueShape ==
  ASSUME NEW feature \in Features
  PROVE  /\ feature.name \in FeatureNames
         /\ \A i \in DOMAIN feature.dimensions :
              /\ feature.dimensions[i].feature_name \in FeatureNames
              /\ feature.dimensions[i].transformations \subseteq TransformationNames
         /\ Composed(feature) =>
              1 \in DOMAIN feature.dimensions /\ FirstName(feature) \in FeatureNames
<1>1. feature.name \in FeatureNames /\ feature.dimensions \in Seq(Dimension)
  BY CatalogueAssumption DEF Feature
<1>2. ASSUME NEW i \in DOMAIN feature.dimensions
      PROVE  feature.dimensions[i] \in Dimension
  BY <1>1
<1>3. Composed(feature) => 1 \in DOMAIN feature.dimensions
  BY <1>1 DEF Composed
<1> QED
  BY <1>1, <1>2, <1>3 DEF Dimension, FirstName

\* What a step of the specification is: one of the two registrations, a new
\* condition, or a refusal that touches no record and at most empties a file.
FeatureFileEmptied ==
  /\ featureFiles' \in [FeatureNames -> FeatureRecord \cup {NoFile, Truncated}]
  /\ unsavedFeatures' \subseteq FeatureNames
  /\ \A n \in FeatureNames :
       \/ /\ featureFiles'[n] = featureFiles[n]
          /\ n \in unsavedFeatures' <=> n \in unsavedFeatures
       \/ featureFiles'[n] = Truncated /\ n \in unsavedFeatures'

TransformationFileEmptied ==
  /\ transformationFiles' \in
       [TransformationNames -> TransformationRecord \cup {NoFile, Truncated}]
  /\ unsavedTransformations' \subseteq TransformationNames
  /\ \A n \in TransformationNames :
       \/ /\ transformationFiles'[n] = transformationFiles[n]
          /\ n \in unsavedTransformations' <=> n \in unsavedTransformations
       \/ transformationFiles'[n] = Truncated /\ n \in unsavedTransformations'

RefusalStep ==
  /\ featureBuckets' \subseteq FeatureNames
  /\ featureBuckets \subseteq featureBuckets'
  /\ transformationBuckets' \subseteq TransformationNames
  /\ transformationBuckets \subseteq transformationBuckets'
  /\ diverged' \in BOOLEAN
  /\ FeatureFileEmptied /\ TransformationFileEmptied
  /\ UNCHANGED <<features, newestFeature, ownedFeatures, transformations,
                 newestTransformation, ownedTransformations, conditionVars>>

ConditionStep ==
  /\ conditions' \in [ConditionNames -> SUBSET Addresses]
  /\ newestCondition' \in [ConditionNames -> Addresses \cup {NoAddress}]
  /\ UNCHANGED <<featureVars, transformationVars, diverged>>

FeatureStep ==
  \E address \in Addresses, feature \in Features, owner \in Users :
    /\ Deployable(isFeatureBucketEmpty(feature.name))
    /\ RegisterFeature(address, feature, owner)

TransformationStep ==
  \E address \in Addresses, transformation \in Transformations, owner \in Users :
    /\ Deployable(isTransformationBucketEmpty(transformation.name))
    /\ RegisterTransformation(address, transformation, owner)

\* Files that nobody touched are emptied nowhere.
LEMMA FilesUntouched ==
  ASSUME RegistryTypeOK
  PROVE  /\ UNCHANGED featureFileVars => FeatureFileEmptied
         /\ UNCHANGED transformationFileVars => TransformationFileEmptied
BY DEF RegistryTypeOK, featureFileVars, transformationFileVars, FeatureFileEmptied,
       TransformationFileEmptied

\* The refusals of a feature, and of a transformation, are refusal steps.
LEMMA FeatureRefusals ==
  ASSUME RegistryTypeOK,
         NEW address \in Addresses, NEW feature \in Features, NEW owner \in Users,
         addFeature(address, feature, owner)
  PROVE  RegisterFeature(address, feature, owner) \/ RefusalStep
<1> USE DEF featureVars, transformationVars
<1>1. feature.name \in FeatureNames
  BY CatalogueAssumption DEF Feature
<1>2. CASE RefuseUnsupportedFeature(feature)
  BY <1>2, FilesUntouched
  DEF RefuseUnsupportedFeature, registryVars, RegistryTypeOK, RefusalStep
<1>3. CASE DivergeOnFeature(feature)
  BY <1>3, FilesUntouched DEF DivergeOnFeature, RegistryTypeOK, RefusalStep
<1>4. CASE RefuseKnownFeature(address, feature)
  BY <1>4, FilesUntouched
  DEF RefuseKnownFeature, registryVars, RegistryTypeOK, RefusalStep
<1>5. CASE RefuseUntransformableFeature(address, feature)
  BY <1>1, <1>5, FilesUntouched
  DEF RefuseUntransformableFeature, KnownFeaturePassed, RegistryTypeOK, RefusalStep
<1>6. CASE RefuseUnstorableFeature(address, feature)
  <2>1. FeatureFileEmptied
    <3>1. CASE TruncateFeature(feature)
      BY <1>1, <3>1 DEF TruncateFeature, FeatureFileEmptied, RegistryTypeOK
    <3>2. CASE UNCHANGED featureFileVars
      BY <3>2, FilesUntouched
    <3> QED
      BY <1>6, <3>1, <3>2 DEF RefuseUnstorableFeature
  <2>2. TransformationFileEmptied
    BY <1>6, FilesUntouched DEF RefuseUnstorableFeature
  <2> QED
    BY <1>1, <1>6, <2>1, <2>2
    DEF RefuseUnstorableFeature, KnownFeaturePassed, RegistryTypeOK, RefusalStep
<1> QED
  BY <1>2, <1>3, <1>4, <1>5, <1>6 DEF addFeature

LEMMA TransformationRefusals ==
  ASSUME RegistryTypeOK,
         NEW address \in Addresses, NEW transformation \in Transformations,
         NEW owner \in Users, addTransformation(address, transformation, owner)
  PROVE  RegisterTransformation(address, transformation, owner) \/ RefusalStep
<1> USE DEF featureVars, transformationVars
<1>1. transformation.name \in TransformationNames
  BY CatalogueAssumption DEF Transformation
<1>2. CASE RefuseTransformation(address, transformation)
  BY <1>2, FilesUntouched
  DEF RefuseTransformation, registryVars, RegistryTypeOK, RefusalStep
<1>3. CASE RefuseUnstorableTransformation(address, transformation)
  <2>1. TransformationFileEmptied
    <3>1. CASE TruncateTransformation(transformation)
      BY <1>1, <3>1 DEF TruncateTransformation, TransformationFileEmptied, RegistryTypeOK
    <3>2. CASE UNCHANGED transformationFileVars
      BY <3>2, FilesUntouched
    <3> QED
      BY <1>3, <3>1, <3>2 DEF RefuseUnstorableTransformation
  <2>2. FeatureFileEmptied
    BY <1>3, FilesUntouched DEF RefuseUnstorableTransformation
  <2> QED
    BY <1>1, <1>3, <2>1, <2>2
    DEF RefuseUnstorableTransformation, NewTransformation, RegistryTypeOK, RefusalStep
<1> QED
  BY <1>2, <1>3 DEF addTransformation

\* Every step is one of those four.
LEMMA StepCases ==
  ASSUME RegistryTypeOK, [RegistryNext]_registryVars
  PROVE  FeatureStep \/ TransformationStep \/ ConditionStep \/ RefusalStep
<1>1. CASE UNCHANGED registryVars
  BY <1>1, FilesUntouched
  DEF registryVars, featureVars, transformationVars, RegistryTypeOK, RefusalStep
<1>2. ASSUME NEW address \in Addresses, NEW feature \in Features, NEW owner \in Users,
             Deployable(isFeatureBucketEmpty(feature.name)),
             addFeature(address, feature, owner)
      PROVE  FeatureStep \/ RefusalStep
  BY <1>2, FeatureRefusals DEF FeatureStep
<1>3. ASSUME NEW address \in Addresses, NEW transformation \in Transformations,
             NEW owner \in Users,
             Deployable(isTransformationBucketEmpty(transformation.name)),
             addTransformation(address, transformation, owner)
      PROVE  TransformationStep \/ RefusalStep
  BY <1>3, TransformationRefusals DEF TransformationStep
<1>4. ASSUME NEW address \in Addresses, NEW name \in ConditionNames,
             addCondition(address, name)
      PROVE  ConditionStep
  <2>1. UNCHANGED <<featureVars, transformationVars, diverged>>
    BY <1>4 DEF addCondition
  <2>2. /\ conditions' \in [ConditionNames -> SUBSET Addresses]
        /\ newestCondition' \in [ConditionNames -> Addresses \cup {NoAddress}]
    <3>1. /\ conditions \in [ConditionNames -> SUBSET Addresses]
          /\ newestCondition \in [ConditionNames -> Addresses \cup {NoAddress}]
      BY DEF RegistryTypeOK
    <3>2. CASE address \in conditions[name]
      BY <1>4, <3>1, <3>2 DEF addCondition, conditionVars
    <3>3. CASE address \notin conditions[name]
      BY <1>4, <3>1, <3>3 DEF addCondition
    <3> QED
      BY <3>2, <3>3
  <2> QED
    BY <2>1, <2>2 DEF ConditionStep
<1> QED
  BY <1>1, <1>2, <1>3, <1>4
  DEF RegistryNext, AddSomeFeature, AddSomeTransformation, AddSomeCondition

-----------------------------------------------------------------------------
(* Type correctness *)

LEMMA TypeInit == RegistryInit => RegistryTypeOK
<1> SUFFICES ASSUME RegistryInit PROVE RegistryTypeOK
  OBVIOUS
<1>1. features \in [FeatureNames -> [Addresses -> FeatureRecord \cup {NoRecord}]]
  BY DEF RegistryInit
<1>2. transformations \in
        [TransformationNames -> [Addresses -> TransformationRecord \cup {NoRecord}]]
  BY DEF RegistryInit
<1>3. /\ featureFiles \in [FeatureNames -> FeatureRecord \cup {NoFile, Truncated}]
      /\ transformationFiles \in
           [TransformationNames -> TransformationRecord \cup {NoFile, Truncated}]
  BY DEF RegistryInit
<1>4. /\ newestFeature \in [FeatureNames -> Addresses \cup {NoAddress}]
      /\ newestTransformation \in [TransformationNames -> Addresses \cup {NoAddress}]
      /\ newestCondition \in [ConditionNames -> Addresses \cup {NoAddress}]
  BY DEF RegistryInit
<1>5. /\ ownedFeatures \in [Users -> SUBSET FeatureNames]
      /\ ownedTransformations \in [Users -> SUBSET TransformationNames]
      /\ conditions \in [ConditionNames -> SUBSET Addresses]
  BY DEF RegistryInit
<1> QED
  BY <1>1, <1>2, <1>3, <1>4, <1>5 DEF RegistryInit, RegistryTypeOK

LEMMA TypeStep ==
  RegistryTypeOK /\ [RegistryNext]_registryVars => RegistryTypeOK'
<1> SUFFICES ASSUME RegistryTypeOK, [RegistryNext]_registryVars
             PROVE  RegistryTypeOK'
  OBVIOUS
<1> USE DEF featureVars, transformationVars, featureFileVars, transformationFileVars,
            conditionVars
<1>1. CASE FeatureStep
  <2> PICK address \in Addresses, feature \in Features, owner \in Users :
        RegisterFeature(address, feature, owner)
    BY <1>1 DEF FeatureStep
  <2> DEFINE record == [feature |-> feature, owner |-> owner]
  <2>1. feature.name \in FeatureNames /\ record \in FeatureRecord
    BY CatalogueAssumption DEF Feature, FeatureRecord
  <2>2. Written(record, featureFiles[feature.name])
          \subseteq FeatureRecord \cup {NoFile, Truncated}
    BY <2>1 DEF Written, RegistryTypeOK
  <2> HIDE DEF record
  <2>3. features' \in [FeatureNames -> [Addresses -> FeatureRecord \cup {NoRecord}]]
    BY <2>1 DEF RegisterFeature, RegistryTypeOK, record
  <2>4. /\ featureFiles' \in [FeatureNames -> FeatureRecord \cup {NoFile, Truncated}]
        /\ unsavedFeatures' \subseteq FeatureNames
    BY <2>1, <2>2 DEF RegisterFeature, StoreFeature, Unsaved, RegistryTypeOK, record
  <2> QED
    BY <2>1, <2>3, <2>4 DEF RegisterFeature, KnownFeaturePassed, OwnFeature, RegistryTypeOK
<1>2. CASE TransformationStep
  <2> PICK address \in Addresses, transformation \in Transformations, owner \in Users :
        RegisterTransformation(address, transformation, owner)
    BY <1>2 DEF TransformationStep
  <2> DEFINE record == [transformation |-> transformation, owner |-> owner]
  <2>1. transformation.name \in TransformationNames /\ record \in TransformationRecord
    BY CatalogueAssumption DEF Transformation, TransformationRecord
  <2>2. Written(record, transformationFiles[transformation.name])
          \subseteq TransformationRecord \cup {NoFile, Truncated}
    BY <2>1 DEF Written, RegistryTypeOK
  <2> HIDE DEF record
  <2>3. transformations' \in
          [TransformationNames -> [Addresses -> TransformationRecord \cup {NoRecord}]]
    BY <2>1 DEF RegisterTransformation, RegistryTypeOK, record
  <2>4. /\ transformationFiles' \in
             [TransformationNames -> TransformationRecord \cup {NoFile, Truncated}]
        /\ unsavedTransformations' \subseteq TransformationNames
    BY <2>1, <2>2
    DEF RegisterTransformation, StoreTransformation, Unsaved, RegistryTypeOK, record
  <2> QED
    BY <2>1, <2>3, <2>4 DEF RegisterTransformation, NewTransformation, RegistryTypeOK
<1>3. CASE ConditionStep
  BY <1>3 DEF ConditionStep, RegistryTypeOK
<1>4. CASE RefusalStep
  BY <1>4 DEF RefusalStep, FeatureFileEmptied, TransformationFileEmptied, RegistryTypeOK
<1> QED
  BY <1>1, <1>2, <1>3, <1>4, StepCases

\* Every map of the registry keeps its shape, whatever clients deploy.
THEOREM TypeCorrect == RegistrySpec => []RegistryTypeOK
BY TypeInit, TypeStep, PTL DEF RegistrySpec

-----------------------------------------------------------------------------
(* What the two registrations do, in the terms the invariants use *)

\* After a feature is registered its record is at its address, nothing else
\* moved, and no bucket became empty.
FeatureAdded(address, feature, owner, name, record) ==
  /\ feature \in Features
  /\ name = feature.name /\ name \in FeatureNames
  /\ record \in FeatureRecord /\ record # NoRecord
  /\ record.feature = feature /\ record.owner = owner
  /\ address # NoAddress
  /\ \A n \in FeatureNames, a \in Addresses :
       getFeature(n, a)' =
         IF n = name /\ a = address THEN record ELSE getFeature(n, a)
  /\ \A n \in FeatureNames :
       isFeatureBucketEmpty(n)' <=> (n # name /\ isFeatureBucketEmpty(n))
  /\ getNewestFeature(name)' = record
  /\ \A n \in FeatureNames \ {name} :
       /\ getNewestFeature(n)' = getNewestFeature(n)
       /\ newestFeature'[n] = newestFeature[n]

LEMMA FeatureEffect ==
  ASSUME RegistryTypeOK,
         NEW address \in Addresses, NEW feature \in Features, NEW owner \in Users,
         RegisterFeature(address, feature, owner)
  PROVE  FeatureAdded(address, feature, owner, feature.name,
                      [feature |-> feature, owner |-> owner])
<1> DEFINE name   == feature.name
           record == [feature |-> feature, owner |-> owner]
<1>1. name \in FeatureNames /\ record \in FeatureRecord
  BY CatalogueAssumption DEF Feature, FeatureRecord
<1>2. record # NoRecord /\ record.feature = feature /\ record.owner = owner
  BY <1>1, RecordIsPresent
<1>3. address # NoAddress
  BY SentinelAssumption
<1> HIDE DEF record
<1>4. \A n \in FeatureNames, a \in Addresses :
        getFeature(n, a)' =
          IF n = name /\ a = address THEN record ELSE getFeature(n, a)
  BY <1>1 DEF RegisterFeature, RegistryTypeOK, getFeature, record
<1>5. \A n \in FeatureNames :
        isFeatureBucketEmpty(n)' <=> (n # name /\ isFeatureBucketEmpty(n))
  BY <1>1, <1>2, <1>4 DEF isFeatureBucketEmpty, getFeature
<1>6. /\ newestFeature'[name] = address
      /\ \A n \in FeatureNames \ {name} : newestFeature'[n] = newestFeature[n]
  BY <1>1 DEF RegisterFeature, RegistryTypeOK
<1>7. getNewestFeature(name)' = record
  BY <1>1, <1>3, <1>4, <1>6 DEF getNewestFeature
<1>8. \A n \in FeatureNames \ {name} : getNewestFeature(n)' = getNewestFeature(n)
  BY <1>4, <1>6 DEF getNewestFeature, RegistryTypeOK
<1> QED
  BY <1>1, <1>2, <1>3, <1>4, <1>5, <1>6, <1>7, <1>8 DEF FeatureAdded, record

\* The same for a transformation.
TransformationAdded(address, transformation, owner, name, record) ==
  /\ name = transformation.name /\ name \in TransformationNames
  /\ record \in TransformationRecord /\ record # NoRecord
  /\ record.transformation = transformation /\ record.owner = owner
  /\ address # NoAddress
  /\ \A n \in TransformationNames, a \in Addresses :
       getTransformation(n, a)' =
         IF n = name /\ a = address THEN record ELSE getTransformation(n, a)
  /\ \A n \in TransformationNames :
       isTransformationBucketEmpty(n)' <=>
         (n # name /\ isTransformationBucketEmpty(n))
  /\ getNewestTransformation(name)' = record
  /\ \A n \in TransformationNames \ {name} :
       /\ getNewestTransformation(n)' = getNewestTransformation(n)
       /\ newestTransformation'[n] = newestTransformation[n]

LEMMA TransformationEffect ==
  ASSUME RegistryTypeOK,
         NEW address \in Addresses, NEW transformation \in Transformations,
         NEW owner \in Users,
         RegisterTransformation(address, transformation, owner)
  PROVE  TransformationAdded(address, transformation, owner, transformation.name,
                             [transformation |-> transformation, owner |-> owner])
<1> DEFINE name   == transformation.name
           record == [transformation |-> transformation, owner |-> owner]
<1>1. name \in TransformationNames /\ record \in TransformationRecord
  BY CatalogueAssumption DEF Transformation, TransformationRecord
<1>2. record # NoRecord /\ record.transformation = transformation /\ record.owner = owner
  BY <1>1, RecordIsPresent
<1>3. address # NoAddress
  BY SentinelAssumption
<1> HIDE DEF record
<1>4. \A n \in TransformationNames, a \in Addresses :
        getTransformation(n, a)' =
          IF n = name /\ a = address THEN record ELSE getTransformation(n, a)
  BY <1>1 DEF RegisterTransformation, RegistryTypeOK, getTransformation, record
<1>5. \A n \in TransformationNames :
        isTransformationBucketEmpty(n)' <=> (n # name /\ isTransformationBucketEmpty(n))
  BY <1>1, <1>2, <1>4 DEF isTransformationBucketEmpty, getTransformation
<1>6. /\ newestTransformation'[name] = address
      /\ \A n \in TransformationNames \ {name} :
           newestTransformation'[n] = newestTransformation[n]
  BY <1>1 DEF RegisterTransformation, RegistryTypeOK
<1>7. getNewestTransformation(name)' = record
  BY <1>1, <1>3, <1>4, <1>6 DEF getNewestTransformation
<1>8. \A n \in TransformationNames \ {name} :
        getNewestTransformation(n)' = getNewestTransformation(n)
  BY <1>4, <1>6 DEF getNewestTransformation, RegistryTypeOK
<1> QED
  BY <1>1, <1>2, <1>3, <1>4, <1>5, <1>6, <1>7, <1>8 DEF TransformationAdded, record

\* A step that is no registration leaves every look-up as it was.
LEMMA LookupsStand ==
  ASSUME ConditionStep \/ RefusalStep
  PROVE  /\ UNCHANGED <<features, newestFeature, ownedFeatures, transformations,
                        newestTransformation, ownedTransformations>>
         /\ featureBuckets \subseteq featureBuckets'
         /\ transformationBuckets \subseteq transformationBuckets'
BY DEF ConditionStep, RefusalStep, featureVars, transformationVars

-----------------------------------------------------------------------------
(* Safety *)

LEMMA NewestStep ==
  ASSUME RegistryTypeOK, NewestIsRegistered, [RegistryNext]_registryVars
  PROVE  NewestIsRegistered'
<1>1. CASE FeatureStep
  <2> PICK address \in Addresses, feature \in Features, owner \in Users :
        RegisterFeature(address, feature, owner)
    BY <1>1 DEF FeatureStep
  <2> DEFINE name   == feature.name
             record == [feature |-> feature, owner |-> owner]
  <2>0. FeatureAdded(address, feature, owner, name, record)
    BY FeatureEffect
  <2>1. UNCHANGED transformationVars
    BY DEF RegisterFeature
  <2>2. featureBuckets' = featureBuckets \cup {name} /\ newestFeature'[name] = address
    BY <2>0 DEF RegisterFeature, KnownFeaturePassed, RegistryTypeOK, FeatureAdded
  <2> HIDE DEF name, record
  <2>3. ASSUME NEW n \in FeatureNames
        PROVE  /\ (newestFeature'[n] # NoAddress) <=> ~isFeatureBucketEmpty(n)'
               /\ newestFeature'[n] # NoAddress =>
                    /\ n \in featureBuckets'
                    /\ getNewestFeature(n)' # NoRecord
                    /\ getNewestFeature(n)'.feature.name = n
    BY <2>0, <2>2 DEF NewestIsRegistered, FeatureAdded
  <2> QED
    BY <2>1, <2>3
    DEF NewestIsRegistered, transformationVars, isTransformationBucketEmpty,
        getNewestTransformation, getTransformation
<1>2. CASE TransformationStep
  <2> PICK address \in Addresses, transformation \in Transformations, owner \in Users :
        RegisterTransformation(address, transformation, owner)
    BY <1>2 DEF TransformationStep
  <2> DEFINE name   == transformation.name
             record == [transformation |-> transformation, owner |-> owner]
  <2>0. TransformationAdded(address, transformation, owner, name, record)
    BY TransformationEffect
  <2>1. UNCHANGED featureVars
    BY DEF RegisterTransformation
  <2>2. /\ transformationBuckets' = transformationBuckets \cup {name}
        /\ newestTransformation'[name] = address
    BY <2>0 DEF RegisterTransformation, NewTransformation, RegistryTypeOK,
                TransformationAdded
  <2> HIDE DEF name, record
  <2>3. ASSUME NEW n \in TransformationNames
        PROVE  /\ (newestTransformation'[n] # NoAddress) <=> ~isTransformationBucketEmpty(n)'
               /\ newestTransformation'[n] # NoAddress =>
                    /\ n \in transformationBuckets'
                    /\ getNewestTransformation(n)' # NoRecord
                    /\ getNewestTransformation(n)'.transformation.name = n
    BY <2>0, <2>2 DEF NewestIsRegistered, TransformationAdded
  <2> QED
    BY <2>1, <2>3
    DEF NewestIsRegistered, featureVars, isFeatureBucketEmpty, getNewestFeature, getFeature
<1>3. CASE ConditionStep \/ RefusalStep
  BY <1>3, LookupsStand
  DEF NewestIsRegistered, isFeatureBucketEmpty, getNewestFeature, getFeature,
      isTransformationBucketEmpty, getNewestTransformation, getTransformation
<1> QED
  BY <1>1, <1>2, <1>3, StepCases

\* What one name's file may hold, for either kind of contract.
FeatureFileOK(n) ==
  featureFiles[n] \in
    IF n \in unsavedFeatures
    THEN {NoFile, Truncated} \cup ({getFeature(n, a) : a \in Addresses} \ {NoRecord})
    ELSE IF newestFeature[n] = NoAddress THEN {NoFile} ELSE {getNewestFeature(n)}

TransformationFileOK(n) ==
  transformationFiles[n] \in
    IF n \in unsavedTransformations
    THEN {NoFile, Truncated} \cup ({getTransformation(n, a) : a \in Addresses} \ {NoRecord})
    ELSE IF newestTransformation[n] = NoAddress THEN {NoFile}
    ELSE {getNewestTransformation(n)}

\* A file was in order holds a registered version, nothing, or was truncated.
LEMMA FileOfVersions ==
  ASSUME RegistryTypeOK
  PROVE  /\ \A n \in FeatureNames :
              FeatureFileOK(n) /\ featureFiles[n] \notin {NoFile, Truncated} =>
                \E a \in Addresses :
                  getFeature(n, a) # NoRecord /\ featureFiles[n] = getFeature(n, a)
         /\ \A n \in TransformationNames :
              TransformationFileOK(n) /\ transformationFiles[n] \notin {NoFile, Truncated} =>
                \E a \in Addresses :
                  /\ getTransformation(n, a) # NoRecord
                  /\ transformationFiles[n] = getTransformation(n, a)
<1>1. \A r \in FeatureRecord \cup TransformationRecord : r # NoRecord
  BY SentinelAssumption
<1>2. ASSUME NEW n \in FeatureNames, FeatureFileOK(n),
             featureFiles[n] \notin {NoFile, Truncated}
      PROVE  \E a \in Addresses :
               getFeature(n, a) # NoRecord /\ featureFiles[n] = getFeature(n, a)
  <2>1. featureFiles[n] # NoRecord
    BY <1>1, <1>2 DEF RegistryTypeOK
  <2>2. CASE n \in unsavedFeatures
    BY <1>2, <2>2 DEF FeatureFileOK
  <2>3. CASE n \notin unsavedFeatures
    BY <1>2, <2>1, <2>3 DEF FeatureFileOK, getNewestFeature, RegistryTypeOK
  <2> QED
    BY <2>2, <2>3
<1>3. ASSUME NEW n \in TransformationNames, TransformationFileOK(n),
             transformationFiles[n] \notin {NoFile, Truncated}
      PROVE  \E a \in Addresses :
               /\ getTransformation(n, a) # NoRecord
               /\ transformationFiles[n] = getTransformation(n, a)
  <2>1. transformationFiles[n] # NoRecord
    BY <1>1, <1>3 DEF RegistryTypeOK
  <2>2. CASE n \in unsavedTransformations
    BY <1>3, <2>2 DEF TransformationFileOK
  <2>3. CASE n \notin unsavedTransformations
    BY <1>3, <2>1, <2>3 DEF TransformationFileOK, getNewestTransformation, RegistryTypeOK
  <2> QED
    BY <2>2, <2>3
<1> QED
  BY <1>2, <1>3

LEMMA FilesStep ==
  ASSUME RegistryTypeOK, FilesFollowNewest, [RegistryNext]_registryVars
  PROVE  FilesFollowNewest'
<1>0. FilesFollowNewest <=> /\ \A n \in FeatureNames : FeatureFileOK(n)
                            /\ \A n \in TransformationNames : TransformationFileOK(n)
  BY DEF FilesFollowNewest, FeatureFileOK, TransformationFileOK
<1>1. (/\ \A n \in FeatureNames : FeatureFileOK(n)
       /\ \A n \in TransformationNames : TransformationFileOK(n))' => FilesFollowNewest'
  BY DEF FilesFollowNewest, FeatureFileOK, TransformationFileOK
<1>2. CASE FeatureStep
  <2> PICK address \in Addresses, feature \in Features, owner \in Users :
        RegisterFeature(address, feature, owner)
    BY <1>2 DEF FeatureStep
  <2> DEFINE name   == feature.name
             record == [feature |-> feature, owner |-> owner]
  <2>0. FeatureAdded(address, feature, owner, name, record)
    BY FeatureEffect
  <2>1. UNCHANGED transformationVars
    BY DEF RegisterFeature
  <2>2. PICK content \in Written(record, featureFiles[name]) :
          /\ featureFiles' = [featureFiles EXCEPT ![name] = content]
          /\ unsavedFeatures' = Unsaved(unsavedFeatures, name, record, content)
    BY DEF RegisterFeature, StoreFeature
  <2>3. newestFeature'[name] = address
    BY <2>0 DEF RegisterFeature, RegistryTypeOK, FeatureAdded
  <2> HIDE DEF name, record
  <2>4. FeatureFileOK(name)'
    <3>1. featureFiles'[name] = content
      BY <2>0, <2>2 DEF FeatureAdded, RegistryTypeOK
    <3>2. CASE content = record
      BY <2>0, <2>2, <2>3, <3>1, <3>2 DEF Unsaved, FeatureFileOK, FeatureAdded
    <3>3. CASE content # record
      <4>1. name \in unsavedFeatures'
        BY <2>2, <3>3 DEF Unsaved
      <4>2. CASE content \in {NoFile, Truncated}
        BY <3>1, <4>1, <4>2 DEF FeatureFileOK
      <4>3. CASE content \notin {NoFile, Truncated}
        <5>1. content = featureFiles[name]
          BY <2>2, <3>3, <4>3 DEF Written
        <5>2. PICK a \in Addresses :
                getFeature(name, a) # NoRecord /\ content = getFeature(name, a)
          BY <1>0, <2>0, <4>3, <5>1, FileOfVersions DEF FeatureAdded
        <5>3. a # address
          BY <5>2 DEF RegisterFeature, KnownFeaturePassed, FeatureKnown, name
        <5>4. getFeature(name, a)' = content
          BY <2>0, <5>2, <5>3 DEF FeatureAdded
        <5> QED
          BY <3>1, <4>1, <5>2, <5>4 DEF FeatureFileOK
      <4> QED
        BY <4>2, <4>3
    <3> QED
      BY <3>2, <3>3
  <2>5. ASSUME NEW n \in FeatureNames, n # name
        PROVE  FeatureFileOK(n)'
    <3>1. /\ featureFiles'[n] = featureFiles[n]
          /\ n \in unsavedFeatures' <=> n \in unsavedFeatures
      BY <2>0, <2>2, <2>5 DEF Unsaved, FeatureAdded, RegistryTypeOK
    <3>2. /\ newestFeature'[n] = newestFeature[n]
          /\ getNewestFeature(n)' = getNewestFeature(n)
          /\ \A a \in Addresses : getFeature(n, a)' = getFeature(n, a)
      BY <2>0, <2>5 DEF FeatureAdded
    <3>3. {getFeature(n, a)' : a \in Addresses} = {getFeature(n, a) : a \in Addresses}
      BY <3>2
    <3> QED
      BY <1>0, <3>1, <3>2, <3>3 DEF FeatureFileOK
  <2>6. ASSUME NEW n \in TransformationNames
        PROVE  TransformationFileOK(n)'
    BY <1>0, <2>1
    DEF TransformationFileOK, transformationVars, transformationFileVars,
        getNewestTransformation, getTransformation
  <2> QED
    BY <1>1, <2>4, <2>5, <2>6
<1>3. CASE TransformationStep
  <2> PICK address \in Addresses, transformation \in Transformations, owner \in Users :
        RegisterTransformation(address, transformation, owner)
    BY <1>3 DEF TransformationStep
  <2> DEFINE name   == transformation.name
             record == [transformation |-> transformation, owner |-> owner]
  <2>0. TransformationAdded(address, transformation, owner, name, record)
    BY TransformationEffect
  <2>1. UNCHANGED featureVars
    BY DEF RegisterTransformation
  <2>2. PICK content \in Written(record, transformationFiles[name]) :
          /\ transformationFiles' = [transformationFiles EXCEPT ![name] = content]
          /\ unsavedTransformations' = Unsaved(unsavedTransformations, name, record, content)
    BY DEF RegisterTransformation, StoreTransformation
  <2>3. newestTransformation'[name] = address
    BY <2>0 DEF RegisterTransformation, RegistryTypeOK, TransformationAdded
  <2> HIDE DEF name, record
  <2>4. TransformationFileOK(name)'
    <3>1. transformationFiles'[name] = content
      BY <2>0, <2>2 DEF TransformationAdded, RegistryTypeOK
    <3>2. CASE content = record
      BY <2>0, <2>2, <2>3, <3>1, <3>2 DEF Unsaved, TransformationFileOK, TransformationAdded
    <3>3. CASE content # record
      <4>1. name \in unsavedTransformations'
        BY <2>2, <3>3 DEF Unsaved
      <4>2. CASE content \in {NoFile, Truncated}
        BY <3>1, <4>1, <4>2 DEF TransformationFileOK
      <4>3. CASE content \notin {NoFile, Truncated}
        <5>1. content = transformationFiles[name]
          BY <2>2, <3>3, <4>3 DEF Written
        <5>2. PICK a \in Addresses :
                getTransformation(name, a) # NoRecord /\ content = getTransformation(name, a)
          BY <1>0, <2>0, <4>3, <5>1, FileOfVersions DEF TransformationAdded
        <5>3. a # address
          BY <5>2 DEF RegisterTransformation, NewTransformation, name
        <5>4. getTransformation(name, a)' = content
          BY <2>0, <5>2, <5>3 DEF TransformationAdded
        <5> QED
          BY <3>1, <4>1, <5>2, <5>4 DEF TransformationFileOK
      <4> QED
        BY <4>2, <4>3
    <3> QED
      BY <3>2, <3>3
  <2>5. ASSUME NEW n \in TransformationNames, n # name
        PROVE  TransformationFileOK(n)'
    <3>1. /\ transformationFiles'[n] = transformationFiles[n]
          /\ n \in unsavedTransformations' <=> n \in unsavedTransformations
      BY <2>0, <2>2, <2>5 DEF Unsaved, TransformationAdded, RegistryTypeOK
    <3>2. /\ newestTransformation'[n] = newestTransformation[n]
          /\ getNewestTransformation(n)' = getNewestTransformation(n)
          /\ \A a \in Addresses : getTransformation(n, a)' = getTransformation(n, a)
      BY <2>0, <2>5 DEF TransformationAdded
    <3>3. {getTransformation(n, a)' : a \in Addresses}
            = {getTransformation(n, a) : a \in Addresses}
      BY <3>2
    <3> QED
      BY <1>0, <3>1, <3>2, <3>3 DEF TransformationFileOK
  <2>6. ASSUME NEW n \in FeatureNames
        PROVE  FeatureFileOK(n)'
    BY <1>0, <2>1
    DEF FeatureFileOK, featureVars, featureFileVars, getNewestFeature, getFeature
  <2> QED
    BY <1>1, <2>4, <2>5, <2>6
<1>4. CASE ConditionStep \/ RefusalStep
  <2>1. /\ UNCHANGED <<features, newestFeature, transformations, newestTransformation>>
        /\ FeatureFileEmptied /\ TransformationFileEmptied
    BY <1>4, FilesUntouched DEF RefusalStep, ConditionStep, featureVars, transformationVars
  <2>2. ASSUME NEW n \in FeatureNames PROVE FeatureFileOK(n)'
    <3>1. getNewestFeature(n)' = getNewestFeature(n)
      BY <2>1 DEF getNewestFeature, getFeature
    <3>2. {getFeature(n, a) : a \in Addresses}' = {getFeature(n, a) : a \in Addresses}
      BY <2>1 DEF getFeature
    <3>3. CASE featureFiles'[n] = Truncated /\ n \in unsavedFeatures'
      BY <3>3 DEF FeatureFileOK
    <3>4. CASE /\ featureFiles'[n] = featureFiles[n]
               /\ n \in unsavedFeatures' <=> n \in unsavedFeatures
      BY <1>0, <2>1, <3>1, <3>2, <3>4 DEF FeatureFileOK
    <3> QED
      BY <2>1, <3>3, <3>4 DEF FeatureFileEmptied
  <2>3. ASSUME NEW n \in TransformationNames PROVE TransformationFileOK(n)'
    <3>1. getNewestTransformation(n)' = getNewestTransformation(n)
      BY <2>1 DEF getNewestTransformation, getTransformation
    <3>2. {getTransformation(n, a) : a \in Addresses}'
            = {getTransformation(n, a) : a \in Addresses}
      BY <2>1 DEF getTransformation
    <3>3. CASE transformationFiles'[n] = Truncated /\ n \in unsavedTransformations'
      BY <3>3 DEF TransformationFileOK
    <3>4. CASE /\ transformationFiles'[n] = transformationFiles[n]
               /\ n \in unsavedTransformations' <=> n \in unsavedTransformations
      BY <1>0, <2>1, <3>1, <3>2, <3>4 DEF TransformationFileOK
    <3> QED
      BY <2>1, <3>3, <3>4 DEF TransformationFileEmptied
  <2> QED
    BY <1>1, <2>2, <2>3
<1> QED
  BY <1>2, <1>3, <1>4, StepCases

\* Both kinds of reference of a registered version stay answered: no bucket
\* ever becomes empty again, and the new record's references were checked.
LEMMA ReferencesStep ==
  ASSUME RegistryTypeOK, TransformationsClosed, FirstSubFeaturesClosed,
         [RegistryNext]_registryVars
  PROVE  TransformationsClosed' /\ FirstSubFeaturesClosed'
<1>1. CASE FeatureStep
  <2> PICK address \in Addresses, feature \in Features, owner \in Users :
        RegisterFeature(address, feature, owner)
    BY <1>1 DEF FeatureStep
  <2> DEFINE name   == feature.name
             record == [feature |-> feature, owner |-> owner]
  <2>0. FeatureAdded(address, feature, owner, name, record)
    BY FeatureEffect
  <2> HIDE DEF name, record
  <2>1. \A t : isTransformationBucketEmpty(t)' <=> isTransformationBucketEmpty(t)
    BY DEF RegisterFeature, transformationVars, isTransformationBucketEmpty
  <2>2. TransformationsExist(feature) /\ checkIfSubFeaturesExist(feature)
    BY DEF RegisterFeature, KnownFeaturePassed
  <2>3. Composed(feature) => ~isFeatureBucketEmpty(FirstName(feature))
    <3> SUFFICES ASSUME Composed(feature), isFeatureBucketEmpty(FirstName(feature))
                 PROVE  FALSE
      OBVIOUS
    <3>1. FirstName(feature) \in FeatureNames
      BY CatalogueShape
    <3>2. PICK names \in SUBSET FeatureNames :
            FirstName(feature) \in names /\ Followed(names) /\
              \A n \in names : ~isFeatureBucketEmpty(n)
      BY <2>2 DEF checkIfSubFeaturesExist, SubFeatureMissing
    <3> QED
      BY <3>2
  <2>4. ASSUME NEW n \in FeatureNames, NEW a \in Addresses
        PROVE  (getFeature(n, a) # NoRecord => TransformationsExist(getFeature(n, a).feature))'
    BY <2>0, <2>1, <2>2 DEF TransformationsClosed, TransformationsExist, FeatureAdded
  <2>5. ASSUME NEW n \in FeatureNames, NEW a \in Addresses
        PROVE  (/\ getFeature(n, a) # NoRecord
                /\ Composed(getFeature(n, a).feature)
                => ~isFeatureBucketEmpty(FirstName(getFeature(n, a).feature)))'
    <3>1. CASE n = name /\ a = address
      <4>1. getFeature(n, a)' = record /\ record.feature = feature
        BY <2>0, <3>1 DEF FeatureAdded
      <4>2. Composed(feature) => FirstName(feature) \in FeatureNames
        BY CatalogueShape
      <4>3. Composed(feature) => ~isFeatureBucketEmpty(FirstName(feature))'
        BY <2>0, <2>3, <4>2 DEF FeatureAdded
      <4> QED
        BY <4>1, <4>3 DEF Composed, FirstName, isFeatureBucketEmpty
    <3>2. CASE ~(n = name /\ a = address)
      <4> PICK old : old = getFeature(n, a)
        OBVIOUS
      <4>1. getFeature(n, a)' = old
        BY <2>0, <3>2 DEF FeatureAdded
      <4> SUFFICES ASSUME old # NoRecord, Composed(old.feature)
                   PROVE  ~isFeatureBucketEmpty(FirstName(old.feature))'
        BY <4>1 DEF Composed, FirstName, isFeatureBucketEmpty
      <4>2. old.feature \in Features
        BY DEF RegistryTypeOK, getFeature, FeatureRecord
      <4>3. FirstName(old.feature) \in FeatureNames
        BY <4>2, CatalogueShape
      <4> QED
        BY <2>0, <4>3 DEF FirstSubFeaturesClosed, FeatureAdded
    <3> QED
      BY <3>1, <3>2
  <2> QED
    BY <2>4, <2>5 DEF TransformationsClosed, TransformationsExist, FirstSubFeaturesClosed
<1>2. CASE TransformationStep
  <2> PICK address \in Addresses, transformation \in Transformations, owner \in Users :
        RegisterTransformation(address, transformation, owner)
    BY <1>2 DEF TransformationStep
  <2>1. UNCHANGED features
    BY DEF RegisterTransformation, featureVars
  <2>2. ASSUME NEW feature \in Features, TransformationsExist(feature)
        PROVE  TransformationsExist(feature)'
    <3> SUFFICES ASSUME NEW i \in DOMAIN feature.dimensions,
                        NEW t \in feature.dimensions[i].transformations
                 PROVE  ~isTransformationBucketEmpty(t)'
      BY DEF TransformationsExist
    <3>1. t \in TransformationNames
      BY CatalogueShape
    <3> QED
      BY <2>2, <3>1, TransformationEffect DEF TransformationsExist, TransformationAdded
  <2>3. \A n \in FeatureNames, a \in Addresses :
          getFeature(n, a) # NoRecord => getFeature(n, a).feature \in Features
    BY DEF RegistryTypeOK, getFeature, FeatureRecord
  <2>4. \A n \in FeatureNames, a \in Addresses : getFeature(n, a)' = getFeature(n, a)
    BY <2>1 DEF getFeature
  <2>5. TransformationsClosed'
    BY <2>2, <2>3, <2>4 DEF TransformationsClosed, TransformationsExist
  <2>6. FirstSubFeaturesClosed'
    BY <2>1 DEF FirstSubFeaturesClosed, isFeatureBucketEmpty, getFeature, FirstName, Composed
  <2> QED
    BY <2>5, <2>6
<1>3. CASE ConditionStep \/ RefusalStep
  BY <1>3, LookupsStand
  DEF TransformationsClosed, FirstSubFeaturesClosed, TransformationsExist, Composed,
      FirstName, isFeatureBucketEmpty, isTransformationBucketEmpty, getFeature
<1> QED
  BY <1>1, <1>2, <1>3, StepCases

LEMMA OwnedStep ==
  ASSUME RegistryTypeOK, OwnedMatchesRecords, [RegistryNext]_registryVars
  PROVE  OwnedMatchesRecords'
<1>1. CASE FeatureStep
  <2> PICK address \in Addresses, feature \in Features, owner \in Users :
        RegisterFeature(address, feature, owner)
    BY <1>1 DEF FeatureStep
  <2> DEFINE name   == feature.name
             record == [feature |-> feature, owner |-> owner]
  <2>0. FeatureAdded(address, feature, owner, name, record)
    BY FeatureEffect
  <2>1. /\ UNCHANGED transformationVars
        /\ ownedFeatures' = [ownedFeatures EXCEPT ![owner] = @ \cup {name}]
        /\ getFeature(name, address) = NoRecord
    BY DEF RegisterFeature, KnownFeaturePassed, FeatureKnown, OwnFeature
  <2> HIDE DEF name, record
  <2>2. ASSUME NEW u \in Users, NEW n \in FeatureNames
        PROVE  (n \in getOwnedFeatures(u))' <=>
                 (\E a \in Addresses :
                    getFeature(n, a) # NoRecord /\ getFeature(n, a).owner = u)'
    <3> DEFINE Owns == \E a \in Addresses :
                         getFeature(n, a) # NoRecord /\ getFeature(n, a).owner = u
    <3>1. n \in getOwnedFeatures(u) <=> Owns
      BY DEF OwnedMatchesRecords
    <3>2. (n \in getOwnedFeatures(u))' <=>
            (n \in getOwnedFeatures(u) \/ (n = name /\ u = owner))
      BY <2>1 DEF getOwnedFeatures, RegistryTypeOK
    <3>3. Owns' <=> (Owns \/ (n = name /\ u = owner))
      BY <2>0, <2>1 DEF FeatureAdded
    <3> QED
      BY <3>1, <3>2, <3>3
  <2>3. \A u \in Users : getOwnedFeatures(u)' \subseteq FeatureNames
    BY <2>0, <2>1 DEF getOwnedFeatures, RegistryTypeOK, FeatureAdded
  <2> QED
    BY <2>1, <2>2, <2>3
    DEF OwnedMatchesRecords, transformationVars, getOwnedTransformations, getTransformation
<1>2. CASE TransformationStep
  <2> PICK address \in Addresses, transformation \in Transformations, owner \in Users :
        RegisterTransformation(address, transformation, owner)
    BY <1>2 DEF TransformationStep
  <2> DEFINE name   == transformation.name
             record == [transformation |-> transformation, owner |-> owner]
  <2>0. TransformationAdded(address, transformation, owner, name, record)
    BY TransformationEffect
  <2>1. /\ UNCHANGED featureVars
        /\ ownedTransformations' = [ownedTransformations EXCEPT ![owner] = @ \cup {name}]
        /\ getTransformation(name, address) = NoRecord
    BY DEF RegisterTransformation, NewTransformation
  <2> HIDE DEF name, record
  <2>2. ASSUME NEW u \in Users, NEW n \in TransformationNames
        PROVE  (n \in getOwnedTransformations(u))' <=>
                 (\E a \in Addresses :
                    getTransformation(n, a) # NoRecord /\ getTransformation(n, a).owner = u)'
    <3> DEFINE Owns == \E a \in Addresses :
                         getTransformation(n, a) # NoRecord /\ getTransformation(n, a).owner = u
    <3>1. n \in getOwnedTransformations(u) <=> Owns
      BY DEF OwnedMatchesRecords
    <3>2. (n \in getOwnedTransformations(u))' <=>
            (n \in getOwnedTransformations(u) \/ (n = name /\ u = owner))
      BY <2>1 DEF getOwnedTransformations, RegistryTypeOK
    <3>3. Owns' <=> (Owns \/ (n = name /\ u = owner))
      BY <2>0, <2>1 DEF TransformationAdded
    <3> QED
      BY <3>1, <3>2, <3>3
  <2>3. \A u \in Users : getOwnedTransformations(u)' \subseteq TransformationNames
    BY <2>0, <2>1 DEF getOwnedTransformations, RegistryTypeOK, TransformationAdded
  <2> QED
    BY <2>1, <2>2, <2>3 DEF OwnedMatchesRecords, featureVars, getOwnedFeatures, getFeature
<1>3. CASE ConditionStep \/ RefusalStep
  BY <1>3, LookupsStand, StepCases
  DEF OwnedMatchesRecords, getOwnedFeatures, getOwnedTransformations, getFeature,
      getTransformation
<1> QED
  BY <1>1, <1>2, <1>3, StepCases

-----------------------------------------------------------------------------
(* Termination of the check, while a name is deployed once *)

\* No non-empty set of names keeps the chain of first sub-features for ever.
NoCycle ==
  \A names \in SUBSET FeatureNames :
    ~(names # {} /\ Followed(names) /\ \A n \in names : Continues(n))

\* Without a cycle no check diverges.
LEMMA NoCycleNoDivergence ==
  ASSUME NoCycle PROVE \A feature \in Features : ~CheckDiverges(feature)
BY DEF NoCycle, CheckDiverges

\* A name deployed for the first time closes no cycle: what it refers to is
\* registered, and nothing registered refers to it.
LEMMA NoCycleStep ==
  ASSUME ~Reregistration, RegistryTypeOK, NewestIsRegistered, FirstSubFeaturesClosed,
         NoCycle, [RegistryNext]_registryVars
  PROVE  NoCycle'
<1>1. CASE FeatureStep
  <2> PICK address \in Addresses, feature \in Features, owner \in Users :
        Deployable(isFeatureBucketEmpty(feature.name)) /\
        RegisterFeature(address, feature, owner)
    BY <1>1 DEF FeatureStep
  <2> DEFINE name   == feature.name
             record == [feature |-> feature, owner |-> owner]
  <2>0. FeatureAdded(address, feature, owner, name, record)
    BY FeatureEffect
  <2>1. isFeatureBucketEmpty(name)
    BY DEF Deployable
  <2>2. checkIfSubFeaturesExist(feature)
    BY DEF RegisterFeature, KnownFeaturePassed
  <2> HIDE DEF name, record
  <2>3. \A n \in FeatureNames \ {name} :
          (Continues(n)' <=> Continues(n)) /\ NextName(n)' = NextName(n)
    BY <2>0 DEF FeatureAdded, Continues, NextName, Composed, FirstName
  <2>4. (Continues(name)' => Composed(feature)) /\ NextName(name)' = FirstName(feature)
    BY <2>0 DEF FeatureAdded, Continues, NextName, Composed, FirstName
  <2>5. Composed(feature) => FirstName(feature) # name
    <3> SUFFICES ASSUME Composed(feature), FirstName(feature) = name PROVE FALSE
      OBVIOUS
    <3>1. {name} \in SUBSET FeatureNames /\ ~Continues(name)
      BY <2>0, <2>1
      DEF FeatureAdded, Continues, getNewestFeature, isFeatureBucketEmpty, RegistryTypeOK,
          getFeature
    <3>2. Followed({name})
      BY <3>1 DEF Followed
    <3>3. SubFeatureMissing(feature)
      <4> SUFFICES ASSUME NEW names \in SUBSET FeatureNames, name \in names
                   PROVE  \E n \in names : isFeatureBucketEmpty(n)
        BY DEF SubFeatureMissing
      <4> QED
        BY <2>1
    <3> QED
      BY <2>2, <3>3 DEF checkIfSubFeaturesExist
  <2>6. ASSUME NEW n \in FeatureNames, Continues(n)
        PROVE  NextName(n) # name
    <3>1. /\ newestFeature[n] \in Addresses
          /\ getNewestFeature(n) = getFeature(n, newestFeature[n])
      BY <2>6 DEF Continues, getNewestFeature, RegistryTypeOK
    <3>2. ~isFeatureBucketEmpty(NextName(n))
      BY <2>6, <3>1 DEF FirstSubFeaturesClosed, Continues, NextName
    <3> QED
      BY <2>1, <3>2
  <2> SUFFICES ASSUME NEW names \in SUBSET FeatureNames, names # {},
                      Followed(names)', \A n \in names : Continues(n)'
               PROVE  FALSE
    BY DEF NoCycle
  <2>7. \A n \in names : NextName(n)' \in names
    BY DEF Followed
  <2> DEFINE old == names \ {name}
  <2>8. \A n \in old : Continues(n) /\ NextName(n) \in old
    BY <2>3, <2>6, <2>7
  <2>9. old # {}
    BY <2>4, <2>5, <2>7
  <2> QED
    BY <2>8, <2>9 DEF NoCycle, Followed
<1>2. CASE TransformationStep
  BY <1>2
  DEF TransformationStep, RegisterTransformation, featureVars, NoCycle, Followed, Continues,
      NextName, getNewestFeature, getFeature, Composed, FirstName
<1>3. CASE ConditionStep \/ RefusalStep
  BY <1>3, LookupsStand
  DEF NoCycle, Followed, Continues, NextName, getNewestFeature, getFeature, Composed, FirstName
<1> QED
  BY <1>1, <1>2, <1>3, StepCases

\* Only a diverging check sets the flag.
LEMMA NotDivergedStep ==
  ASSUME NoCycle, ~diverged, [RegistryNext]_registryVars
  PROVE  ~diverged'
<1>1. ASSUME NEW address \in Addresses, NEW feature \in Features, NEW owner \in Users,
             addFeature(address, feature, owner)
      PROVE  ~diverged'
  BY <1>1, NoCycleNoDivergence
  DEF addFeature, RefuseUnsupportedFeature, DivergeOnFeature, RefuseKnownFeature,
      RefuseUntransformableFeature, RefuseUnstorableFeature, RegisterFeature, registryVars
<1>2. ASSUME NEW address \in Addresses, NEW transformation \in Transformations,
             NEW owner \in Users, addTransformation(address, transformation, owner)
      PROVE  ~diverged'
  BY <1>2 DEF addTransformation, RefuseTransformation, RefuseUnstorableTransformation,
              RegisterTransformation, registryVars
<1>3. ASSUME NEW address \in Addresses, NEW name \in ConditionNames,
             addCondition(address, name)
      PROVE  ~diverged'
  BY <1>3 DEF addCondition
<1> QED
  BY <1>1, <1>2, <1>3
  DEF RegistryNext, AddSomeFeature, AddSomeTransformation, AddSomeCondition, registryVars

LEMMA SafetyInit ==
  RegistryInit => /\ NewestIsRegistered
                  /\ FilesFollowNewest
                  /\ TransformationsClosed
                  /\ FirstSubFeaturesClosed
                  /\ OwnedMatchesRecords
                  /\ NoCycle
<1> SUFFICES ASSUME RegistryInit
             PROVE  /\ NewestIsRegistered
                    /\ FilesFollowNewest
                    /\ TransformationsClosed
                    /\ FirstSubFeaturesClosed
                    /\ OwnedMatchesRecords
                    /\ NoCycle
  OBVIOUS
<1>1. /\ \A n \in FeatureNames :
           /\ isFeatureBucketEmpty(n) /\ newestFeature[n] = NoAddress
           /\ featureFiles[n] = NoFile
           /\ getNewestFeature(n) = NoRecord
           /\ \A a \in Addresses : getFeature(n, a) = NoRecord
      /\ \A n \in TransformationNames :
           /\ isTransformationBucketEmpty(n) /\ newestTransformation[n] = NoAddress
           /\ transformationFiles[n] = NoFile
           /\ \A a \in Addresses : getTransformation(n, a) = NoRecord
  BY DEF RegistryInit, isFeatureBucketEmpty, isTransformationBucketEmpty, getNewestFeature,
         getFeature, getTransformation
<1>2. \A u \in Users : getOwnedFeatures(u) = {} /\ getOwnedTransformations(u) = {}
  BY DEF RegistryInit, getOwnedFeatures, getOwnedTransformations
<1>3. NewestIsRegistered /\ FilesFollowNewest
  BY <1>1 DEF NewestIsRegistered, FilesFollowNewest, RegistryInit
<1>4. TransformationsClosed /\ FirstSubFeaturesClosed
  BY <1>1 DEF TransformationsClosed, FirstSubFeaturesClosed
<1>5. OwnedMatchesRecords
  BY <1>1, <1>2 DEF OwnedMatchesRecords
<1>6. NoCycle
  BY <1>1 DEF NoCycle, Continues
<1> QED
  BY <1>3, <1>4, <1>5, <1>6

\* The `.at` look-ups of registry.cpp never miss: the newest address of a name
\* always leads to a record of that name, and every name with records has one.
THEOREM NewestCorrect == RegistrySpec => []NewestIsRegistered
<1>1. RegistryInit => NewestIsRegistered
  BY SafetyInit
<1>2. RegistryTypeOK /\ NewestIsRegistered /\ [RegistryNext]_registryVars
        => NewestIsRegistered'
  BY NewestStep
<1> QED
  BY <1>1, <1>2, TypeCorrect, PTL DEF RegistrySpec

\* Memory and storage/ part only by a store that failed: the file of any other
\* name is its newest record, and no file ever holds a record that was refused.
THEOREM FilesCorrect == RegistrySpec => []FilesFollowNewest
<1>1. RegistryInit => FilesFollowNewest
  BY SafetyInit
<1>2. RegistryTypeOK /\ FilesFollowNewest /\ [RegistryNext]_registryVars
        => FilesFollowNewest'
  BY FilesStep
<1> QED
  BY <1>1, <1>2, TypeCorrect, PTL DEF RegistrySpec

\* Every version's transformations, and the sub-feature of its first dimension,
\* are registered, whatever is deployed in whatever order.
THEOREM ReferencesCorrect ==
  RegistrySpec => [](TransformationsClosed /\ FirstSubFeaturesClosed)
<1>1. RegistryInit => TransformationsClosed /\ FirstSubFeaturesClosed
  BY SafetyInit
<1>2. /\ RegistryTypeOK /\ TransformationsClosed /\ FirstSubFeaturesClosed
      /\ [RegistryNext]_registryVars
      => (TransformationsClosed /\ FirstSubFeaturesClosed)'
  BY ReferencesStep
<1> QED
  BY <1>1, <1>2, TypeCorrect, PTL DEF RegistrySpec

\* The names listed for an account are the names it deployed a version of.
THEOREM OwnedCorrect == RegistrySpec => []OwnedMatchesRecords
<1>1. RegistryInit => OwnedMatchesRecords
  BY SafetyInit
<1>2. RegistryTypeOK /\ OwnedMatchesRecords /\ [RegistryNext]_registryVars
        => OwnedMatchesRecords'
  BY OwnedStep
<1> QED
  BY <1>1, <1>2, TypeCorrect, PTL DEF RegistrySpec

\* While a name can be deployed only once, checkIfSubFeaturesExist always
\* returns.
THEOREM ChecksTerminateOnce ==
  ASSUME ~Reregistration
  PROVE  RegistrySpec => []ChecksTerminate
<1> DEFINE Inv == NewestIsRegistered /\ FirstSubFeaturesClosed /\ NoCycle /\ ~diverged
<1>1. RegistryInit => Inv
  BY SafetyInit DEF RegistryInit
<1>2. RegistryTypeOK /\ Inv /\ TransformationsClosed /\ [RegistryNext]_registryVars => Inv'
  BY NewestStep, ReferencesStep, NoCycleStep, NotDivergedStep
<1>3. Inv => ChecksTerminate
  BY NoCycleNoDivergence DEF ChecksTerminate
<1> QED
  BY <1>1, <1>2, <1>3, TypeCorrect, ReferencesCorrect, PTL DEF RegistrySpec

\* Records are for ever: no step changes or removes a version, and the newest
\* version of a name only moves to an address new to that name.
THEOREM HistoryCorrect == RegistrySpec => HistoryIsAppendOnly
<1> DEFINE Kept ==
      /\ \A n \in FeatureNames, a \in Addresses :
           getFeature(n, a) # NoRecord => features'[n][a] = features[n][a]
      /\ \A n \in FeatureNames :
           newestFeature'[n] # newestFeature[n] =>
             /\ newestFeature'[n] # NoAddress
             /\ features[n][newestFeature'[n]] = NoRecord
      /\ \A n \in TransformationNames, a \in Addresses :
           getTransformation(n, a) # NoRecord =>
             transformations'[n][a] = transformations[n][a]
      /\ \A n \in TransformationNames :
           newestTransformation'[n] # newestTransformation[n] =>
             /\ newestTransformation'[n] # NoAddress
             /\ transformations[n][newestTransformation'[n]] = NoRecord
<1>1. RegistryTypeOK /\ [RegistryNext]_registryVars => Kept
  <2> SUFFICES ASSUME RegistryTypeOK, [RegistryNext]_registryVars PROVE Kept
    OBVIOUS
  <2>1. CASE FeatureStep
    <3> PICK address \in Addresses, feature \in Features, owner \in Users :
          RegisterFeature(address, feature, owner)
      BY <2>1 DEF FeatureStep
    <3> DEFINE name   == feature.name
               record == [feature |-> feature, owner |-> owner]
    <3>0. FeatureAdded(address, feature, owner, name, record)
      BY FeatureEffect
    <3>1. /\ UNCHANGED transformationVars
          /\ newestFeature'[name] = address
          /\ getFeature(name, address) = NoRecord
      BY <3>0 DEF RegisterFeature, KnownFeaturePassed, FeatureKnown, FeatureAdded,
                  RegistryTypeOK
    <3> HIDE DEF name, record
    <3> QED
      BY <3>0, <3>1 DEF FeatureAdded, getFeature, transformationVars
  <2>2. CASE TransformationStep
    <3> PICK address \in Addresses, transformation \in Transformations, owner \in Users :
          RegisterTransformation(address, transformation, owner)
      BY <2>2 DEF TransformationStep
    <3> DEFINE name   == transformation.name
               record == [transformation |-> transformation, owner |-> owner]
    <3>0. TransformationAdded(address, transformation, owner, name, record)
      BY TransformationEffect
    <3>1. /\ UNCHANGED featureVars
          /\ newestTransformation'[name] = address
          /\ getTransformation(name, address) = NoRecord
      BY <3>0 DEF RegisterTransformation, NewTransformation, TransformationAdded,
                  RegistryTypeOK
    <3> HIDE DEF name, record
    <3> QED
      BY <3>0, <3>1 DEF TransformationAdded, getTransformation, featureVars
  <2>3. CASE ConditionStep \/ RefusalStep
    BY <2>3, LookupsStand
  <2> QED
    BY <2>1, <2>2, <2>3, StepCases
<1>2. RegistryTypeOK /\ [RegistryNext]_registryVars => [Kept]_registryVars
  BY <1>1
<1> QED
  BY <1>2, TypeCorrect, PTL DEF RegistrySpec, HistoryIsAppendOnly
=============================================================================
