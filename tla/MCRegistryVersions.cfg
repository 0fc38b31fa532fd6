SPECIFICATION RegistrySpec
CONSTANTS
  pitch = pitch
  chord = chord
  scale = scale
  add = add
  c1 = c1
  a1 = a1
  a2 = a2
  u1 = u1
  u2 = u2
  EmptyName = EmptyName
  NoAddress = NoAddress
  NoRecord = NoRecord
  NoFile = NoFile
  Truncated = Truncated
  TransformationNames <- MCTransformationNames
  ConditionNames <- MCConditionNames
  Addresses <- MCAddresses
  Transformations <- MCVersionedTransformations
  Serializable <- MCPrintable
  FeatureNames <- MCVersionedNames
  Features <- MCVersionedFeatures
  Users <- MCUsers
  Reregistration = TRUE
  DiskMayFail = TRUE
SYMMETRY MCSymmetry
CONSTRAINT MCConditionsApart
INVARIANTS
  RegistryTypeOK
  NewestIsRegistered
  FilesFollowNewest
  OwnedMatchesRecords
PROPERTY
  HistoryIsAppendOnly
\* A check that recurses for ever takes the only server thread with it.
CHECK_DEADLOCK FALSE
