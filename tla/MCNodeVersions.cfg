SPECIFICATION NodeSpec
CONSTANTS
  pitch = pitch
  chord = chord
  scale = scale
  add = add
  u1 = u1
  u2 = u2
  EmptyName = EmptyName
  NoAddress = NoAddress
  NoRecord = NoRecord
  NoFile = NoFile
  Truncated = Truncated
  FeatureNames <- MCVersionedNames
  TransformationNames <- MCNoNames
  ConditionNames <- MCNoNames
  Addresses <- MCVersionedAddresses
  Users <- MCUsers
  Features <- MCVersionedFeatures
  Transformations <- MCNoNames
  Serializable <- MCVersionedFeatures
  Compilable <- MCVersionedFeatures
  Constructible <- MCVersionedFeatures
  Reregistration = TRUE
  DiskMayFail = FALSE
  MaxStarts = 1
INVARIANT
  AnswersAgree
