SPECIFICATION RegistrySpec
CONSTANTS
  pitch = pitch
  chord = chord
  scale = scale
  add = add
  c1 = c1
  a1 = a1
  a2 = a2
  u1 = u1
  u2 = u2
  EmptyName = EmptyName
  NoAddress = NoAddress
  NoRecord = NoRecord
  NoFile = NoFile
  Truncated = Truncated
  TransformationNames <- MCTransformationNames
  ConditionNames <- MCConditionNames
  Addresses <- MCAddresses
  Transformations <- MCTransformations
  Serializable <- MCAllPrintable
  FeatureNames <- MCFeatureNames
  Features <- MCFeatures
  Users <- MCOneUser
  Reregistration = FALSE
  DiskMayFail = FALSE
INVARIANT
  AllSubFeaturesExist
