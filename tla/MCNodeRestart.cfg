SPECIFICATION NodeSpec
CONSTANTS
  pitch = pitch
  chord = chord
  scale = scale
  add = add
  u1 = u1
  u2 = u2
  EmptyName = EmptyName
  NoAddress = NoAddress
  NoRecord = NoRecord
  NoFile = NoFile
  Truncated = Truncated
  FeatureNames <- MCFeatureNames
  TransformationNames <- MCTransformationNames
  ConditionNames <- MCNoNames
  Addresses <- MCAddresses
  Users <- MCUsers
  Features <- MCFeatures
  Transformations <- MCTransformations
  Serializable <- MCPrintable
  Compilable <- MCContracts
  Constructible <- MCConstructible
  Reregistration = FALSE
  DiskMayFail = FALSE
  MaxStarts = 4
INVARIANTS
  NodeTypeOK
  ChecksTerminate
  FirstSubFeaturesClosed
  TransformationsClosed
  NeverRollsBack
PROPERTIES
  PublishedSurvive
  ServesAgain
