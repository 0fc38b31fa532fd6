SPECIFICATION LoadingSpec
CONSTANTS
  pitch = pitch
  chord = chord
  scale = scale
  NoName = NoName
  NoCode = NoCode
  Names <- MCNames
  Lists <- MCLists
  PipeCapacity = 1
  MaxOutput = 2
INVARIANTS
  LoadingTypeOK
  ReturnsWhole
  NoneLeftOut
PROPERTIES
  SortsAsPromised
  LoadEnds
CHECK_DEADLOCK FALSE
