SPECIFICATION RoutingSpec
CONSTANTS
  HexTexts <- MCHexTexts
  SizeTexts <- MCSizeTexts
  Uint32Texts <- MCUint32Texts
  ListTexts <- MCListTexts
  Texts <- MCTexts
  Requests <- MCRequests
INVARIANTS
  RoutingTypeOK
  OneRouteMatches
  ArgumentsFit
  Delivered
