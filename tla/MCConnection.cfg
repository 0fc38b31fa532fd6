SPECIFICATION ConnectionSpec
CONSTANTS
  c1 = c1
  c2 = c2
  Clients <- MCClients
  ReadTimeout = 1
  IdleInterval = 1
  Lengths <- MCLengths
  MaxHead <- MCMaxHead
  MaxRequests <- MCMaxRequests
INVARIANTS
  ConnectionTypeOK
  HandledAsSent
PROPERTIES
  CookiesRepeatedOnce
  SilentConnectionsEnd
  ClosesDown
