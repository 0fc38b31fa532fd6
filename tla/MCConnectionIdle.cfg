SPECIFICATION ConnectionSpec
CONSTANTS
  c1 = c1
  c2 = c2
  Clients <- MCOneClient
  ReadTimeout = 6
  IdleInterval = 1
  Lengths <- MCNoBody
  MaxHead <- MCShortHead
  MaxRequests <- MCOneRequest
INVARIANT
  IdleClientsClosed
