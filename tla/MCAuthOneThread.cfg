SPECIFICATION AuthSpec
CONSTANTS
  u1 = u1
  r1 = r1
  r2 = r2
  n1 = n1
  n2 = n2
  NoNonce = NoNonce
  NoToken = NoToken
  NoSession = NoSession
  Users <- MCOneUser
  Requests <- MCRequests
  Nonces <- MCNonces
  Threads = 1
  AccessLife = 1
  RefreshLife = 2
  MaxTime = 2
  MaxDraws = 2
INVARIANTS
  AuthTypeOK
  SessionsStartWithLogin
PROPERTIES
  SupersededTokensRefused
  ImplementsSessions
