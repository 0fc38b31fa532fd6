SPECIFICATION WebSpec
CONSTANTS
  l1 = l1
  q1 = q1
  q2 = q2
  NoNonce = NoNonce
  NoPair = NoPair
  Logins <- MCLogins
  Requests <- MCRequests
  AccessLife = 1
  RefreshLife = 2
  MaxTime = 2
  MaxRestarts = 1
  MaxDraws = 2
INVARIANTS
  WebTypeOK
  ActsOnce
  CalmCallsSucceed
PROPERTIES
  CookiesNeverGoBack
  CallsEnd
\* The user clicks no more.
CHECK_DEADLOCK FALSE
