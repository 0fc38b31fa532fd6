----------------------------- MODULE AuthProofs -----------------------------
(* Proofs about Auth, for any addresses, connections, nonces and lifetimes. *)
EXTENDS Auth, FiniteSetTheorems, TLAPS

LEMMA AnyUserIsUser == AnyUser \in Users
BY AuthAssumption DEF AnyUser

LEMMA BlankIsLocals == ASSUME NEW u \in Users PROVE Blank(u) \in Locals
BY DEF Blank, Locals

\* Times are numbers, and no number is the mark of a missing token.
LEMMA SecondsAreNumbers == Seconds \subseteq Nat /\ NoToken \notin Seconds
BY AuthAssumption DEF Seconds

\* The three requests that start with what a client sends begin with no token
\* made and nothing granted.
BeginStep(r) ==
  \E p \in {"storeNonce", "verifyNonce", "verifyRefresh", "verifyAccess"}, locals \in Locals :
    /\ Begin(r, p, locals)
    /\ locals.made = NoToken /\ ~locals.granted /\ ~locals.accepted
    /\ p = "verifyAccess" => locals.access \in Seconds
    /\ p = "verifyNonce" => locals.nonce \in Nonces
    /\ p = "verifyRefresh" => locals.refresh \in Seconds

LEMMA BeginCases ==
  ASSUME AuthTypeOK, NEW r \in Requests,
         GET_nonce(r) \/ POST_auth(r) \/ POST_refresh(r) \/ Authenticate(r)
  PROVE  BeginStep(r)
<1>1. CASE GET_nonce(r)
  <2> PICK u \in Users, n \in Nonces :
        Begin(r, "storeNonce", [Blank(u) EXCEPT !.nonce = n])
    BY <1>1 DEF GET_nonce
  <2> DEFINE locals == [Blank(u) EXCEPT !.nonce = n]
  <2>1. locals \in Locals /\ locals.made = NoToken /\ ~locals.granted /\ ~locals.accepted
    BY DEF Blank, Locals
  <2> HIDE DEF locals
  <2> QED
    BY <2>1 DEF BeginStep, locals
<1>2. CASE POST_auth(r)
  <2> PICK u \in Users, n \in Nonces, signed \in BOOLEAN :
        Begin(r, "verifyNonce", [Blank(u) EXCEPT !.nonce = n, !.signed = signed])
    BY <1>2 DEF POST_auth
  <2> DEFINE locals == [Blank(u) EXCEPT !.nonce = n, !.signed = signed]
  <2>1. /\ locals \in Locals /\ locals.made = NoToken /\ ~locals.granted
        /\ ~locals.accepted /\ locals.nonce \in Nonces
    BY DEF Blank, Locals
  <2> HIDE DEF locals
  <2> QED
    BY <2>1 DEF BeginStep, locals
<1>3. CASE POST_refresh(r)
  <2> PICK p \in held, q \in held :
        Begin(r, "verifyRefresh", [Blank(p.user) EXCEPT !.refresh = p.refresh,
                !.access = IF q.user = p.user THEN q.access ELSE NoToken])
    BY <1>3 DEF POST_refresh
  <2> DEFINE locals == [Blank(p.user) EXCEPT !.refresh = p.refresh,
                          !.access = IF q.user = p.user THEN q.access ELSE NoToken]
  <2>1. /\ locals \in Locals /\ locals.made = NoToken /\ ~locals.granted
        /\ ~locals.accepted /\ locals.refresh \in Seconds
    BY DEF Blank, Locals, TokenPair, AuthTypeOK
  <2> HIDE DEF locals
  <2> QED
    BY <2>1 DEF BeginStep, locals
<1>4. CASE Authenticate(r)
  <2> PICK p \in held :
        Begin(r, "verifyAccess", [Blank(p.user) EXCEPT !.access = p.access])
    BY <1>4 DEF Authenticate
  <2> DEFINE locals == [Blank(p.user) EXCEPT !.access = p.access]
  <2>1. /\ locals \in Locals /\ locals.made = NoToken /\ ~locals.granted
        /\ ~locals.accepted /\ locals.access \in Seconds
    BY DEF Blank, Locals, TokenPair, AuthTypeOK
  <2> HIDE DEF locals
  <2> QED
    BY <2>1 DEF BeginStep, locals
<1> QED
  BY <1>1, <1>2, <1>3, <1>4

-----------------------------------------------------------------------------
(* Type correctness *)

\* The tokens a handler has made by the time it needs them.
LocalsOK ==
  \A r \in Requests :
    /\ phase[r] = "refresh" => call[r].made \in Seconds
    /\ phase[r] = "verifyAccess" => call[r].access \in Seconds /\ ~call[r].accepted
    /\ phase[r] = "verifyNonce" => call[r].nonce \in Nonces
    /\ phase[r] = "verifyRefresh" => call[r].refresh \in Seconds
    /\ call[r].granted => call[r].made \in Seconds /\ call[r].refresh \in Seconds

TypeInv == AuthTypeOK /\ LocalsOK

LEMMA AuthTypeInit == AuthInit => TypeInv
<1> SUFFICES ASSUME AuthInit PROVE TypeInv
  OBVIOUS
<1>1. AuthTypeOK
  BY AnyUserIsUser, BlankIsLocals, AuthAssumption DEF AuthInit, AuthTypeOK, Phases, Seconds
<1>2. LocalsOK
  BY DEF AuthInit, LocalsOK, Blank
<1> QED
  BY <1>1, <1>2 DEF TypeInv

LEMMA AuthTypeStep == TypeInv /\ [AuthNext]_vars => TypeInv'
<1> SUFFICES ASSUME AuthTypeOK, LocalsOK, [AuthNext]_vars PROVE AuthTypeOK' /\ LocalsOK'
  BY DEF TypeInv
<1> USE DEF stores, history
<1>1. CASE UNCHANGED vars
  BY <1>1 DEF vars, AuthTypeOK, LocalsOK
<1>2. CASE Tick
  BY <1>2, AuthAssumption DEF Tick, AuthTypeOK, LocalsOK, Seconds
<1>3. CASE Restart
  <2>1. AuthTypeOK'
    BY <1>3, AnyUserIsUser, BlankIsLocals DEF Restart, AuthStart, AuthTypeOK, Phases
  <2>2. LocalsOK'
    BY <1>3 DEF Restart, AuthStart, LocalsOK, Blank
  <2> QED
    BY <2>1, <2>2
<1>4. ASSUME NEW r \in Requests, AuthStep(r) PROVE AuthTypeOK' /\ LocalsOK'
  <2>1. call[r] \in Locals
    BY DEF AuthTypeOK
  <2>2. CASE GET_nonce(r) \/ POST_auth(r) \/ POST_refresh(r) \/ Authenticate(r)
    <3>1. BeginStep(r)
      BY <2>2, BeginCases
    <3> QED
      BY <3>1 DEF BeginStep, Begin, GoTo, AuthTypeOK, LocalsOK, Phases
  <2>3. CASE generateNonce(r)
    BY <2>1, <2>3 DEF generateNonce, GoTo, AuthTypeOK, LocalsOK, Locals, Phases
  <2>4. CASE verifyNonce(r)
    BY <2>1, <2>4 DEF verifyNonce, DropNonce, Refuse, GoTo, AuthTypeOK, LocalsOK, Phases
  <2>5. CASE verifySignature(r)
    BY <2>1, <2>5 DEF verifySignature, Refuse, GoTo, AuthTypeOK, LocalsOK, Phases
  <2>6. CASE VerifyRefresh(r)
    BY <2>6 DEF VerifyRefresh, Refuse, GoTo, AuthTypeOK, LocalsOK, Phases
  <2>7. CASE CompareAccess(r)
    BY <2>7 DEF CompareAccess, Refuse, GoTo, AuthTypeOK, LocalsOK, Phases
  <2>8. CASE generateAccessToken(r)
    BY <2>1, <2>8 DEF generateAccessToken, GoTo, AuthTypeOK, LocalsOK, Locals, Phases
  <2>9. CASE generateRefreshToken(r)
    BY <2>1, <2>9 DEF generateRefreshToken, GoTo, AuthTypeOK, LocalsOK, Locals, Phases
  <2>10. CASE VerifyAccess(r)
    BY <2>1, <2>10
    DEF VerifyAccess, verifyAccessToken, Expired, GoTo, AuthTypeOK, LocalsOK, Locals, Phases
  <2>11. CASE Answer(r)
    <3>1. held' \subseteq TokenPair
      BY <2>1, <2>11 DEF Answer, AuthTypeOK, LocalsOK, Locals, TokenPair
    <3>2. Blank(AnyUser) \in Locals /\ ~Blank(AnyUser).granted
      BY AnyUserIsUser, BlankIsLocals DEF Blank
    <3> QED
      BY <2>11, <3>1, <3>2 DEF Answer, GoTo, AuthTypeOK, LocalsOK, Phases
  <2>12. CASE LoseAnswer(r)
    <3>1. Blank(AnyUser) \in Locals /\ ~Blank(AnyUser).granted
      BY AnyUserIsUser, BlankIsLocals DEF Blank
    <3> QED
      BY <2>12, <3>1 DEF LoseAnswer, GoTo, AuthTypeOK, LocalsOK, Phases
  <2> QED
    BY <1>4, <2>2, <2>3, <2>4, <2>5, <2>6, <2>7, <2>8, <2>9, <2>10, <2>11, <2>12 DEF AuthStep
<1> QED
  BY <1>1, <1>2, <1>3, <1>4 DEF AuthNext

LEMMA TypeInvariant == AuthSpec => []TypeInv
BY AuthTypeInit, AuthTypeStep, PTL DEF AuthSpec

\* The stores, the handlers and what clients hold keep their shape.
THEOREM AuthTypeCorrect == AuthSpec => []AuthTypeOK
BY TypeInvariant, PTL DEF TypeInv

-----------------------------------------------------------------------------
(* Superseded tokens *)

\* No access token of u that was ever made is later than the stored one.
Latest(u, access) == accessTokens[u] # NoToken => access <= accessTokens[u]

TokensOrdered ==
  /\ \A u \in Users : accessTokens[u] # NoToken => accessTokens[u] <= now
  /\ \A p \in held : p.access <= now /\ Latest(p.user, p.access)
  /\ \A r \in Requests :
       call[r].made # NoToken => call[r].made <= now /\ Latest(call[r].user, call[r].made)

\* Only generateAccessToken and a restart touch the access tokens, and only an
\* answer adds to what clients hold.
LEMMA OrderedStep ==
  ASSUME TypeInv, TokensOrdered, [AuthNext]_vars
  PROVE  TokensOrdered'
<1> USE DEF stores, history
<1>1. CASE UNCHANGED vars
  BY <1>1 DEF vars, TokensOrdered, Latest
<1>2. CASE Tick
  BY <1>2 DEF Tick, TokensOrdered, Latest, TypeInv, AuthTypeOK, Seconds, TokenPair, Locals
<1>3. CASE Restart
  <2>1. /\ \A u \in Users : accessTokens'[u] = NoToken
        /\ \A r \in Requests : call'[r].made = NoToken
        /\ held' = held /\ now' = now
    BY <1>3 DEF Restart, AuthStart, Blank
  <2> QED
    BY <2>1 DEF TokensOrdered, Latest, TypeInv, AuthTypeOK, TokenPair
<1>4. ASSUME NEW r \in Requests, AuthStep(r) PROVE TokensOrdered'
  <2>1. call[r] \in Locals /\ call \in [Requests -> Locals]
    BY DEF TypeInv, AuthTypeOK
  <2>2. CASE generateAccessToken(r)
    <3> DEFINE u == call[r].user
    <3>1. u \in Users /\ now \in Nat /\ now # NoToken
      BY <2>1, SecondsAreNumbers DEF Locals, TypeInv, AuthTypeOK
    <3>2. /\ accessTokens'[u] = now
          /\ \A v \in Users \ {u} : accessTokens'[v] = accessTokens[v]
          /\ call'[r].made = now /\ call'[r].user = u
          /\ \A s \in Requests \ {r} : call'[s] = call[s]
          /\ held' = held /\ now' = now
      BY <2>1, <2>2, <3>1 DEF generateAccessToken, TypeInv, AuthTypeOK, Locals
    <3> HIDE DEF u
    <3>3. \A p \in held : p.user \in Users
      BY DEF TypeInv, AuthTypeOK, TokenPair
    <3>4. \A s \in Requests : call[s].user \in Users
      BY <2>1 DEF Locals
    <3> QED
      BY <3>1, <3>2, <3>3, <3>4 DEF TokensOrdered, Latest
  <2>3. CASE Answer(r)
    <3>1. /\ accessTokens' = accessTokens /\ now' = now
          /\ \A s \in Requests \ {r} : call'[s] = call[s]
          /\ call'[r].made = NoToken
      BY <2>1, <2>3 DEF Answer, Blank
    <3>2. ASSUME NEW p \in held' PROVE p.access <= now /\ Latest(p.user, p.access)
      <4>1. CASE p \in held
        BY <4>1 DEF TokensOrdered
      <4>2. CASE p \notin held
        <5>1. call[r].granted /\ p.user = call[r].user /\ p.access = call[r].made
          BY <2>3, <4>2 DEF Answer
        <5>2. call[r].made # NoToken
          BY <5>1, SecondsAreNumbers DEF TypeInv, LocalsOK
        <5> QED
          BY <5>1, <5>2 DEF TokensOrdered
      <4> QED
        BY <4>1, <4>2
    <3> QED
      BY <3>1, <3>2 DEF TokensOrdered, Latest
  <2>4. ASSUME UNCHANGED <<accessTokens, held, now>>,
               \A s \in Requests \ {r} : call'[s] = call[s],
               \/ call'[r].made = NoToken
               \/ call'[r].made = call[r].made /\ call'[r].user = call[r].user
        PROVE  TokensOrdered'
    BY <2>4 DEF TokensOrdered, Latest
  <2>5. CASE GET_nonce(r) \/ POST_auth(r) \/ POST_refresh(r) \/ Authenticate(r)
    <3>1. BeginStep(r)
      BY <2>5, BeginCases DEF TypeInv
    <3> QED
      BY <2>1, <2>4, <3>1 DEF BeginStep, Begin
  <2>6. CASE generateNonce(r) \/ verifyNonce(r) \/ verifySignature(r) \/ VerifyRefresh(r)
             \/ CompareAccess(r)
    BY <2>4, <2>6
    DEF generateNonce, verifyNonce, verifySignature, VerifyRefresh, CompareAccess, Refuse
  <2>7. CASE generateRefreshToken(r)
    BY <2>1, <2>4, <2>7 DEF generateRefreshToken, Locals
  <2>8. CASE VerifyAccess(r)
    BY <2>1, <2>4, <2>8 DEF VerifyAccess, Locals
  <2>9. CASE LoseAnswer(r)
    BY <2>1, <2>4, <2>9 DEF LoseAnswer, Blank
  <2> QED
    BY <1>4, <2>2, <2>3, <2>5, <2>6, <2>7, <2>8, <2>9 DEF AuthStep
<1> QED
  BY <1>1, <1>2, <1>3, <1>4 DEF AuthNext

LEMMA OrderedInvariant == AuthSpec => []TokensOrdered
<1>1. AuthInit => TokensOrdered
  BY DEF AuthInit, TokensOrdered, Latest, Blank
<1>2. TypeInv /\ TokensOrdered /\ [AuthNext]_vars => TokensOrdered'
  BY OrderedStep
<1> QED
  BY <1>1, <1>2, TypeInvariant, PTL DEF AuthSpec

\* The same of refresh tokens: a handler has one when it grants.
LatestRefresh(u, refresh) == refreshTokens[u] # NoToken => refresh <= refreshTokens[u]

RefreshOrdered ==
  /\ \A u \in Users : refreshTokens[u] # NoToken => refreshTokens[u] <= now
  /\ \A p \in held : p.refresh <= now /\ LatestRefresh(p.user, p.refresh)
  /\ \A r \in Requests :
       call[r].granted =>
         call[r].refresh <= now /\ LatestRefresh(call[r].user, call[r].refresh)

\* Only generateRefreshToken and a restart touch the refresh tokens.
LEMMA RefreshOrderedStep ==
  ASSUME TypeInv, RefreshOrdered, [AuthNext]_vars
  PROVE  RefreshOrdered'
<1> USE DEF stores, history
<1>1. CASE UNCHANGED vars
  BY <1>1 DEF vars, RefreshOrdered, LatestRefresh
<1>2. CASE Tick
  <2>1. \A r \in Requests : call[r].granted => call[r].refresh \in Nat
    BY SecondsAreNumbers DEF TypeInv, LocalsOK
  <2> QED
    BY <1>2, <2>1, SecondsAreNumbers
    DEF Tick, RefreshOrdered, LatestRefresh, TypeInv, AuthTypeOK, Seconds, TokenPair
<1>3. CASE Restart
  <2>1. /\ \A u \in Users : refreshTokens'[u] = NoToken
        /\ \A r \in Requests : ~call'[r].granted
        /\ held' = held /\ now' = now
    BY <1>3 DEF Restart, AuthStart, Blank
  <2> QED
    BY <2>1 DEF RefreshOrdered, LatestRefresh, TypeInv, AuthTypeOK, TokenPair
<1>4. ASSUME NEW r \in Requests, AuthStep(r) PROVE RefreshOrdered'
  <2>1. call[r] \in Locals /\ call \in [Requests -> Locals]
    BY DEF TypeInv, AuthTypeOK
  <2>2. CASE generateRefreshToken(r)
    <3> DEFINE u == call[r].user
    <3>1. u \in Users /\ now \in Nat /\ now # NoToken
      BY <2>1, SecondsAreNumbers DEF Locals, TypeInv, AuthTypeOK
    <3>2. /\ refreshTokens'[u] = now
          /\ \A v \in Users \ {u} : refreshTokens'[v] = refreshTokens[v]
          /\ call'[r].refresh = now /\ call'[r].user = u
          /\ \A s \in Requests \ {r} : call'[s] = call[s]
          /\ held' = held /\ now' = now
      BY <2>1, <2>2, <3>1 DEF generateRefreshToken, TypeInv, AuthTypeOK, Locals
    <3> HIDE DEF u
    <3>3. \A p \in held : p.user \in Users
      BY DEF TypeInv, AuthTypeOK, TokenPair
    <3>4. \A s \in Requests : call[s].user \in Users
      BY <2>1 DEF Locals
    <3> QED
      BY <3>1, <3>2, <3>3, <3>4 DEF RefreshOrdered, LatestRefresh
  <2>3. CASE Answer(r)
    <3>1. /\ refreshTokens' = refreshTokens /\ now' = now
          /\ \A s \in Requests \ {r} : call'[s] = call[s]
          /\ ~call'[r].granted
      BY <2>1, <2>3 DEF Answer, Blank
    <3>2. ASSUME NEW p \in held' PROVE p.refresh <= now /\ LatestRefresh(p.user, p.refresh)
      <4>1. CASE p \in held
        BY <4>1 DEF RefreshOrdered
      <4>2. CASE p \notin held
        <5>1. call[r].granted /\ p.user = call[r].user /\ p.refresh = call[r].refresh
          BY <2>3, <4>2 DEF Answer
        <5> QED
          BY <5>1 DEF RefreshOrdered
      <4> QED
        BY <4>1, <4>2
    <3> QED
      BY <3>1, <3>2 DEF RefreshOrdered, LatestRefresh
  <2>4. ASSUME UNCHANGED <<refreshTokens, held, now>>,
               \A s \in Requests \ {r} : call'[s] = call[s],
               \/ ~call'[r].granted
               \/ /\ call'[r].granted = call[r].granted
                  /\ call'[r].refresh = call[r].refresh /\ call'[r].user = call[r].user
        PROVE  RefreshOrdered'
    BY <2>4 DEF RefreshOrdered, LatestRefresh
  <2>5. CASE GET_nonce(r) \/ POST_auth(r) \/ POST_refresh(r) \/ Authenticate(r)
    <3>1. BeginStep(r)
      BY <2>5, BeginCases DEF TypeInv
    <3> QED
      BY <2>1, <2>4, <3>1 DEF BeginStep, Begin
  <2>6. CASE generateNonce(r) \/ verifyNonce(r) \/ verifySignature(r) \/ VerifyRefresh(r)
             \/ CompareAccess(r)
    BY <2>4, <2>6
    DEF generateNonce, verifyNonce, verifySignature, VerifyRefresh, CompareAccess, Refuse
  <2>7. CASE generateAccessToken(r)
    BY <2>1, <2>4, <2>7 DEF generateAccessToken, Locals
  <2>8. CASE VerifyAccess(r)
    BY <2>1, <2>4, <2>8 DEF VerifyAccess, Locals
  <2>9. CASE LoseAnswer(r)
    BY <2>1, <2>4, <2>9 DEF LoseAnswer, Blank
  <2> QED
    BY <1>4, <2>2, <2>3, <2>5, <2>6, <2>7, <2>8, <2>9 DEF AuthStep
<1> QED
  BY <1>1, <1>2, <1>3, <1>4 DEF AuthNext

LEMMA RefreshOrderedInvariant == AuthSpec => []RefreshOrdered
<1>1. AuthInit => RefreshOrdered
  BY DEF AuthInit, RefreshOrdered, LatestRefresh, Blank
<1>2. TypeInv /\ RefreshOrdered /\ [AuthNext]_vars => RefreshOrdered'
  BY RefreshOrderedStep
<1> QED
  BY <1>1, <1>2, TypeInvariant, PTL DEF AuthSpec

\* A handler is moved by its own steps, or by a restart that drops it.
LEMMA StepOfRequest ==
  ASSUME AuthTypeOK, AuthNext, NEW r \in Requests
  PROVE  /\ phase[r] = "verifyAccess" /\ call'[r].accepted /\ ~call[r].accepted => VerifyAccess(r)
         /\ phase[r] = "compareAccess" /\ phase'[r] = "access" => CompareAccess(r)
         /\ RefreshAccepted(r) => VerifyRefresh(r)
<1> USE DEF stores, history, RefreshAccepted
<1>1. CASE Tick
  BY <1>1 DEF Tick
<1>2. CASE Restart
  BY <1>2 DEF Restart, AuthStart, Blank
<1>3. ASSUME NEW s \in Requests, AuthStep(s), s # r
      PROVE  phase'[r] = phase[r] /\ call'[r] = call[r]
  <2>1. CASE GET_nonce(s) \/ POST_auth(s) \/ POST_refresh(s) \/ Authenticate(s)
    <3>1. BeginStep(s)
      BY <2>1, BeginCases
    <3> QED
      BY <1>3, <3>1 DEF BeginStep, Begin, GoTo, AuthTypeOK
  <2>2. CASE \/ generateNonce(s) \/ verifyNonce(s) \/ verifySignature(s) \/ VerifyRefresh(s)
             \/ CompareAccess(s)
    BY <1>3, <2>2
    DEF generateNonce, verifyNonce, verifySignature, VerifyRefresh, CompareAccess,
        Refuse, GoTo, AuthTypeOK
  <2>3. CASE \/ generateAccessToken(s) \/ generateRefreshToken(s) \/ VerifyAccess(s)
             \/ Answer(s) \/ LoseAnswer(s)
    BY <1>3, <2>3
    DEF generateAccessToken, generateRefreshToken, VerifyAccess, Answer, LoseAnswer,
        GoTo, AuthTypeOK
  <2> QED
    BY <1>3, <2>1, <2>2, <2>3 DEF AuthStep
<1>4. CASE AuthStep(r)
  <2>1. CASE GET_nonce(r) \/ POST_auth(r) \/ POST_refresh(r) \/ Authenticate(r)
    <3>1. BeginStep(r)
      BY <2>1, BeginCases
    <3> QED
      BY <3>1 DEF BeginStep, Begin, Running
  <2>2. CASE \/ generateNonce(r) \/ verifyNonce(r) \/ verifySignature(r)
             \/ generateAccessToken(r) \/ generateRefreshToken(r)
             \/ Answer(r) \/ LoseAnswer(r)
    <3>1. phase[r] \notin {"verifyAccess", "compareAccess", "verifyRefresh"}
      BY <2>2
      DEF generateNonce, verifyNonce, verifySignature,
          generateAccessToken, generateRefreshToken, Answer, LoseAnswer
    <3> QED
      BY <3>1
  <2>3. CASE VerifyAccess(r)
    BY <2>3 DEF VerifyAccess
  <2>4. CASE CompareAccess(r)
    BY <2>4 DEF CompareAccess
  <2>5. CASE VerifyRefresh(r)
    BY <2>5 DEF VerifyRefresh
  <2> QED
    BY <1>4, <2>1, <2>2, <2>3, <2>4, <2>5 DEF AuthStep
<1> QED
  BY <1>1, <1>2, <1>3, <1>4 DEF AuthNext

\* With any number of threads, restarts and lost answers, a token a client has
\* seen replaced is refused, whether it is an access token or a refresh token.
THEOREM SupersededCorrect == AuthSpec => SupersededTokensRefused
<1> DEFINE Refused ==
      \A r \in Requests, p \in held :
        p.user = call[r].user =>
          /\ AccessAccepted(r) => p.access <= call[r].access
          /\ RefreshAccepted(r) => p.refresh <= call[r].refresh
<1>1. TypeInv /\ TokensOrdered /\ RefreshOrdered /\ [AuthNext]_vars => [Refused]_vars
  <2> SUFFICES ASSUME TypeInv, TokensOrdered, RefreshOrdered, AuthNext,
                      NEW r \in Requests, NEW p \in held, p.user = call[r].user
               PROVE  /\ AccessAccepted(r) => p.access <= call[r].access
                      /\ RefreshAccepted(r) => p.refresh <= call[r].refresh
    OBVIOUS
  <2>1. call[r] \in Locals /\ p.user \in Users /\ p.access \in Seconds
    BY DEF TypeInv, AuthTypeOK, TokenPair
  <2>2. ASSUME phase[r] = "verifyAccess", call'[r].accepted
        PROVE  p.access <= call[r].access
    <3>1. ~call[r].accepted /\ call[r].access \in Seconds
      BY <2>2 DEF TypeInv, LocalsOK
    <3>2. VerifyAccess(r)
      BY <2>2, <3>1, StepOfRequest DEF TypeInv
    <3>3. call'[r].accepted = verifyAccessToken(call[r].user, call[r].access)
      BY <2>1, <3>2 DEF VerifyAccess, Locals, TypeInv, AuthTypeOK
    <3>4. accessTokens[call[r].user] = call[r].access
      BY <2>2, <3>3 DEF verifyAccessToken
    <3> QED
      BY <2>1, <3>1, <3>4, SecondsAreNumbers DEF TokensOrdered, Latest
  <2>3. ASSUME phase[r] = "compareAccess", phase'[r] = "access"
        PROVE  p.access <= call[r].access
    <3>1. CompareAccess(r)
      BY <2>3, StepOfRequest DEF TypeInv
    <3>2. call[r].access # NoToken /\ accessTokens[call[r].user] = call[r].access
      BY <2>3, <3>1 DEF CompareAccess, compareAccessToken, Refuse, GoTo, TypeInv, AuthTypeOK
    <3> QED
      BY <2>1, <3>2 DEF TokensOrdered, Latest
  <2>4. ASSUME RefreshAccepted(r)
        PROVE  p.refresh <= call[r].refresh
    <3>1. VerifyRefresh(r) /\ call[r].refresh \in Seconds
      BY <2>4, StepOfRequest DEF TypeInv, LocalsOK, RefreshAccepted
    <3>2. refreshTokens[call[r].user] = call[r].refresh
      BY <2>4, <3>1
      DEF RefreshAccepted, VerifyRefresh, verifyRefreshToken, Refuse, GoTo, TypeInv, AuthTypeOK
    <3> QED
      BY <2>1, <3>1, <3>2, SecondsAreNumbers DEF RefreshOrdered, LatestRefresh
  <2> QED
    BY <2>2, <2>3, <2>4 DEF AccessAccepted
<1> QED
  BY <1>1, TypeInvariant, OrderedInvariant, RefreshOrderedInvariant, PTL
  DEF AuthSpec, SupersededTokensRefused

-----------------------------------------------------------------------------
(* Sessions start with a login *)

\* A handler that used up a nonce of u and has not looked at the signature yet.
Admits(r, u) == phase[r] = "verifySignature" /\ call[r].user = u

Admitted(u) == Cardinality({r \in Requests : Admits(r, u)})

Stored(u) == IF nonces[u] = NoNonce THEN 0 ELSE 1

\* Of the nonces drawn for u one may be stored, some are with a handler, some have
\* been spent on a login, and the others are lost.
NoncesPaid == \A u \in Users : logins[u] + Admitted(u) + Stored(u) <= drawn[u]

GrantsPaid ==
  /\ \A u \in Users :
       accessTokens[u] # NoToken \/ refreshTokens[u] # NoToken => logins[u] > 0
  /\ \A r \in Requests :
       phase[r] \in {"compareAccess", "access", "refresh"} => logins[call[r].user] > 0

LEMMA AdmittedFinite ==
  ASSUME NEW u
  PROVE  IsFiniteSet({r \in Requests : Admits(r, u)}) /\ Admitted(u) \in Nat
<1>1. {r \in Requests : Admits(r, u)} \subseteq Requests
  OBVIOUS
<1> QED
  BY <1>1, AuthAssumption, FS_Subset, FS_CardinalityType DEF AuthAssumption, Admitted

\* One handler moves: it joins, it leaves, or neither.
LEMMA AdmittedStep ==
  ASSUME NEW u \in Users, NEW r \in Requests,
         \A s \in Requests \ {r} : Admits(s, u)' <=> Admits(s, u)
  PROVE  /\ (Admits(r, u)' <=> Admits(r, u)) => Admitted(u)' = Admitted(u)
         /\ ~Admits(r, u) /\ Admits(r, u)' => Admitted(u)' = Admitted(u) + 1
         /\ Admits(r, u) /\ ~Admits(r, u)' => Admitted(u)' = Admitted(u) - 1
<1> DEFINE before_step == {s \in Requests : Admits(s, u)}
           after_step == {s \in Requests : Admits(s, u)'}
<1>1. Admitted(u) = Cardinality(before_step) /\ Admitted(u)' = Cardinality(after_step)
  BY DEF Admitted
<1>2. IsFiniteSet(before_step)
  BY AdmittedFinite
<1>3. (Admits(r, u)' <=> Admits(r, u)) => after_step = before_step
  OBVIOUS
<1>4. ~Admits(r, u) /\ Admits(r, u)' => after_step = before_step \cup {r} /\ r \notin before_step
  OBVIOUS
<1>5. Admits(r, u) /\ ~Admits(r, u)' => after_step = before_step \ {r} /\ r \in before_step
  OBVIOUS
<1> HIDE DEF before_step, after_step
<1> QED
  BY <1>1, <1>2, <1>3, <1>4, <1>5, FS_AddElement, FS_RemoveElement

\* The handlers' steps that touch neither a nonce nor a count of them.
LEMMA PaidElsewhere ==
  ASSUME NoncesPaid, NEW r \in Requests, UNCHANGED <<nonces, drawn, logins>>,
         \A s \in Requests \ {r} : phase'[s] = phase[s] /\ call'[s] = call[s],
         phase[r] # "verifySignature", phase'[r] # "verifySignature"
  PROVE  NoncesPaid'
<1> SUFFICES ASSUME NEW u \in Users
             PROVE  logins'[u] + Admitted(u)' + Stored(u)' <= drawn'[u]
  BY DEF NoncesPaid
<1>1. Admitted(u)' = Admitted(u)
  BY AdmittedStep DEF Admits
<1> QED
  BY <1>1 DEF NoncesPaid, Stored

LEMMA NoncesPaidStep ==
  ASSUME TypeInv, NoncesPaid, [AuthNext]_vars
  PROVE  NoncesPaid'
<1> USE DEF stores, history
<1>1. CASE UNCHANGED vars \/ Tick
  BY <1>1 DEF vars, Tick, NoncesPaid, Admitted, Admits, Stored
<1>2. CASE Restart
  <2>1. \A u \in Users : logins'[u] = 0 /\ drawn'[u] = 0 /\ nonces'[u] = NoNonce
    BY <1>2 DEF Restart, AuthStart
  <2>2. ASSUME NEW u \in Users PROVE Admitted(u)' = 0
    <3>1. {r \in Requests : Admits(r, u)'} = {}
      BY <1>2 DEF Restart, AuthStart, Admits
    <3> QED
      BY <3>1, FS_EmptySet DEF Admitted
  <2> QED
    BY <2>1, <2>2 DEF NoncesPaid, Stored
<1>3. ASSUME NEW r \in Requests, AuthStep(r) PROVE NoncesPaid'
  <2>1. /\ phase \in [Requests -> Phases] /\ call \in [Requests -> Locals]
        /\ call[r].user \in Users
        /\ nonces \in [Users -> Nonces \cup {NoNonce}]
        /\ drawn \in [Users -> Nat] /\ logins \in [Users -> Nat]
    BY DEF TypeInv, AuthTypeOK, Locals
  <2>2. \A u \in Users : Admitted(u) \in Nat /\ Stored(u) \in Nat
    BY AdmittedFinite DEF Stored
  <2>3. CASE GET_nonce(r) \/ POST_auth(r) \/ POST_refresh(r) \/ Authenticate(r)
    <3>1. BeginStep(r)
      BY <2>3, BeginCases DEF TypeInv
    <3> QED
      BY <2>1, <3>1, PaidElsewhere DEF BeginStep, Begin, Running, GoTo
  <2>4. CASE generateNonce(r)
    <3> SUFFICES ASSUME NEW u \in Users
                 PROVE  logins'[u] + Admitted(u)' + Stored(u)' <= drawn'[u]
      BY DEF NoncesPaid
    <3>1. Admitted(u)' = Admitted(u)
      BY <2>1, <2>4, AdmittedStep DEF generateNonce, GoTo, Admits
    <3>2. CASE u = call[r].user
      <4>1. drawn'[u] = drawn[u] + 1 /\ logins'[u] = logins[u]
        BY <2>1, <2>4, <3>2 DEF generateNonce
      <4>2. Stored(u)' <= 1 /\ Stored(u)' \in Nat
        BY DEF Stored
      <4> QED
        BY <2>1, <2>2, <3>1, <4>1, <4>2 DEF NoncesPaid
    <3>3. CASE u # call[r].user
      <4>1. drawn'[u] = drawn[u] /\ logins'[u] = logins[u] /\ Stored(u)' = Stored(u)
        BY <2>1, <2>4, <3>3 DEF generateNonce, Stored
      <4> QED
        BY <3>1, <4>1 DEF NoncesPaid
    <3> QED
      BY <3>2, <3>3
  <2>5. CASE verifyNonce(r)
    <3> SUFFICES ASSUME NEW u \in Users
                 PROVE  logins'[u] + Admitted(u)' + Stored(u)' <= drawn'[u]
      BY DEF NoncesPaid
    <3>1. drawn'[u] = drawn[u] /\ logins'[u] = logins[u]
      BY <2>5 DEF verifyNonce
    <3>2. ~Admits(r, u) /\ \A s \in Requests \ {r} : Admits(s, u)' <=> Admits(s, u)
      BY <2>1, <2>5 DEF verifyNonce, Refuse, GoTo, Admits
    <3>3. CASE u # call[r].user
      <4>1. ~Admits(r, u)'
        BY <2>1, <2>5, <3>3 DEF verifyNonce, Refuse, GoTo, Admits
      <4>2. Stored(u)' = Stored(u)
        BY <2>1, <2>5, <3>3 DEF verifyNonce, DropNonce, Stored
      <4> QED
        BY <3>1, <3>2, <4>1, <4>2, AdmittedStep DEF NoncesPaid
    <3>4. CASE u = call[r].user /\ nonces[u] = call[r].nonce
      <4>1. Stored(u) = 1 /\ Stored(u)' = 0
        BY <2>1, <2>5, <3>4, AuthAssumption
        DEF verifyNonce, DropNonce, Stored, TypeInv, LocalsOK, AuthAssumption
      <4>2. Admits(r, u)'
        BY <2>1, <2>5, <3>4 DEF verifyNonce, GoTo, Admits
      <4>3. Admitted(u)' = Admitted(u) + 1
        BY <3>2, <4>2, AdmittedStep
      <4> QED
        BY <2>1, <2>2, <3>1, <4>1, <4>3 DEF NoncesPaid
    <3>5. CASE u = call[r].user /\ nonces[u] # call[r].nonce
      <4>1. Stored(u)' = 0
        BY <2>1, <2>5, <3>5 DEF verifyNonce, DropNonce, Stored
      <4>2. ~Admits(r, u)'
        BY <2>1, <2>5, <3>5 DEF verifyNonce, Refuse, GoTo, Admits
      <4>3. Admitted(u)' = Admitted(u)
        BY <3>2, <4>2, AdmittedStep
      <4> QED
        BY <2>1, <2>2, <3>1, <4>1, <4>3 DEF NoncesPaid
    <3> QED
      BY <3>3, <3>4, <3>5
  <2>6. CASE verifySignature(r)
    <3> SUFFICES ASSUME NEW u \in Users
                 PROVE  logins'[u] + Admitted(u)' + Stored(u)' <= drawn'[u]
      BY DEF NoncesPaid
    <3>1. drawn'[u] = drawn[u] /\ Stored(u)' = Stored(u)
      BY <2>6 DEF verifySignature, Stored
    <3>2. ~Admits(r, u)' /\ \A s \in Requests \ {r} : Admits(s, u)' <=> Admits(s, u)
      BY <2>1, <2>6 DEF verifySignature, Refuse, GoTo, Admits
    <3>3. CASE u # call[r].user
      <4>1. ~Admits(r, u) /\ logins'[u] = logins[u]
        BY <2>1, <2>6, <3>3 DEF verifySignature, Admits
      <4> QED
        BY <3>1, <3>2, <4>1, AdmittedStep DEF NoncesPaid
    <3>4. CASE u = call[r].user
      <4>1. Admits(r, u) /\ logins'[u] \in {logins[u], logins[u] + 1}
        BY <2>1, <2>6, <3>4 DEF verifySignature, Admits
      <4>2. Admitted(u)' = Admitted(u) - 1
        BY <3>2, <4>1, AdmittedStep
      <4> QED
        BY <2>1, <2>2, <3>1, <4>1, <4>2 DEF NoncesPaid
    <3> QED
      BY <3>3, <3>4
  <2>7. CASE VerifyRefresh(r) \/ CompareAccess(r)
    BY <2>1, <2>7, PaidElsewhere DEF VerifyRefresh, CompareAccess, Refuse, GoTo
  <2>8. CASE generateAccessToken(r) \/ generateRefreshToken(r) \/ VerifyAccess(r)
    BY <2>1, <2>8, PaidElsewhere
    DEF generateAccessToken, generateRefreshToken, VerifyAccess, GoTo
  <2>9. CASE Answer(r) \/ LoseAnswer(r)
    BY <2>1, <2>9, PaidElsewhere DEF Answer, LoseAnswer, GoTo
  <2> QED
    BY <1>3, <2>3, <2>4, <2>5, <2>6, <2>7, <2>8, <2>9 DEF AuthStep
<1> QED
  BY <1>1, <1>2, <1>3 DEF AuthNext

LEMMA GrantsPaidStep ==
  ASSUME TypeInv, NoncesPaid, GrantsPaid, [AuthNext]_vars
  PROVE  GrantsPaid'
<1> USE DEF stores, history
<1>1. CASE UNCHANGED vars \/ Tick
  BY <1>1 DEF vars, Tick, GrantsPaid
<1>2. CASE Restart
  BY <1>2 DEF Restart, AuthStart, GrantsPaid
<1>3. ASSUME NEW r \in Requests, AuthStep(r) PROVE GrantsPaid'
  <2>1. /\ phase \in [Requests -> Phases] /\ call \in [Requests -> Locals]
        /\ \A s \in Requests : call[s].user \in Users
        /\ accessTokens \in [Users -> Seconds \cup {NoToken}]
        /\ refreshTokens \in [Users -> Seconds \cup {NoToken}]
        /\ logins \in [Users -> Nat]
    BY DEF TypeInv, AuthTypeOK, Locals
  <2>2. ASSUME UNCHANGED <<accessTokens, refreshTokens, logins>>,
               \A s \in Requests \ {r} : phase'[s] = phase[s] /\ call'[s] = call[s],
               phase'[r] \notin {"compareAccess", "access", "refresh"}
        PROVE  GrantsPaid'
    BY <2>2 DEF GrantsPaid
  <2>3. CASE GET_nonce(r) \/ POST_auth(r) \/ POST_refresh(r) \/ Authenticate(r)
    <3>1. BeginStep(r)
      BY <2>3, BeginCases DEF TypeInv
    <3> QED
      BY <2>1, <2>2, <3>1 DEF BeginStep, Begin, GoTo
  <2>4. CASE generateNonce(r) \/ verifyNonce(r) \/ VerifyAccess(r) \/ Answer(r) \/ LoseAnswer(r)
    BY <2>1, <2>2, <2>4
    DEF generateNonce, verifyNonce, VerifyAccess, Answer, LoseAnswer, Refuse, GoTo
  <2>5. CASE verifySignature(r)
    <3>1. /\ UNCHANGED <<accessTokens, refreshTokens, call>>
          /\ \A u \in Users : logins'[u] >= logins[u]
          /\ \A s \in Requests \ {r} : phase'[s] = phase[s]
          /\ phase'[r] = "access" => logins'[call[r].user] = logins[call[r].user] + 1
          /\ phase'[r] \in {"access", "answer"}
      BY <2>1, <2>5 DEF verifySignature, Refuse, GoTo
    <3>2. logins' \in [Users -> Nat]
      BY <2>1, <2>5 DEF verifySignature
    <3>3. \A u \in Users :
            accessTokens'[u] # NoToken \/ refreshTokens'[u] # NoToken => logins'[u] > 0
      BY <2>1, <3>1, <3>2 DEF GrantsPaid
    <3>4. \A s \in Requests :
            phase'[s] \in {"compareAccess", "access", "refresh"} => logins'[call'[s].user] > 0
      BY <2>1, <3>1, <3>2 DEF GrantsPaid
    <3> QED
      BY <3>3, <3>4 DEF GrantsPaid
  <2>6. CASE VerifyRefresh(r)
    <3>1. /\ UNCHANGED <<accessTokens, refreshTokens, logins, call>>
          /\ \A s \in Requests \ {r} : phase'[s] = phase[s]
          /\ phase'[r] = "answer" \/ refreshTokens[call[r].user] # NoToken
      BY <2>1, <2>6, SecondsAreNumbers
      DEF VerifyRefresh, verifyRefreshToken, Refuse, GoTo, TypeInv, LocalsOK
    <3> QED
      BY <2>1, <3>1 DEF GrantsPaid
  <2>7. CASE CompareAccess(r) \/ generateAccessToken(r) \/ generateRefreshToken(r)
    <3>1. logins[call[r].user] > 0
      BY <2>7 DEF CompareAccess, generateAccessToken, generateRefreshToken, GrantsPaid
    <3>2. /\ UNCHANGED logins
          /\ \A s \in Requests : call'[s].user = call[s].user
          /\ \A s \in Requests \ {r} : phase'[s] = phase[s]
          /\ \A u \in Users \ {call[r].user} :
               accessTokens'[u] = accessTokens[u] /\ refreshTokens'[u] = refreshTokens[u]
      BY <2>1, <2>7
      DEF CompareAccess, generateAccessToken, generateRefreshToken, Refuse, GoTo, Locals
    <3> QED
      BY <3>1, <3>2 DEF GrantsPaid
  <2> QED
    BY <1>3, <2>3, <2>4, <2>5, <2>6, <2>7 DEF AuthStep
<1> QED
  BY <1>1, <1>2, <1>3 DEF AuthNext

\* With any number of threads, handlers and lost answers, a nonce lets in one login
\* at most, and tokens exist only for an address that has logged in since the start.
THEOREM SessionsCorrect == AuthSpec => []SessionsStartWithLogin
<1>1. AuthInit => NoncesPaid /\ GrantsPaid
  <2> SUFFICES ASSUME AuthInit PROVE NoncesPaid /\ GrantsPaid
    OBVIOUS
  <2>1. ASSUME NEW u \in Users PROVE Admitted(u) = 0
    <3>1. {r \in Requests : Admits(r, u)} = {}
      BY DEF AuthInit, Admits
    <3> QED
      BY <3>1, FS_EmptySet DEF Admitted
  <2> QED
    BY <2>1 DEF AuthInit, NoncesPaid, GrantsPaid, Stored
<1>2. TypeInv /\ NoncesPaid /\ GrantsPaid /\ [AuthNext]_vars => NoncesPaid' /\ GrantsPaid'
  BY NoncesPaidStep, GrantsPaidStep
<1>3. TypeInv /\ NoncesPaid /\ GrantsPaid => SessionsStartWithLogin
  <2> SUFFICES ASSUME TypeInv, NoncesPaid, GrantsPaid, NEW u \in Users
               PROVE  /\ logins[u] <= drawn[u]
                      /\ accessTokens[u] # NoToken \/ refreshTokens[u] # NoToken => logins[u] > 0
    BY DEF SessionsStartWithLogin
  <2>1. Admitted(u) \in Nat /\ Stored(u) \in Nat /\ logins[u] \in Nat /\ drawn[u] \in Nat
    BY AdmittedFinite DEF Stored, TypeInv, AuthTypeOK
  <2>2. logins[u] + Admitted(u) + Stored(u) <= drawn[u]
    BY DEF NoncesPaid
  <2>3. logins[u] <= drawn[u]
    BY <2>1, <2>2
  <2> QED
    BY <2>3 DEF GrantsPaid
<1> QED
  BY <1>1, <1>2, <1>3, TypeInvariant, PTL DEF AuthSpec
-----------------------------------------------------------------------------
(* With one thread the stores implement one session per address *)

\* A handler between making the two tokens of u.
Replacing(u) == \E r \in Requests : phase[r] = "refresh" /\ call[r].user = u

\* A handler between two calls is alone, and the tokens of an address are those of
\* one pair, the access token made first; between the two calls of a grant it is
\* the pair with the replaced access token that is whole.
OneBusy == \A r, s \in Busy : r = s

PairOK(access, u) ==
  access # NoToken =>
    refreshTokens[u] # NoToken /\ access <= refreshTokens[u]

PairsWhole ==
  \A u \in Users :
    /\ refreshTokens[u] # NoToken => refreshTokens[u] <= now
    /\ Replacing(u) => /\ PairOK(before[u], u)
                       /\ accessTokens[u] # NoToken
                       /\ before[u] # NoToken => before[u] <= accessTokens[u]
    /\ ~Replacing(u) => PairOK(accessTokens[u], u)

SessionsInv == TypeInv /\ TokensOrdered /\ OneBusy /\ PairsWhole

LEMMA OneBusyStep ==
  ASSUME Threads = 1, TypeInv, OneBusy, [AuthNext]_vars
  PROVE  OneBusy'
<1> USE DEF stores, history
<1>1. CASE UNCHANGED vars \/ Tick
  BY <1>1 DEF vars, Tick, OneBusy, Busy
<1>2. CASE Restart
  BY <1>2 DEF Restart, AuthStart, OneBusy, Busy
<1>3. ASSUME NEW r \in Requests, AuthStep(r) PROVE OneBusy'
  <2>1. phase \in [Requests -> Phases]
    BY DEF TypeInv, AuthTypeOK
  <2>2. CASE GET_nonce(r) \/ POST_auth(r) \/ POST_refresh(r) \/ Authenticate(r)
    <3>1. BeginStep(r)
      BY <2>2, BeginCases DEF TypeInv
    <3>2. Busy = {} /\ \A s \in Requests \ {r} : phase'[s] = phase[s]
      BY <2>1, <3>1 DEF BeginStep, Begin, Running, GoTo
    <3> QED
      BY <3>2 DEF OneBusy, Busy
  <2>3. CASE \/ generateNonce(r) \/ verifyNonce(r) \/ verifySignature(r) \/ VerifyRefresh(r)
             \/ CompareAccess(r) \/ generateAccessToken(r) \/ generateRefreshToken(r)
             \/ VerifyAccess(r) \/ Answer(r) \/ LoseAnswer(r)
    <3>1. \A s \in Requests \ {r} : phase'[s] = phase[s]
      BY <2>1, <2>3
      DEF generateNonce, verifyNonce, verifySignature, VerifyRefresh, CompareAccess,
          generateAccessToken, generateRefreshToken, VerifyAccess, Answer, LoseAnswer,
          Refuse, GoTo
    <3>2. r \in Busy \/ phase'[r] = "idle"
      BY <2>1, <2>3
      DEF generateNonce, verifyNonce, verifySignature, VerifyRefresh, CompareAccess,
          generateAccessToken, generateRefreshToken, VerifyAccess, Answer, LoseAnswer,
          Refuse, GoTo, Busy
    <3> QED
      BY <3>1, <3>2 DEF OneBusy, Busy
  <2> QED
    BY <1>3, <2>2, <2>3 DEF AuthStep
<1> QED
  BY <1>1, <1>2, <1>3 DEF AuthNext

\* The steps of one handler that make no token and leave no grant half made.
QuietStep(r) ==
  /\ UNCHANGED <<accessTokens, refreshTokens, now, before>>
  /\ phase[r] # "refresh" /\ phase'[r] # "refresh"
  /\ \A s \in Requests \ {r} : phase'[s] = phase[s] /\ call'[s] = call[s]

LEMMA QuietCases ==
  ASSUME TypeInv, NEW r \in Requests, AuthStep(r)
  PROVE  generateAccessToken(r) \/ generateRefreshToken(r) \/ QuietStep(r)
<1> USE DEF stores, history
<1>1. phase \in [Requests -> Phases] /\ call \in [Requests -> Locals]
  BY DEF TypeInv, AuthTypeOK
<1>2. CASE GET_nonce(r) \/ POST_auth(r) \/ POST_refresh(r) \/ Authenticate(r)
  <2>1. BeginStep(r)
    BY <1>2, BeginCases DEF TypeInv
  <2> QED
    BY <1>1, <2>1 DEF BeginStep, Begin, Running, GoTo, QuietStep
<1>3. CASE generateNonce(r) \/ verifyNonce(r) \/ verifySignature(r) \/ VerifyRefresh(r)
           \/ CompareAccess(r)
  BY <1>1, <1>3
  DEF generateNonce, verifyNonce, verifySignature, VerifyRefresh, CompareAccess, Refuse,
      GoTo, QuietStep
<1>4. CASE VerifyAccess(r) \/ Answer(r) \/ LoseAnswer(r)
  BY <1>1, <1>4 DEF VerifyAccess, Answer, LoseAnswer, GoTo, QuietStep
<1> QED
  BY <1>2, <1>3, <1>4 DEF AuthStep

LEMMA QuietKeeps ==
  ASSUME NEW r \in Requests, QuietStep(r), NEW u \in Users
  PROVE  (Replacing(u)' <=> Replacing(u)) /\ SessionOf(u)' = SessionOf(u)
<1>1. Replacing(u)' <=> Replacing(u)
  BY DEF QuietStep, Replacing
<1> QED
  BY <1>1 DEF QuietStep, Replacing, SessionOf

\* What the two calls of a grant do to the address they are for, and to the others.
LEMMA AccessMade ==
  ASSUME TypeInv, OneBusy, NEW r \in Requests, generateAccessToken(r)
  PROVE  /\ call[r].user \in Users
         /\ \A u \in Users : ~Replacing(u) /\ (Replacing(u)' <=> u = call[r].user)
         /\ accessTokens' = [accessTokens EXCEPT ![call[r].user] = now]
         /\ before' = [before EXCEPT ![call[r].user] = accessTokens[call[r].user]]
         /\ refreshTokens' = refreshTokens /\ now' = now
<1>1. phase \in [Requests -> Phases] /\ call \in [Requests -> Locals] /\ call[r].user \in Users
  BY DEF TypeInv, AuthTypeOK, Locals
<1>2. \A s \in Requests \ {r} : phase[s] \in {"idle", "answer"}
  BY DEF generateAccessToken, OneBusy, Busy
<1>3. /\ phase[r] = "access" /\ phase'[r] = "refresh" /\ call'[r].user = call[r].user
      /\ \A s \in Requests \ {r} : phase'[s] = phase[s]
  BY <1>1 DEF generateAccessToken, GoTo, Locals
<1> QED
  BY <1>1, <1>2, <1>3 DEF generateAccessToken, Replacing

LEMMA RefreshMade ==
  ASSUME TypeInv, OneBusy, NEW r \in Requests, generateRefreshToken(r)
  PROVE  /\ call[r].user \in Users
         /\ \A u \in Users : ~Replacing(u)' /\ (Replacing(u) <=> u = call[r].user)
         /\ refreshTokens' = [refreshTokens EXCEPT ![call[r].user] = now]
         /\ UNCHANGED <<accessTokens, before, now>>
<1>1. phase \in [Requests -> Phases] /\ call \in [Requests -> Locals] /\ call[r].user \in Users
  BY DEF TypeInv, AuthTypeOK, Locals
<1>2. \A s \in Requests \ {r} : phase[s] \in {"idle", "answer"}
  BY DEF generateRefreshToken, OneBusy, Busy
<1>3. /\ phase[r] = "refresh" /\ phase'[r] = "answer"
      /\ \A s \in Requests \ {r} : phase'[s] = phase[s]
  BY <1>1 DEF generateRefreshToken, GoTo
<1> QED
  BY <1>1, <1>2, <1>3 DEF generateRefreshToken, Replacing, history

LEMMA PairsStep ==
  ASSUME SessionsInv, [AuthNext]_vars
  PROVE  PairsWhole'
<1> USE DEF stores, history
<1>1. /\ TypeInv /\ TokensOrdered /\ OneBusy /\ PairsWhole
      /\ now \in Nat /\ now # NoToken
      /\ accessTokens \in [Users -> Seconds \cup {NoToken}]
      /\ refreshTokens \in [Users -> Seconds \cup {NoToken}]
      /\ before \in [Users -> Seconds \cup {NoToken}]
  BY SecondsAreNumbers DEF SessionsInv, TypeInv, AuthTypeOK
<1>2. CASE UNCHANGED vars
  BY <1>1, <1>2 DEF vars, PairsWhole, PairOK, Replacing
<1>3. CASE Tick
  <2>1. now' = now + 1 /\ UNCHANGED <<accessTokens, refreshTokens, before, phase, call>>
    BY <1>3 DEF Tick
  <2>2. \A u \in Users : Replacing(u)' <=> Replacing(u)
    BY <2>1 DEF Replacing
  <2>3. \A u \in Users : refreshTokens[u] # NoToken => refreshTokens[u] \in Nat
    BY <1>1, SecondsAreNumbers
  <2> QED
    BY <1>1, <2>1, <2>2, <2>3 DEF PairsWhole, PairOK
<1>4. CASE Restart
  BY <1>4 DEF Restart, AuthStart, PairsWhole, PairOK, Replacing
<1>5. ASSUME NEW r \in Requests, QuietStep(r) PROVE PairsWhole'
  <2> SUFFICES ASSUME NEW u \in Users
               PROVE  /\ refreshTokens'[u] # NoToken => refreshTokens'[u] <= now'
                      /\ Replacing(u)' => /\ PairOK(before[u], u)'
                                          /\ accessTokens'[u] # NoToken
                                          /\ before'[u] # NoToken =>
                                               before'[u] <= accessTokens'[u]
                      /\ ~Replacing(u)' => PairOK(accessTokens[u], u)'
    BY DEF PairsWhole
  <2>1. Replacing(u)' <=> Replacing(u)
    BY <1>5, QuietKeeps
  <2> QED
    BY <1>1, <1>5, <2>1 DEF PairsWhole, PairOK, QuietStep
<1>6. ASSUME NEW r \in Requests, generateAccessToken(r) PROVE PairsWhole'
  <2> SUFFICES ASSUME NEW u \in Users
               PROVE  /\ refreshTokens'[u] # NoToken => refreshTokens'[u] <= now'
                      /\ Replacing(u)' => /\ PairOK(before[u], u)'
                                          /\ accessTokens'[u] # NoToken
                                          /\ before'[u] # NoToken =>
                                               before'[u] <= accessTokens'[u]
                      /\ ~Replacing(u)' => PairOK(accessTokens[u], u)'
    BY DEF PairsWhole
  <2> USE <1>1, <1>6, AccessMade
  <2>1. CASE u = call[r].user
    <3>1. accessTokens'[u] = now /\ before'[u] = accessTokens[u]
      BY <2>1
    <3>2. accessTokens[u] # NoToken => accessTokens[u] <= now
      BY DEF TokensOrdered
    <3> QED
      BY <2>1, <3>1, <3>2 DEF PairsWhole, PairOK
  <2>2. CASE u # call[r].user
    BY <2>2 DEF PairsWhole, PairOK
  <2> QED
    BY <2>1, <2>2
<1>7. ASSUME NEW r \in Requests, generateRefreshToken(r) PROVE PairsWhole'
  <2> SUFFICES ASSUME NEW u \in Users
               PROVE  /\ refreshTokens'[u] # NoToken => refreshTokens'[u] <= now'
                      /\ PairOK(accessTokens[u], u)'
    BY <1>1, <1>7, RefreshMade DEF PairsWhole
  <2> USE <1>1, <1>7, RefreshMade
  <2>1. CASE u = call[r].user
    <3>1. refreshTokens'[u] = now /\ accessTokens'[u] = accessTokens[u] /\ now' = now
      BY <2>1
    <3>2. accessTokens[u] # NoToken => accessTokens[u] <= now
      BY DEF TokensOrdered
    <3> QED
      BY <3>1, <3>2 DEF PairOK
  <2>2. CASE u # call[r].user
    BY <2>2 DEF PairsWhole, PairOK
  <2> QED
    BY <2>1, <2>2
<1> QED
  BY <1>1, <1>2, <1>3, <1>4, <1>5, <1>6, <1>7, QuietCases DEF AuthNext

LEMMA SessionsInvariant ==
  ASSUME Threads = 1
  PROVE  AuthSpec => []SessionsInv
<1>1. AuthInit => OneBusy /\ PairsWhole
  BY DEF AuthInit, OneBusy, Busy, PairsWhole, PairOK, Replacing
<1>2. TypeInv /\ TokensOrdered /\ OneBusy /\ PairsWhole /\ [AuthNext]_vars
        => OneBusy' /\ PairsWhole'
  BY OneBusyStep, PairsStep DEF SessionsInv
<1>3. TypeInv /\ TokensOrdered /\ OneBusy /\ PairsWhole => SessionsInv
  BY DEF SessionsInv
<1> QED
  BY <1>1, <1>2, <1>3, TypeInvariant, OrderedInvariant, PTL DEF AuthSpec

\* A whole new pair takes the place of the old one when the refresh token is stored.
LEMMA GrantStep ==
  ASSUME SessionsInv, NEW r \in Requests, generateRefreshToken(r),
         NEW u \in Users, u = call[r].user
  PROVE  Promise!Grant(u)
<1> DEFINE pair == [access |-> accessTokens[u], refresh |-> now]
<1>1. /\ TypeInv /\ TokensOrdered /\ OneBusy /\ PairsWhole
      /\ accessTokens \in [Users -> Seconds \cup {NoToken}]
      /\ refreshTokens \in [Users -> Seconds \cup {NoToken}]
      /\ before \in [Users -> Seconds \cup {NoToken}]
      /\ now \in Nat
  BY SecondsAreNumbers DEF SessionsInv, TypeInv, AuthTypeOK
<1>2. /\ \A v \in Users : ~Replacing(v)' /\ (Replacing(v) <=> v = u)
      /\ refreshTokens' = [refreshTokens EXCEPT ![u] = now]
      /\ UNCHANGED <<accessTokens, before, now>>
  BY <1>1, RefreshMade
<1>3. /\ accessTokens[u] \in Nat /\ accessTokens[u] # NoToken /\ accessTokens[u] <= now
      /\ before[u] # NoToken => before[u] <= accessTokens[u]
      /\ refreshTokens[u] # NoToken => refreshTokens[u] <= now
      /\ PairOK(before[u], u)
  BY <1>1, <1>2, SecondsAreNumbers DEF PairsWhole, TokensOrdered
<1>4. /\ SessionOf(u) = IF before[u] = NoToken THEN NoSession
                        ELSE [access |-> before[u], refresh |-> refreshTokens[u]]
      /\ SessionOf(u)' = pair
      /\ \A v \in Users \ {u} : SessionOf(v)' = SessionOf(v)
  <2>1. SessionOf(u) = IF before[u] = NoToken THEN NoSession
                       ELSE [access |-> before[u], refresh |-> refreshTokens[u]]
    BY <1>2 DEF SessionOf, Replacing
  <2>2. SessionOf(u)' = pair
    <3>1. ~Replacing(u)' /\ accessTokens'[u] = accessTokens[u] /\ refreshTokens'[u] = now
      BY <1>1, <1>2
    <3>2. SessionOf(u)' = [access |-> accessTokens[u], refresh |-> now]
      BY <1>3, <3>1 DEF SessionOf, Replacing
    <3> QED
      BY <3>2
  <2>3. ASSUME NEW v \in Users \ {u} PROVE SessionOf(v)' = SessionOf(v)
    <3>1. ~Replacing(v) /\ ~Replacing(v)' /\ refreshTokens'[v] = refreshTokens[v]
      BY <1>1, <1>2
    <3> QED
      BY <1>2, <3>1 DEF SessionOf, Replacing
  <2> QED
    BY <2>1, <2>2, <2>3
<1>5. SessionOf(u) # NoSession =>
        pair.access >= SessionOf(u).access /\ pair.refresh >= SessionOf(u).refresh
  BY <1>1, <1>2, <1>3, <1>4, SecondsAreNumbers DEF PairOK
<1>6. pair \in Promise!PairsUpTo(now) /\ pair.access <= pair.refresh
  BY <1>1, <1>3 DEF Promise!PairsUpTo, Promise!Pair
<1> HIDE DEF pair
<1>7. [v \in Users |-> SessionOf(v)]' = [[v \in Users |-> SessionOf(v)] EXCEPT ![u] = pair]
  <2>1. \A v \in Users : SessionOf(v)' = IF v = u THEN pair ELSE SessionOf(v)
    BY <1>4
  <2>2. [v \in Users |-> SessionOf(v)]' = [v \in Users |-> IF v = u THEN pair ELSE SessionOf(v)]
    BY <2>1
  <2> QED
    BY <1>2, <2>2
<1> QED
  BY <1>2, <1>5, <1>6, <1>7 DEF Promise!Grant, Promise!NotOlder

\* With one thread, what the two maps of tokens store is one session per address,
\* made, replaced and dropped as one pair that never goes back (generate_access_token
\* and generate_refresh_token, called one after the other by POST_auth and
\* POST_refresh).
THEOREM SessionsImplemented ==
  ASSUME Threads = 1
  PROVE  AuthSpec => ImplementsSessions
<1> USE DEF stores, history
<1>1. AuthInit => Promise!SessionsInit
  <2> SUFFICES ASSUME AuthInit PROVE Promise!SessionsInit
    OBVIOUS
  <2>1. \A u \in Users : SessionOf(u) = NoSession
    BY DEF AuthInit, SessionOf
  <2> QED
    BY <2>1 DEF AuthInit, Promise!SessionsInit
<1>2. SessionsInv /\ [AuthNext]_vars
        => [Promise!SessionsNext]_<<[u \in Users |-> SessionOf(u)], now>>
  <2> SUFFICES ASSUME SessionsInv, [AuthNext]_vars
               PROVE  \/ Promise!SessionsNext
                      \/ UNCHANGED <<[u \in Users |-> SessionOf(u)], now>>
    OBVIOUS
  <2>1. CASE UNCHANGED vars
    BY <2>1 DEF vars, SessionOf
  <2>2. CASE Tick
    <3>1. \A u \in Users : SessionOf(u)' = SessionOf(u)
      BY <2>2 DEF Tick, SessionOf
    <3> QED
      BY <2>2, <3>1 DEF Tick, Promise!SessionsNext, Promise!Pass
  <2>3. CASE Restart
    <3>1. \A u \in Users : SessionOf(u)' = NoSession
      BY <2>3 DEF Restart, AuthStart, SessionOf
    <3> QED
      BY <2>3, <3>1 DEF Restart, Promise!SessionsNext, Promise!Forget
  <2>4. ASSUME NEW r \in Requests, QuietStep(r)
        PROVE  UNCHANGED <<[u \in Users |-> SessionOf(u)], now>>
    <3>1. \A u \in Users : SessionOf(u)' = SessionOf(u)
      BY <2>4, QuietKeeps
    <3> QED
      BY <2>4, <3>1 DEF QuietStep
  <2>5. ASSUME NEW r \in Requests, generateAccessToken(r)
        PROVE  UNCHANGED <<[u \in Users |-> SessionOf(u)], now>>
    <3>1. ASSUME NEW u \in Users PROVE SessionOf(u)' = SessionOf(u)
      <4>1. ~Replacing(u) /\ (Replacing(u)' <=> u = call[r].user) /\ now' = now
        BY <2>5, AccessMade DEF SessionsInv
      <4>2. refreshTokens' = refreshTokens
        BY <2>5, AccessMade DEF SessionsInv
      <4>3. IF u = call[r].user THEN before'[u] = accessTokens[u]
                                ELSE accessTokens'[u] = accessTokens[u]
        BY <2>5, AccessMade DEF SessionsInv, TypeInv, AuthTypeOK
      <4> QED
        BY <4>1, <4>2, <4>3 DEF SessionOf, Replacing
    <3> QED
      BY <2>5, <3>1 DEF generateAccessToken
  <2>6. ASSUME NEW r \in Requests, generateRefreshToken(r) PROVE Promise!SessionsNext
    <3> PICK u \in Users : u = call[r].user
      BY <2>6, RefreshMade DEF SessionsInv
    <3>1. Promise!Grant(u)
      BY <2>6, GrantStep
    <3> QED
      BY <3>1 DEF Promise!SessionsNext
  <2>7. ASSUME NEW r \in Requests, AuthStep(r)
        PROVE  \/ Promise!SessionsNext
               \/ UNCHANGED <<[u \in Users |-> SessionOf(u)], now>>
    BY <2>4, <2>5, <2>6, <2>7, QuietCases DEF SessionsInv
  <2> QED
    BY <2>1, <2>2, <2>3, <2>7 DEF AuthNext
<1> QED
  BY <1>1, <1>2, SessionsInvariant, PTL DEF AuthSpec, ImplementsSessions, Promise!SessionsSpec
=============================================================================
