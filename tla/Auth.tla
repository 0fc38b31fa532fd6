-------------------------------- MODULE Auth --------------------------------
(***************************************************************************)
(* Login and sessions: AuthManager (src/auth) and the handlers that use it *)
(* (api_auth.cpp).  A handler is a coroutine: it reads a request, makes a  *)
(* few calls to the AuthManager, one after another, each on the manager's  *)
(* strand, and answers.  Each call is one step of the model.               *)
(*                                                                         *)
(* With one thread in io_context::run (main.cpp) a dispatch to a free      *)
(* strand runs in place, so no other handler moves between two calls; with *)
(* more threads any other handler may.  Threads tells the two apart.       *)
(*                                                                         *)
(* A token is a signed function of the address, its kind and the second it *)
(* was made in: two tokens of one kind made for one address in the same    *)
(* second are the same string.  A stored token is therefore its second.    *)
(***************************************************************************)
EXTENDS Naturals, FiniteSets

CONSTANTS
  Users,          \* account addresses
  Requests,       \* connections, each with one request at a time
  Nonces,         \* what the random generator may draw
  Threads,        \* threads that run the io_context
  AccessLife,     \* lifetime of an access token (10 minutes)
  RefreshLife,    \* lifetime of a refresh token (7 days)
  MaxTime,        \* bound: the last second
  MaxDraws,       \* bound: nonces drawn for one address since the start
  NoNonce, NoToken, NoSession

ASSUME AuthAssumption ==
  /\ Threads \in Nat \ {0}
  /\ AccessLife \in Nat \ {0} /\ RefreshLife \in Nat \ {0}
  /\ MaxTime \in Nat /\ MaxDraws \in Nat
  /\ Users # {}
  /\ IsFiniteSet(Requests)
  /\ NoNonce \notin Nonces
  /\ NoToken \notin Nat

Seconds == 0..MaxTime

\* The tokens a client got from one answer.
TokenPair == [user : Users, access : Seconds, refresh : Seconds]

Phases == {"idle", "storeNonce", "verifyNonce", "verifySignature", "verifyRefresh",
           "compareAccess", "access", "refresh", "verifyAccess", "answer"}

\* The locals of a handler, over all routes: the address it acts for, the nonce
\* it stores or was sent, whether the signature is the address's own, the tokens
\* it was sent, and the access token it made.
Locals == [user : Users, nonce : Nonces \cup {NoNonce}, signed : BOOLEAN,
           access : Seconds \cup {NoToken}, refresh : Seconds \cup {NoToken},
           made : Seconds \cup {NoToken}, granted : BOOLEAN, accepted : BOOLEAN]

VARIABLES
  nonces,          \* _nonces
  accessTokens,    \* _access_tokens: the second the stored token was made in
  refreshTokens,   \* _refresh_tokens
  phase, call,     \* per connection: where its handler is, and its locals
  held,            \* the pairs of tokens clients received
  now,             \* the system clock, in seconds
  drawn, logins,   \* history: nonces stored, logins accepted, since the start
  before           \* history: the access token that a grant is replacing

stores == <<nonces, accessTokens, refreshTokens>>
history == <<drawn, logins, before>>
vars == <<stores, phase, call, held, now, history>>

\* A handler between two calls occupies its thread.
Busy == {r \in Requests : phase[r] \notin {"idle", "answer"}}

Running(r) == phase[r] = "idle" /\ (Threads > 1 \/ Busy = {})

Blank(user) == [user |-> user, nonce |-> NoNonce, signed |-> FALSE, access |-> NoToken,
                refresh |-> NoToken, made |-> NoToken, granted |-> FALSE, accepted |-> FALSE]

GoTo(r, p) == phase' = [phase EXCEPT ![r] = p]

Begin(r, p, locals) ==
  /\ Running(r)
  /\ GoTo(r, p)
  /\ call' = [call EXCEPT ![r] = locals]
  /\ UNCHANGED <<stores, held, now, history>>

\* An early return: the handler answers with an error.
Refuse(r) == GoTo(r, "answer") /\ UNCHANGED call

AnyUser == CHOOSE u \in Users : TRUE

\* The state of the AuthManager when the process starts.
AuthStart ==
  /\ nonces' = [u \in Users |-> NoNonce]
  /\ accessTokens' = [u \in Users |-> NoToken]
  /\ refreshTokens' = [u \in Users |-> NoToken]
  /\ phase' = [r \in Requests |-> "idle"]
  /\ call' = [r \in Requests |-> Blank(AnyUser)]
  /\ drawn' = [u \in Users |-> 0]
  /\ logins' = [u \in Users |-> 0]
  /\ before' = [u \in Users |-> NoToken]

AuthInit ==
  /\ nonces = [u \in Users |-> NoNonce]
  /\ accessTokens = [u \in Users |-> NoToken]
  /\ refreshTokens = [u \in Users |-> NoToken]
  /\ phase = [r \in Requests |-> "idle"]
  /\ call = [r \in Requests |-> Blank(AnyUser)]
  /\ drawn = [u \in Users |-> 0]
  /\ logins = [u \in Users |-> 0]
  /\ before = [u \in Users |-> NoToken]
  /\ held = {}
  /\ now = 0

-----------------------------------------------------------------------------
(* GET /nonce/<address>: the nonce is drawn before the strand is entered.   *)

GET_nonce(r) ==
  \E u \in Users, n \in Nonces :
    /\ drawn[u] < MaxDraws
    /\ Begin(r, "storeNonce", [Blank(u) EXCEPT !.nonce = n])

generateNonce(r) ==
  LET u == call[r].user IN
  /\ phase[r] = "storeNonce"
  /\ nonces' = [nonces EXCEPT ![u] = call[r].nonce]
  /\ drawn' = [drawn EXCEPT ![u] = @ + 1]
  /\ GoTo(r, "answer")
  /\ UNCHANGED <<accessTokens, refreshTokens, call, held, now, logins, before>>

(* POST /auth: any address with any nonce, signed by that address or not.   *)

POST_auth(r) ==
  \E u \in Users, n \in Nonces, signed \in BOOLEAN :
    Begin(r, "verifyNonce", [Blank(u) EXCEPT !.nonce = n, !.signed = signed])

\* (mutant) a nonce that matched stays
KeepNonce(u) == UNCHANGED nonces

\* The stored nonce is dropped whether or not it matched.
DropNonce(u) == nonces' = [nonces EXCEPT ![u] = NoNonce]

verifyNonce(r) ==
  LET u == call[r].user IN
  /\ phase[r] = "verifyNonce"
  /\ IF nonces[u] = call[r].nonce
     THEN GoTo(r, "verifySignature") /\ UNCHANGED call
     ELSE Refuse(r)
  /\ DropNonce(u)
  /\ UNCHANGED <<accessTokens, refreshTokens, held, now, history>>

verifySignature(r) ==
  LET u == call[r].user IN
  /\ phase[r] = "verifySignature"
  /\ IF call[r].signed
     THEN /\ GoTo(r, "access")
          /\ logins' = [logins EXCEPT ![u] = @ + 1]
          /\ UNCHANGED call
     ELSE Refuse(r) /\ UNCHANGED logins
  /\ UNCHANGED <<stores, held, now, drawn, before>>

-----------------------------------------------------------------------------
(* POST /refresh: a refresh token and an access token a client holds, not   *)
(* necessarily of one pair.                                                 *)

POST_refresh(r) ==
  \E p, q \in held :
    Begin(r, "verifyRefresh", [Blank(p.user) EXCEPT !.refresh = p.refresh, !.access =
            IF q.user = p.user THEN q.access ELSE NoToken])

\* jwt::verify: the signature holds and the token has not expired.
Expired(made, life) == now >= made + life

\* (mutant) the token is not compared with the stored one
verifyRefreshSignature(user, token) == ~Expired(token, RefreshLife)

verifyRefreshToken(user, token) ==
  /\ ~Expired(token, RefreshLife)
  /\ refreshTokens[user] = token

VerifyRefresh(r) ==
  /\ phase[r] = "verifyRefresh"
  /\ IF verifyRefreshToken(call[r].user, call[r].refresh)
     THEN GoTo(r, "compareAccess") /\ UNCHANGED call
     ELSE Refuse(r)
  /\ UNCHANGED <<stores, held, now, history>>

\* The access token only has to be the stored one: it may have expired.
compareAccessToken(user, token) ==
  token # NoToken /\ accessTokens[user] = token

CompareAccess(r) ==
  /\ phase[r] = "compareAccess"
  /\ IF compareAccessToken(call[r].user, call[r].access)
     THEN GoTo(r, "access") /\ UNCHANGED call
     ELSE Refuse(r)
  /\ UNCHANGED <<stores, held, now, history>>

-----------------------------------------------------------------------------
(* The end of both: an access token, then a refresh token.                  *)

\* (mutant) the token's expiry is stored instead of its issue
storeExpiry(r) ==
  LET u == call[r].user IN
  /\ phase[r] = "access"
  /\ accessTokens' = [accessTokens EXCEPT ![u] = now + AccessLife]
  /\ before' = [before EXCEPT ![u] = accessTokens[u]]
  /\ call' = [call EXCEPT ![r].made = now]
  /\ GoTo(r, "refresh")
  /\ UNCHANGED <<nonces, refreshTokens, held, now, drawn, logins>>

generateAccessToken(r) ==
  LET u == call[r].user IN
  /\ phase[r] = "access"
  /\ accessTokens' = [accessTokens EXCEPT ![u] = now]
  /\ before' = [before EXCEPT ![u] = accessTokens[u]]
  /\ call' = [call EXCEPT ![r].made = now]
  /\ GoTo(r, "refresh")
  /\ UNCHANGED <<nonces, refreshTokens, held, now, drawn, logins>>

\* (mutant) the refresh token of an address is made once
keepRefreshToken(r) ==
  LET u == call[r].user IN
  /\ phase[r] = "refresh"
  /\ refreshTokens' = [refreshTokens EXCEPT ![u] = IF @ = NoToken THEN now ELSE @]
  /\ call' = [call EXCEPT ![r].refresh = now, ![r].granted = TRUE]
  /\ GoTo(r, "answer")
  /\ UNCHANGED <<nonces, accessTokens, held, now, history>>

generateRefreshToken(r) ==
  LET u == call[r].user IN
  /\ phase[r] = "refresh"
  /\ refreshTokens' = [refreshTokens EXCEPT ![u] = now]
  /\ call' = [call EXCEPT ![r].refresh = now, ![r].granted = TRUE]
  /\ GoTo(r, "answer")
  /\ UNCHANGED <<nonces, accessTokens, held, now, history>>

-----------------------------------------------------------------------------
(* authenticate, the first call of POST /feature and POST /transformation;  *)
(* what those handlers do next is not about tokens.                         *)

Authenticate(r) ==
  \E p \in held : Begin(r, "verifyAccess", [Blank(p.user) EXCEPT !.access = p.access])

verifyAccessToken(user, token) ==
  /\ ~Expired(token, AccessLife)
  /\ accessTokens[user] = token

VerifyAccess(r) ==
  /\ phase[r] = "verifyAccess"
  /\ call' = [call EXCEPT ![r].accepted = verifyAccessToken(call[r].user, call[r].access)]
  /\ GoTo(r, "answer")
  /\ UNCHANGED <<stores, held, now, history>>

-----------------------------------------------------------------------------
\* The answer is written to the socket; the connection is free again.
Answer(r) ==
  /\ phase[r] = "answer"
  /\ held' = IF call[r].granted
             THEN held \cup {[user |-> call[r].user, access |-> call[r].made,
                              refresh |-> call[r].refresh]}
             ELSE held
  /\ GoTo(r, "idle")
  /\ call' = [call EXCEPT ![r] = Blank(AnyUser)]
  /\ UNCHANGED <<stores, now, history>>

\* The client is gone: what the handler did stays done.
LoseAnswer(r) ==
  /\ phase[r] = "answer"
  /\ GoTo(r, "idle")
  /\ call' = [call EXCEPT ![r] = Blank(AnyUser)]
  /\ UNCHANGED <<stores, held, now, history>>

Tick ==
  /\ now < MaxTime
  /\ now' = now + 1
  /\ UNCHANGED <<stores, phase, call, held, history>>

\* The process stops and starts again: nothing of AuthManager is stored, and
\* clients still hold their tokens.
Restart ==
  /\ AuthStart
  /\ UNCHANGED <<held, now>>

AuthStep(r) ==
  \/ GET_nonce(r) \/ generateNonce(r)
  \/ POST_auth(r) \/ verifyNonce(r) \/ verifySignature(r)
  \/ POST_refresh(r) \/ VerifyRefresh(r) \/ CompareAccess(r)
  \/ generateAccessToken(r) \/ generateRefreshToken(r)
  \/ Authenticate(r) \/ VerifyAccess(r)
  \/ Answer(r) \/ LoseAnswer(r)

AuthNext == (\E r \in Requests : AuthStep(r)) \/ Tick \/ Restart

AuthSpec == AuthInit /\ [][AuthNext]_vars

-----------------------------------------------------------------------------
(* The type invariant *)
AuthTypeOK ==
  /\ nonces \in [Users -> Nonces \cup {NoNonce}]
  /\ accessTokens \in [Users -> Seconds \cup {NoToken}]
  /\ refreshTokens \in [Users -> Seconds \cup {NoToken}]
  /\ phase \in [Requests -> Phases]
  /\ call \in [Requests -> Locals]
  /\ held \subseteq TokenPair
  /\ now \in Seconds
  /\ drawn \in [Users -> Nat] /\ logins \in [Users -> Nat]
  /\ before \in [Users -> Seconds \cup {NoToken}]

\* No session without a login, no login without a nonce of its own: a nonce
\* serves one login at most, whichever handlers run at the same time, and a
\* refresh cannot start a session (POST_auth and POST_refresh).
SessionsStartWithLogin ==
  \A u \in Users :
    /\ logins[u] <= drawn[u]
    /\ accessTokens[u] # NoToken \/ refreshTokens[u] # NoToken => logins[u] > 0

\* The steps that find an access token, or a refresh token, to be the stored one.
AccessAccepted(r) ==
  \/ phase[r] = "verifyAccess" /\ call'[r].accepted
  \/ phase[r] = "compareAccess" /\ phase'[r] = "access"

RefreshAccepted(r) == phase[r] = "verifyRefresh" /\ phase'[r] = "compareAccess"

\* A token that a client has seen replaced is never accepted again, an access
\* token neither by authenticate nor by POST_refresh and a refresh token not by
\* POST_refresh, not even after a restart and a new login, unless it is the same
\* string because it was made in the same second.
SupersededTokensRefused ==
  [][\A r \in Requests, p \in held :
       p.user = call[r].user =>
         /\ AccessAccepted(r) => p.access <= call[r].access
         /\ RefreshAccepted(r) => p.refresh <= call[r].refresh]_vars

\* What the stored tokens of an address stand for: the old pair while a handler
\* is between making the two tokens of a new one.
SessionOf(u) ==
  LET access == IF \E r \in Requests : phase[r] = "refresh" /\ call[r].user = u
                THEN before[u] ELSE accessTokens[u]
  IN IF access = NoToken THEN NoSession
     ELSE [access |-> access, refresh |-> refreshTokens[u]]

Promise == INSTANCE Sessions
  WITH session <- [u \in Users |-> SessionOf(u)], clock <- now

\* With one thread the two tokens of an address change as one pair.
ImplementsSessions == Promise!SessionsSpec
=============================================================================
