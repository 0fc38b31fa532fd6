------------------------------ MODULE WebClient ------------------------------
(***************************************************************************)
(* The web page (resources/js/simple_form.js) as a client of the server's  *)
(* sessions.  Each click starts a call of its own: a login, or a request   *)
(* sent by requestWithRefresh.  The calls await one fetch after another    *)
(* and share the browser's cookies, which it adds to a request when it     *)
(* sends it and replaces when an answer comes.                             *)
(*                                                                         *)
(* The handlers of the server are steps here: Auth shows that with main's  *)
(* one thread a pair of tokens is made and replaced as one thing.  A token *)
(* is the second it was made in, as in Auth.                               *)
(***************************************************************************)
EXTENDS Naturals, FiniteSets

CONSTANTS
  Logins,         \* clicks on the login button
  Requests,       \* clicks that send a request to be authenticated
  AccessLife, RefreshLife,
  MaxTime,        \* bound: the last second
  MaxRestarts,    \* bound: restarts of the server
  MaxDraws,       \* bound: nonces drawn for the address
  NoNonce, NoPair

ASSUME WebAssumption ==
  /\ IsFiniteSet(Logins) /\ Logins \cap Requests = {}
  /\ AccessLife \in Nat \ {0} /\ RefreshLife \in Nat \ {0}
  /\ MaxTime \in Nat /\ MaxRestarts \in Nat /\ MaxDraws \in Nat
  /\ NoNonce \notin Nat /\ NoPair \notin [made : Nat, login : Nat]

Calls == Logins \cup Requests

\* A pair of tokens: when it was made and, as history, the login it goes back to.
Pairs == [made : 0..MaxTime, login : 0..Cardinality(Logins)]

VARIABLES
  nonce, drawn,       \* the nonce of the address; nonces drawn so far, each a new one
  pair,               \* the pair of tokens the server holds for the address
  logins,             \* history: logins accepted
  now, restarts,
  cookies,            \* the pair in the browser's cookies
  at,                 \* per call: what it awaits, "idle" before and "ended" after
  wire,               \* per call: its fetch is "sent", "answered" or there is "none"
  sent,               \* per call: the pair and the nonce its fetch carries
  got,                \* per call: the last answer, under way or read
  performed,          \* history, per call: how often the server did what it asks for
  calm                \* history, per call: nothing came in its way

server == <<nonce, drawn, pair, logins, now, restarts>>
webVars == <<server, cookies, at, wire, sent, got, performed, calm>>

Reply(status) == [status |-> status, cookies |-> NoPair, nonce |-> NoNonce]

Nothing == [pair |-> NoPair, nonce |-> NoNonce]

\* Nobody has logged in, or the page has, within this second, and was loaded again.
WebInit ==
  /\ nonce = NoNonce /\ drawn = 0 /\ logins = 0
  /\ pair \in {NoPair, [made |-> 0, login |-> 0]}
  /\ now = 0 /\ restarts = 0
  /\ cookies = pair
  /\ at = [c \in Calls |-> "idle"]
  /\ wire = [c \in Calls |-> "none"]
  /\ sent = [c \in Calls |-> Nothing]
  /\ got = [c \in Calls |-> Reply(0)]
  /\ performed = [c \in Calls |-> 0]
  /\ calm = [c \in Calls |-> FALSE]

Valid(tokens, life) == tokens # NoPair /\ now < tokens.made + life

-----------------------------------------------------------------------------
(* The page *)

UnderWay == {c \in Calls : at[c] \notin {"idle", "ended"}}

GoOn(c, awaited, fetching) ==
  /\ at' = [at EXCEPT ![c] = awaited]
  /\ wire' = [wire EXCEPT ![c] = fetching]

\* fetch, with the cookies of this moment.
Fetch(c, awaited, withNonce) ==
  /\ GoOn(c, awaited, "sent")
  /\ sent' = [sent EXCEPT ![c] = [pair |-> cookies', nonce |-> withNonce]]

End(c) == GoOn(c, "ended", "none") /\ sent' = [sent EXCEPT ![c] = Nothing]

\* A call is in the way of the calls under way, and they are in its way.
Click(c, awaited, ready) ==
  /\ at[c] = "idle"
  /\ UNCHANGED <<server, cookies, got, performed>>
  /\ Fetch(c, awaited, NoNonce)
  /\ calm' = [d \in Calls |-> d = c /\ UnderWay = {} /\ ready]

loginWithMetaMask(c) == c \in Logins /\ Click(c, "nonce", TRUE)

\* Sent by execute, sendStructuredFeature and sendStructuredTransformation.
requestWithRefresh(c) ==
  c \in Requests /\ Click(c, "request", cookies = pair /\ Valid(pair, RefreshLife))

\* The user signs the nonce, or does not, and an exception ends the call.
personal_sign(c) ==
  /\ at[c] = "sign"
  /\ UNCHANGED <<server, cookies, performed>>
  /\ \/ /\ Fetch(c, "auth", got[c].nonce)
        /\ got' = [got EXCEPT ![c] = Reply(0)]
        /\ UNCHANGED calm
     \/ /\ End(c)
        /\ got' = [got EXCEPT ![c] = Reply(0)]
        /\ calm' = [calm EXCEPT ![c] = FALSE]

\* (mutant) what is not known to be done is asked for again
RetryUnlessDone(c, status) ==
  \/ at[c] = "nonce" /\ status = 200 /\ GoOn(c, "sign", "none") /\ UNCHANGED sent
  \/ at[c] = "request" /\ status # 200 /\ Fetch(c, "refresh", NoNonce)
  \/ at[c] = "refresh" /\ status = 200 /\ Fetch(c, "retry", NoNonce)
  \/ /\ <<at[c], status>> \notin {<<"nonce", 200>>, <<"request", 401>>,
                                  <<"request", 0>>, <<"refresh", 200>>}
     /\ End(c)

\* (mutant) no second request after a refresh
RefreshOnly(c, status) ==
  \/ at[c] = "nonce" /\ status = 200 /\ GoOn(c, "sign", "none") /\ UNCHANGED sent
  \/ at[c] = "request" /\ status = 401 /\ Fetch(c, "refresh", NoNonce)
  \/ <<at[c], status>> \notin {<<"nonce", 200>>, <<"request", 401>>} /\ End(c)

\* (mutant) refused, refreshed and refused again, for ever
RetryForEver(c, status) ==
  \/ at[c] = "nonce" /\ status = 200 /\ GoOn(c, "sign", "none") /\ UNCHANGED sent
  \/ at[c] \in {"request", "retry"} /\ status = 401 /\ Fetch(c, "refresh", NoNonce)
  \/ at[c] = "refresh" /\ status # 0 /\ Fetch(c, "retry", NoNonce)
  \/ /\ at[c] # "refresh" \/ status = 0
     /\ <<at[c], status>> \notin {<<"nonce", 200>>, <<"request", 401>>, <<"retry", 401>>}
     /\ End(c)

\* What a call does with an answer; status 0 is a fetch that failed, an exception.
\* A request that is refused is followed by a refresh, and when that went well by
\* the same request, once.
Resume(c, status) ==
  \/ at[c] = "nonce" /\ status = 200 /\ GoOn(c, "sign", "none") /\ UNCHANGED sent
  \/ at[c] = "request" /\ status = 401 /\ Fetch(c, "refresh", NoNonce)
  \/ at[c] = "refresh" /\ status = 200 /\ Fetch(c, "retry", NoNonce)
  \/ /\ <<at[c], status>> \notin {<<"nonce", 200>>, <<"request", 401>>, <<"refresh", 200>>}
     /\ End(c)

\* An answer comes: its cookies replace the browser's, and the call goes on.
Receive(c) ==
  /\ wire[c] = "answered"
  /\ cookies' = IF got[c].cookies = NoPair THEN cookies ELSE got[c].cookies
  /\ Resume(c, got[c].status)
  /\ got' = [got EXCEPT ![c].cookies = NoPair]
  /\ UNCHANGED <<server, performed, calm>>

\* The request or its answer is lost.
Lose(c) ==
  /\ wire[c] # "none"
  /\ UNCHANGED <<server, cookies, performed>>
  /\ got' = [got EXCEPT ![c] = Reply(0)]
  /\ Resume(c, 0)
  /\ calm' = [d \in Calls |-> FALSE]

-----------------------------------------------------------------------------
(* The server *)

Answer(c, reply) ==
  /\ wire[c] = "sent"
  /\ wire' = [wire EXCEPT ![c] = "answered"]
  /\ got' = [got EXCEPT ![c] = reply]
  /\ UNCHANGED <<now, restarts, cookies, at, sent, calm>>

GET_nonce(c) ==
  /\ at[c] = "nonce"
  /\ drawn' = drawn + 1 /\ nonce' = drawn'
  /\ Answer(c, [Reply(200) EXCEPT !.nonce = nonce'])
  /\ UNCHANGED <<pair, logins, performed>>

\* Anybody may ask for a nonce of the address, and the one before is overwritten.
GET_nonceElsewhere ==
  /\ drawn < MaxDraws
  /\ drawn' = drawn + 1 /\ nonce' = drawn'
  /\ calm' = [c \in Calls |-> calm[c] /\ c \notin Logins]
  /\ UNCHANGED <<pair, logins, now, restarts, cookies, at, wire, sent, got, performed>>

\* (mutant) the second a pair expires in is stored for the one it was made in
grantExpiry(tokens) == pair' = [tokens EXCEPT !.made = @ + RefreshLife]

\* The new pair takes the place of the old one.
Grant(tokens) == pair' = tokens

\* A stored nonce is used up by an attempt, be it the right one or not.
POST_auth(c) ==
  /\ at[c] = "auth"
  /\ nonce' = NoNonce
  /\ \/ /\ nonce = sent[c].nonce
        /\ logins' = logins + 1
        /\ Grant([made |-> now, login |-> logins'])
        /\ Answer(c, [Reply(200) EXCEPT !.cookies = pair'])
     \/ /\ nonce # sent[c].nonce
        /\ Answer(c, Reply(400))
        /\ UNCHANGED <<logins, pair>>
  /\ UNCHANGED <<drawn, performed>>

\* Two tokens are the same string when they were made in the same second.
SameToken(tokens) == pair # NoPair /\ tokens # NoPair /\ tokens.made = pair.made

\* (mutant) the tokens have to be valid, not the newest
AnyValidPair(c) == Valid(sent[c].pair, RefreshLife) /\ pair # NoPair

Refreshable(c) == Valid(sent[c].pair, RefreshLife) /\ SameToken(sent[c].pair)

POST_refresh(c) ==
  /\ at[c] = "refresh"
  /\ \/ /\ Refreshable(c)
        /\ Grant([made |-> now, login |-> pair.login])
        /\ Answer(c, [Reply(200) EXCEPT !.cookies = pair'])
     \/ ~Refreshable(c) /\ Answer(c, Reply(401)) /\ UNCHANGED pair
  /\ UNCHANGED <<nonce, drawn, logins, performed>>

\* A handler that authenticates first: GET_execute, POST_feature, POST_transformation.
\* 200 stands for every answer once the token is accepted, their 400s and 500s among
\* them: requestWithRefresh tells 401 from the rest.
Perform(c) ==
  /\ at[c] \in {"request", "retry"}
  /\ \/ /\ Valid(sent[c].pair, AccessLife) /\ SameToken(sent[c].pair)
        /\ performed' = [performed EXCEPT ![c] = @ + 1]
        /\ Answer(c, Reply(200))
     \/ /\ ~(Valid(sent[c].pair, AccessLife) /\ SameToken(sent[c].pair))
        /\ Answer(c, Reply(401))
        /\ UNCHANGED performed
  /\ UNCHANGED <<nonce, drawn, pair, logins>>

\* Time comes in a call's way when it ends the pair that the call relies on.
Tick ==
  /\ now < MaxTime
  /\ now' = now + 1
  /\ calm' = [c \in Calls |-> calm[c] /\ (c \in Requests =>
       now' < pair.made + (IF at[c] = "request" THEN RefreshLife ELSE AccessLife))]
  /\ UNCHANGED <<nonce, drawn, pair, logins, restarts, cookies, at, wire, sent, got, performed>>

\* The server forgets; a fetch under way fails when its connection breaks.
Restart ==
  /\ restarts < MaxRestarts
  /\ restarts' = restarts + 1
  /\ nonce' = NoNonce /\ pair' = NoPair
  /\ calm' = [c \in Calls |-> FALSE]
  /\ UNCHANGED <<drawn, logins, now, cookies, at, wire, sent, got, performed>>

Page(c) == loginWithMetaMask(c) \/ requestWithRefresh(c)

Serve(c) == GET_nonce(c) \/ POST_auth(c) \/ POST_refresh(c) \/ Perform(c)

WebNext ==
  \/ \E c \in Calls : Page(c) \/ personal_sign(c) \/ Receive(c) \/ Lose(c) \/ Serve(c)
  \/ GET_nonceElsewhere \/ Tick \/ Restart

\* The server answers, an answer arrives or fails, and the user makes up his mind.
WebSpec ==
  /\ WebInit /\ [][WebNext]_webVars
  /\ \A c \in Calls : WF_webVars(Serve(c) \/ Receive(c) \/ personal_sign(c))

-----------------------------------------------------------------------------
\* The type invariant
WebTypeOK ==
  /\ nonce \in Nat \cup {NoNonce} /\ drawn \in Nat
  /\ pair \in Pairs \cup {NoPair} /\ cookies \in Pairs \cup {NoPair}
  /\ logins \in 0..Cardinality(Logins)
  /\ now \in 0..MaxTime /\ restarts \in 0..MaxRestarts
  /\ at \in [Calls -> {"idle", "nonce", "sign", "auth", "request", "refresh", "retry", "ended"}]
  /\ wire \in [Calls -> {"none", "sent", "answered"}]
  /\ sent \in [Calls -> [pair : Pairs \cup {NoPair}, nonce : Nat \cup {NoNonce}]]
  /\ got \in [Calls -> [status : {0, 200, 400, 401}, cookies : Pairs \cup {NoPair},
                       nonce : Nat \cup {NoNonce}]]
  /\ performed \in [Calls -> Nat] /\ calm \in [Calls -> BOOLEAN]

\* However answers are lost and refreshes race, what a click asks for is done at most
\* once, it is done when the page shows that it is, and it is not done when the page
\* shows it refused (requestWithRefresh repeats a request).
ActsOnce ==
  \A c \in Requests :
    /\ performed[c] <= 1
    /\ at[c] = "ended" /\ got[c].status = 200 => performed[c] = 1
    /\ at[c] = "ended" /\ got[c].status = 401 => performed[c] = 0

\* A call that nothing came in the way of -- no other call at the same time, no lost
\* answer, no restart, no pair that ran out under it -- is not refused, also when its
\* access token had expired before, and leaves the browser with the pair the server holds.
CalmCallsSucceed ==
  \A c \in Calls :
    at[c] = "ended" /\ calm[c] =>
      /\ got[c].status = 200 /\ cookies = pair
      /\ c \in Requests => performed[c] = 1

\* Within a login an answer that brings new tokens never takes the browser's cookies
\* back to older ones: the answers of two refreshes cannot overtake each other, for
\* the second needs what the first brings.  (Tokens made in the second of those they
\* replace are the same strings, and then the second refresh needs nothing.)
CookiesNeverGoBack ==
  [][\A c \in Requests :
       /\ at[c] = "refresh" /\ wire[c] = "answered" /\ at'[c] = "retry"
       /\ got[c].cookies.made # sent[c].pair.made
       /\ got[c].cookies.login = cookies.login
       => cookies.made <= cookies'.made]_webVars

\* Every click comes to an end: a page that is refused does not go round in circles.
CallsEnd == \A c \in Calls : at[c] # "idle" ~> at[c] = "ended"
=============================================================================
