--------------------------- MODULE WebClientProofs ---------------------------
(* Proofs about WebClient, for any number of clicks, restarts and seconds.  *)
EXTENDS WebClient, FiniteSetTheorems, TLAPS

\* A login and a request go different ways; what awaits an answer has a fetch.
CallsApart ==
  \A c \in Calls :
    /\ at[c] \in {"nonce", "sign", "auth"} => c \in Logins
    /\ at[c] \in {"request", "refresh", "retry"} => c \in Requests
    /\ wire[c] = "none" <=> at[c] \in {"idle", "sign", "ended"}

\* Clicks on the login button that cannot log in (again)
Spent == {c \in Logins : at[c] = "ended" \/ (at[c] = "auth" /\ wire[c] = "answered")}

LoginsCounted == logins <= Cardinality(Spent)

WebInv == WebTypeOK /\ CallsApart /\ LoginsCounted

-----------------------------------------------------------------------------
\* The logins accepted are counted by the clicks that were spent on one.
LEMMA SpentFinite ==
  ASSUME WebTypeOK
  PROVE  Spent \subseteq Logins /\ IsFiniteSet(Spent) /\ Cardinality(Spent) \in Nat
           /\ Cardinality(Spent) <= Cardinality(Logins) /\ Cardinality(Logins) \in Nat
<1>1. Spent \subseteq Logins BY DEF Spent
<1>2. IsFiniteSet(Logins) BY WebAssumption DEF WebAssumption
<1> QED BY <1>1, <1>2, FS_Subset, FS_CardinalityType

LEMMA SpentGrows ==
  ASSUME NEW S, NEW T, IsFiniteSet(T), S \subseteq T
  PROVE  Cardinality(S) <= Cardinality(T) /\ Cardinality(S) \in Nat /\ Cardinality(T) \in Nat
BY FS_Subset, FS_CardinalityType

\* A step that logs nobody in leaves the clicks spent.
LEMMA CountedKept ==
  ASSUME WebTypeOK, LoginsCounted, WebTypeOK', logins' = logins, Spent \subseteq Spent'
  PROVE  LoginsCounted'
<1>1. Spent' \subseteq Logins BY DEF Spent
<1>2. IsFiniteSet(Logins) BY WebAssumption DEF WebAssumption
<1>3. IsFiniteSet(Spent') BY <1>1, <1>2, FS_Subset
<1>4. /\ Cardinality(Spent) <= Cardinality(Spent')
      /\ Cardinality(Spent) \in Nat /\ Cardinality(Spent') \in Nat
  BY <1>3, SpentGrows
<1>5. logins \in Nat BY WebAssumption, SpentFinite DEF WebTypeOK
<1> QED BY <1>4, <1>5 DEF LoginsCounted

-----------------------------------------------------------------------------
LEMMA WebInvInit == WebInit => WebInv
<1> SUFFICES ASSUME WebInit PROVE WebInv OBVIOUS
<1> USE WebAssumption DEF WebAssumption, WebInit, WebInv
<1>1. Cardinality(Logins) \in Nat BY FS_CardinalityType
<1>2. WebTypeOK
  BY <1>1 DEF WebTypeOK, Pairs, Nothing, Reply
<1>3. CallsApart BY DEF CallsApart
<1>4. LoginsCounted
  <2>1. Cardinality(Spent) \in Nat BY <1>2, SpentFinite
  <2> QED BY <2>1 DEF LoginsCounted
<1> QED BY <1>2, <1>3, <1>4

\* A fetch takes with it what has the type of cookies and of a nonce.
LEMMA FetchTyped ==
  ASSUME WebTypeOK, NEW c \in Calls, NEW awaited, NEW withNonce \in Nat \cup {NoNonce},
         awaited \in {"nonce", "auth", "request", "refresh", "retry"},
         Fetch(c, awaited, withNonce), cookies' \in Pairs \cup {NoPair}
  PROVE  /\ at' \in [Calls -> {"idle", "nonce", "sign", "auth", "request", "refresh", "retry", "ended"}]
         /\ wire' \in [Calls -> {"none", "sent", "answered"}]
         /\ sent' \in [Calls -> [pair : Pairs \cup {NoPair}, nonce : Nat \cup {NoNonce}]]
         /\ at'[c] = awaited /\ wire'[c] = "sent"
         /\ sent'[c] = [pair |-> cookies', nonce |-> withNonce]
         /\ \A d \in Calls \ {c} : at'[d] = at[d] /\ wire'[d] = wire[d] /\ sent'[d] = sent[d]
BY DEF Fetch, GoOn, WebTypeOK

LEMMA EndTyped ==
  ASSUME WebTypeOK, NEW c \in Calls, End(c)
  PROVE  /\ at' \in [Calls -> {"idle", "nonce", "sign", "auth", "request", "refresh", "retry", "ended"}]
         /\ wire' \in [Calls -> {"none", "sent", "answered"}]
         /\ sent' \in [Calls -> [pair : Pairs \cup {NoPair}, nonce : Nat \cup {NoNonce}]]
         /\ at'[c] = "ended" /\ wire'[c] = "none" /\ sent'[c] = Nothing
         /\ \A d \in Calls \ {c} : at'[d] = at[d] /\ wire'[d] = wire[d] /\ sent'[d] = sent[d]
BY DEF End, GoOn, WebTypeOK, Nothing

\* Where an answer may take a call.
LEMMA ResumeTyped ==
  ASSUME WebTypeOK, CallsApart, NEW c \in Calls, wire[c] # "none", NEW status, Resume(c, status),
         cookies' \in Pairs \cup {NoPair}
  PROVE  /\ at' \in [Calls -> {"idle", "nonce", "sign", "auth", "request", "refresh", "retry", "ended"}]
         /\ wire' \in [Calls -> {"none", "sent", "answered"}]
         /\ sent' \in [Calls -> [pair : Pairs \cup {NoPair}, nonce : Nat \cup {NoNonce}]]
         /\ \/ at[c] = "nonce" /\ status = 200 /\ at'[c] = "sign" /\ wire'[c] = "none"
               /\ sent' = sent
            \/ at[c] = "request" /\ status = 401 /\ at'[c] = "refresh" /\ wire'[c] = "sent"
               /\ sent'[c] = [pair |-> cookies', nonce |-> NoNonce]
            \/ at[c] = "refresh" /\ status = 200 /\ at'[c] = "retry" /\ wire'[c] = "sent"
               /\ sent'[c] = [pair |-> cookies', nonce |-> NoNonce]
            \/ /\ ~(at[c] = "nonce" /\ status = 200) /\ ~(at[c] = "request" /\ status = 401)
               /\ ~(at[c] = "refresh" /\ status = 200)
               /\ at'[c] = "ended" /\ wire'[c] = "none" /\ sent'[c] = Nothing
         /\ \A d \in Calls \ {c} : at'[d] = at[d] /\ wire'[d] = wire[d] /\ sent'[d] = sent[d]
<1>1. CASE at[c] = "nonce" /\ status = 200 /\ GoOn(c, "sign", "none") /\ UNCHANGED sent
  BY <1>1 DEF GoOn, WebTypeOK
<1>2. CASE at[c] = "request" /\ status = 401 /\ Fetch(c, "refresh", NoNonce)
  BY <1>2, FetchTyped
<1>3. CASE at[c] = "refresh" /\ status = 200 /\ Fetch(c, "retry", NoNonce)
  BY <1>3, FetchTyped
<1>4. CASE /\ <<at[c], status>> \notin {<<"nonce", 200>>, <<"request", 401>>, <<"refresh", 200>>}
           /\ End(c)
  <2>1. /\ ~(at[c] = "nonce" /\ status = 200) /\ ~(at[c] = "request" /\ status = 401)
        /\ ~(at[c] = "refresh" /\ status = 200)
    BY <1>4
  <2> QED BY <1>4, <2>1, EndTyped
<1> QED BY <1>1, <1>2, <1>3, <1>4 DEF Resume

-----------------------------------------------------------------------------
LEMMA ClickTyped ==
  ASSUME WebInv, NEW c \in Calls, NEW awaited, NEW ready \in BOOLEAN, Click(c, awaited, ready),
         (c \in Logins /\ awaited = "nonce") \/ (c \in Requests /\ awaited = "request")
  PROVE  WebInv'
<1> USE DEF WebInv
<1>1. Fetch(c, awaited, NoNonce) /\ at[c] = "idle" BY DEF Click
<1>2. cookies' \in Pairs \cup {NoPair} BY DEF Click, WebTypeOK
<1>3. awaited \in {"nonce", "auth", "request", "refresh", "retry"} OBVIOUS
<1>4. /\ at' \in [Calls -> {"idle", "nonce", "sign", "auth", "request", "refresh", "retry", "ended"}]
      /\ wire' \in [Calls -> {"none", "sent", "answered"}]
      /\ sent' \in [Calls -> [pair : Pairs \cup {NoPair}, nonce : Nat \cup {NoNonce}]]
      /\ at'[c] = awaited /\ wire'[c] = "sent"
      /\ \A d \in Calls \ {c} : at'[d] = at[d] /\ wire'[d] = wire[d]
  BY <1>1, <1>2, <1>3, FetchTyped
<1>5. WebTypeOK'
  BY <1>4 DEF Click, WebTypeOK, server
<1>6. CallsApart' BY <1>4 DEF CallsApart
<1>7. Spent \subseteq Spent' BY <1>1, <1>4 DEF Spent, Calls
<1>8. logins' = logins BY DEF Click, server
<1> QED BY <1>5, <1>6, <1>7, <1>8, CountedKept

LEMMA AnswerTyped ==
  ASSUME WebTypeOK, NEW c \in Calls, NEW reply, Answer(c, reply)
  PROVE  /\ wire' \in [Calls -> {"none", "sent", "answered"}]
         /\ wire[c] = "sent" /\ wire'[c] = "answered" /\ got'[c] = reply
         /\ \A d \in Calls \ {c} : wire'[d] = wire[d] /\ got'[d] = got[d]
         /\ now' = now /\ restarts' = restarts /\ cookies' = cookies
         /\ at' = at /\ sent' = sent /\ calm' = calm
BY DEF Answer, WebTypeOK

Replies == [status : {0, 200, 400, 401}, cookies : Pairs \cup {NoPair},
            nonce : Nat \cup {NoNonce}]

LEMMA AnswerGot ==
  ASSUME WebTypeOK, NEW c \in Calls, NEW reply, Answer(c, reply),
         NEW P, Pairs \subseteq P, reply \in Replies
  PROVE  got' \in [Calls -> Replies]
BY DEF Answer, WebTypeOK, Replies

\* An answer that logs nobody in
LEMMA Answered ==
  ASSUME WebInv, NEW c \in Calls, NEW reply \in Replies, Answer(c, reply),
         logins' = logins, nonce' \in Nat \cup {NoNonce}, drawn' \in Nat,
         pair' \in Pairs \cup {NoPair}, performed' \in [Calls -> Nat]
  PROVE  WebInv'
<1> USE DEF WebInv
<1>1. /\ wire' \in [Calls -> {"none", "sent", "answered"}]
      /\ wire[c] = "sent" /\ wire'[c] = "answered" /\ got'[c] = reply
      /\ \A d \in Calls \ {c} : wire'[d] = wire[d] /\ got'[d] = got[d]
      /\ now' = now /\ restarts' = restarts /\ cookies' = cookies
      /\ at' = at /\ sent' = sent /\ calm' = calm
  BY AnswerTyped
<1>2. got' \in [Calls -> Replies]
  BY DEF Answer, WebTypeOK, Replies
<1>3. WebTypeOK' BY <1>1, <1>2 DEF WebTypeOK, Replies
<1>4. CallsApart' BY <1>1 DEF CallsApart
<1>5. Spent \subseteq Spent' BY <1>1 DEF Spent, Calls
<1> QED BY <1>3, <1>4, <1>5, CountedKept

LEMMA POST_authTyped ==
  ASSUME WebInv, NEW c \in Calls, POST_auth(c) PROVE WebInv'
<1> USE DEF WebInv
<1>1. CASE nonce # sent[c].nonce
  <2>1. Answer(c, Reply(400)) /\ UNCHANGED <<logins, pair, drawn, performed>> /\ nonce' = NoNonce
    BY <1>1 DEF POST_auth
  <2>2. Reply(400) \in Replies BY DEF Reply, Replies
  <2> QED BY <2>1, <2>2, Answered DEF WebTypeOK
<1>2. CASE nonce = sent[c].nonce
  <2> DEFINE new == [made |-> now, login |-> logins + 1]
             reply == [Reply(200) EXCEPT !.cookies = new]
  <2>1. /\ Answer(c, reply) /\ logins' = logins + 1 /\ pair' = new
        /\ nonce' = NoNonce /\ UNCHANGED <<drawn, performed>> /\ at[c] = "auth"
    BY <1>2 DEF POST_auth, Grant
  <2>2. Spent' = Spent \cup {c} /\ c \notin Spent
    <3>1. /\ wire[c] = "sent" /\ wire'[c] = "answered" /\ at' = at
          /\ \A d \in Calls \ {c} : wire'[d] = wire[d]
      BY <2>1, AnswerTyped
    <3>2. c \in Logins BY <2>1 DEF CallsApart
    <3> QED BY <2>1, <3>1, <3>2 DEF Spent, Calls
  <2>3. IsFiniteSet(Spent) /\ Cardinality(Spent) \in Nat BY SpentFinite
  <2>4. Cardinality(Spent') = Cardinality(Spent) + 1
    BY <2>2, <2>3, FS_AddElement
  <2>5. IsFiniteSet(Logins) BY WebAssumption DEF WebAssumption
  <2>6. Spent' \subseteq Logins BY DEF Spent
  <2>7. Cardinality(Spent') <= Cardinality(Logins) /\ Cardinality(Logins) \in Nat
    BY <2>5, <2>6, FS_Subset, FS_CardinalityType
  <2>8. logins \in Nat BY <2>7 DEF WebTypeOK
  <2>9. logins' <= Cardinality(Spent') BY <2>1, <2>3, <2>4, <2>8 DEF LoginsCounted
  <2>10. logins' \in 0..Cardinality(Logins)
    BY <2>1, <2>3, <2>4, <2>7, <2>8, <2>9
  <2>11. new \in Pairs BY <2>1, <2>10 DEF Pairs, WebTypeOK
  <2>12. reply \in Replies BY <2>11 DEF Replies, Reply
  <2> HIDE DEF new, reply
  <2>13. got' \in [Calls -> Replies] BY <2>1, <2>12 DEF Answer, WebTypeOK, Replies
  <2>14. WebTypeOK'
    BY <2>1, <2>10, <2>11, <2>13, AnswerTyped DEF WebTypeOK, Replies
  <2>15. CallsApart'
    <3>1. /\ wire[c] = "sent" /\ wire'[c] = "answered" /\ at' = at
          /\ \A d \in Calls \ {c} : wire'[d] = wire[d]
      BY <2>1, AnswerTyped
    <3> QED BY <3>1 DEF CallsApart
  <2> QED BY <2>9, <2>14, <2>15 DEF LoginsCounted
<1> QED BY <1>1, <1>2

LEMMA POST_refreshTyped ==
  ASSUME WebInv, NEW c \in Calls, POST_refresh(c) PROVE WebInv'
<1> USE DEF WebInv
<1>1. CASE ~Refreshable(c)
  <2>1. Answer(c, Reply(401)) /\ UNCHANGED <<logins, pair, drawn, nonce, performed>>
    BY <1>1 DEF POST_refresh
  <2>2. Reply(401) \in Replies BY DEF Reply, Replies
  <2> QED BY <2>1, <2>2, Answered DEF WebTypeOK
<1>2. CASE Refreshable(c)
  <2> DEFINE new == [made |-> now, login |-> pair.login]
             reply == [Reply(200) EXCEPT !.cookies = new]
  <2>1. Answer(c, reply) /\ UNCHANGED <<logins, drawn, nonce, performed>> /\ pair' = new
    BY <1>2 DEF POST_refresh, Grant
  <2>2. pair \in Pairs BY <1>2 DEF Refreshable, SameToken, WebTypeOK
  <2>3. new \in Pairs BY <2>2 DEF Pairs, WebTypeOK
  <2>4. reply \in Replies BY <2>3 DEF Replies, Reply
  <2> HIDE DEF new, reply
  <2> QED BY <2>1, <2>3, <2>4, Answered DEF WebTypeOK
<1> QED BY <1>1, <1>2

LEMMA WebInvNext == WebInv /\ [WebNext]_webVars => WebInv'
<1> SUFFICES ASSUME WebInv, [WebNext]_webVars PROVE WebInv' OBVIOUS
<1> USE DEF WebInv
<1>1. CASE UNCHANGED webVars
  <2>1. WebTypeOK' /\ CallsApart' /\ Spent \subseteq Spent' /\ logins' = logins
    BY <1>1 DEF webVars, server, WebTypeOK, CallsApart, Spent
  <2> QED BY <2>1, CountedKept
<1>2. ASSUME NEW c \in Calls, loginWithMetaMask(c) PROVE WebInv'
  <2> DEFINE ready == TRUE
  <2>1. Click(c, "nonce", ready) /\ c \in Logins BY <1>2 DEF loginWithMetaMask
  <2>2. ready \in BOOLEAN OBVIOUS
  <2> HIDE DEF ready
  <2> QED BY <2>1, <2>2, ClickTyped
<1>3. ASSUME NEW c \in Calls, requestWithRefresh(c) PROVE WebInv'
  <2> DEFINE ready == cookies = pair /\ Valid(pair, RefreshLife)
  <2>1. Click(c, "request", ready) /\ c \in Requests BY <1>3 DEF requestWithRefresh
  <2>2. ready \in BOOLEAN OBVIOUS
  <2> HIDE DEF ready
  <2> QED BY <2>1, <2>2, ClickTyped
<1>4. ASSUME NEW c \in Calls, personal_sign(c) PROVE WebInv'
  <2>1. /\ at[c] = "sign" /\ logins' = logins /\ cookies' = cookies
        /\ got' = [got EXCEPT ![c] = Reply(0)] /\ UNCHANGED <<server, performed>>
        /\ calm' = calm \/ calm' = [calm EXCEPT ![c] = FALSE]
    BY <1>4 DEF personal_sign, server
  <2>2. Fetch(c, "auth", got[c].nonce) \/ End(c) BY <1>4 DEF personal_sign
  <2>7. got[c].nonce \in Nat \cup {NoNonce} /\ cookies' \in Pairs \cup {NoPair}
    BY <2>1 DEF WebTypeOK
  <2>3. /\ at' \in [Calls -> {"idle", "nonce", "sign", "auth", "request", "refresh", "retry", "ended"}]
        /\ wire' \in [Calls -> {"none", "sent", "answered"}]
        /\ sent' \in [Calls -> [pair : Pairs \cup {NoPair}, nonce : Nat \cup {NoNonce}]]
        /\ \/ at'[c] = "auth" /\ wire'[c] = "sent"
           \/ at'[c] = "ended" /\ wire'[c] = "none"
        /\ \A d \in Calls \ {c} : at'[d] = at[d] /\ wire'[d] = wire[d]
    <3>1. CASE Fetch(c, "auth", got[c].nonce)
      <4> DEFINE signed == got[c].nonce
      <4>1. signed \in Nat \cup {NoNonce} /\ Fetch(c, "auth", signed) BY <2>7, <3>1
      <4> HIDE DEF signed
      <4> QED BY <2>7, <4>1, FetchTyped
    <3>2. CASE End(c) BY <3>2, EndTyped
    <3> QED BY <2>2, <3>1, <3>2
  <2>8. got' \in [Calls -> Replies] /\ calm' \in [Calls -> BOOLEAN]
    <3>1. Reply(0) \in Replies BY DEF Reply, Replies
    <3>2. got \in [Calls -> Replies] /\ calm \in [Calls -> BOOLEAN] BY DEF WebTypeOK, Replies
    <3> QED BY <2>1, <3>1, <3>2
  <2>4. WebTypeOK' BY <2>1, <2>3, <2>8 DEF WebTypeOK, server, Replies
  <2>5. CallsApart' BY <2>1, <2>3 DEF CallsApart
  <2>6. Spent \subseteq Spent' BY <2>1, <2>3 DEF Spent, Calls
  <2> QED BY <2>1, <2>4, <2>5, <2>6, CountedKept
<1>5. ASSUME NEW c \in Calls, Receive(c) PROVE WebInv'
  <2>1. /\ wire[c] = "answered" /\ UNCHANGED <<server, performed, calm>> /\ logins' = logins
        /\ got' = [got EXCEPT ![c].cookies = NoPair]
        /\ Resume(c, got[c].status) /\ cookies' \in Pairs \cup {NoPair}
    BY <1>5 DEF Receive, server, WebTypeOK
  <2>2. /\ at' \in [Calls -> {"idle", "nonce", "sign", "auth", "request", "refresh", "retry", "ended"}]
        /\ wire' \in [Calls -> {"none", "sent", "answered"}]
        /\ sent' \in [Calls -> [pair : Pairs \cup {NoPair}, nonce : Nat \cup {NoNonce}]]
        /\ \/ at[c] = "nonce" /\ at'[c] = "sign" /\ wire'[c] = "none"
           \/ at[c] = "request" /\ at'[c] = "refresh" /\ wire'[c] = "sent"
           \/ at[c] = "refresh" /\ at'[c] = "retry" /\ wire'[c] = "sent"
           \/ at'[c] = "ended" /\ wire'[c] = "none"
        /\ \A d \in Calls \ {c} : at'[d] = at[d] /\ wire'[d] = wire[d]
    BY <2>1, ResumeTyped
  <2>6. got' \in [Calls -> Replies]
    <3>1. got \in [Calls -> Replies] BY DEF WebTypeOK, Replies
    <3>2. [got[c] EXCEPT !.cookies = NoPair] \in Replies BY <3>1 DEF Replies
    <3> QED BY <2>1, <3>1, <3>2
  <2>3. WebTypeOK' BY <2>1, <2>2, <2>6 DEF WebTypeOK, server, Replies
  <2>4. CallsApart' BY <2>1, <2>2 DEF CallsApart
  <2>5. Spent \subseteq Spent' BY <2>1, <2>2 DEF Spent, Calls
  <2> QED BY <2>1, <2>3, <2>4, <2>5, CountedKept
<1>6. ASSUME NEW c \in Calls, Lose(c) PROVE WebInv'
  <2>1. /\ wire[c] # "none" /\ UNCHANGED <<server, performed, cookies>> /\ logins' = logins
        /\ got' = [got EXCEPT ![c] = Reply(0)] /\ calm' = [d \in Calls |-> FALSE]
        /\ Resume(c, 0) /\ cookies' \in Pairs \cup {NoPair}
    BY <1>6 DEF Lose, server, WebTypeOK
  <2>2. /\ at' \in [Calls -> {"idle", "nonce", "sign", "auth", "request", "refresh", "retry", "ended"}]
        /\ wire' \in [Calls -> {"none", "sent", "answered"}]
        /\ sent' \in [Calls -> [pair : Pairs \cup {NoPair}, nonce : Nat \cup {NoNonce}]]
        /\ at'[c] = "ended" /\ wire'[c] = "none"
        /\ \A d \in Calls \ {c} : at'[d] = at[d] /\ wire'[d] = wire[d]
    BY <2>1, ResumeTyped
  <2>3. WebTypeOK' BY <2>1, <2>2 DEF WebTypeOK, server, Reply
  <2>4. CallsApart' BY <2>1, <2>2 DEF CallsApart
  <2>5. Spent \subseteq Spent' BY <2>1, <2>2 DEF Spent, Calls
  <2> QED BY <2>1, <2>3, <2>4, <2>5, CountedKept
<1>7. ASSUME NEW c \in Calls, GET_nonce(c) PROVE WebInv'
  <2>1. /\ Answer(c, [Reply(200) EXCEPT !.nonce = drawn + 1])
        /\ drawn' = drawn + 1 /\ nonce' = drawn + 1 /\ UNCHANGED <<pair, logins, performed>>
    BY <1>7 DEF GET_nonce
  <2>2. [Reply(200) EXCEPT !.nonce = drawn + 1] \in Replies
    BY DEF Reply, Replies, WebTypeOK
  <2> QED BY <2>1, <2>2, Answered DEF WebTypeOK
<1>8. ASSUME NEW c \in Calls, Perform(c) PROVE WebInv'
  <2>1. /\ Answer(c, Reply(200)) \/ Answer(c, Reply(401))
        /\ performed' \in [Calls -> Nat] /\ UNCHANGED <<nonce, drawn, pair, logins>>
    BY <1>8 DEF Perform, WebTypeOK
  <2>2. Reply(200) \in Replies /\ Reply(401) \in Replies BY DEF Reply, Replies
  <2> QED BY <2>1, <2>2, Answered DEF WebTypeOK
<1>9. CASE GET_nonceElsewhere \/ Tick \/ Restart
  <2>1. WebTypeOK'
    <3> USE WebAssumption DEF WebAssumption
    <3>1. CASE GET_nonceElsewhere BY <3>1 DEF GET_nonceElsewhere, WebTypeOK
    <3>2. CASE Tick BY <3>2 DEF Tick, WebTypeOK
    <3>3. CASE Restart BY <3>3 DEF Restart, WebTypeOK
    <3> QED BY <1>9, <3>1, <3>2, <3>3
  <2>2. at' = at /\ wire' = wire /\ logins' = logins
    BY <1>9 DEF GET_nonceElsewhere, Tick, Restart
  <2>3. CallsApart' /\ Spent \subseteq Spent' BY <2>2 DEF CallsApart, Spent
  <2> QED BY <2>1, <2>2, <2>3, CountedKept
<1> QED BY <1>1, <1>2, <1>3, <1>4, <1>5, <1>6, <1>7, <1>8, <1>9, POST_authTyped, POST_refreshTyped
  DEF WebNext, Page, Serve

LEMMA WebInvariant == WebSpec => []WebInv
<1>1. WebInit => WebInv BY WebInvInit
<1>2. WebInv /\ [WebNext]_webVars => WebInv' BY WebInvNext
<1> QED BY <1>1, <1>2, PTL DEF WebSpec

\* The cookies, the server's tokens and every call have their types, and no more
\* logins are accepted than were clicked (loginWithMetaMask, requestWithRefresh).
THEOREM WebTypeCorrect == WebSpec => []WebTypeOK
<1>1. WebInv => WebTypeOK BY DEF WebInv
<1> QED BY <1>1, WebInvariant, PTL

-----------------------------------------------------------------------------
(* What each step does to one call, with the others as they were            *)

Others(c) ==
  \A d \in Calls \ {c} :
    /\ at'[d] = at[d] /\ wire'[d] = wire[d] /\ sent'[d] = sent[d]
    /\ got'[d] = got[d] /\ performed'[d] = performed[d]

Clicked(c) ==
  /\ Others(c)
  /\ at[c] = "idle" /\ wire'[c] = "sent"
  /\ \/ c \in Logins /\ at'[c] = "nonce"
     \/ c \in Requests /\ at'[c] = "request"
  /\ sent'[c] = [pair |-> cookies, nonce |-> NoNonce]
  /\ got'[c] = got[c] /\ performed'[c] = performed[c]
  /\ cookies' = cookies /\ UNCHANGED server
  /\ \A d \in Calls : calm'[d] =>
       /\ d = c /\ UnderWay = {}
       /\ c \in Requests => cookies = pair /\ Valid(pair, RefreshLife)

Signed(c) ==
  /\ Others(c)
  /\ at[c] = "sign" /\ c \in Logins
  /\ \/ /\ at'[c] = "auth" /\ wire'[c] = "sent"
        /\ sent'[c] = [pair |-> cookies, nonce |-> got[c].nonce]
        /\ calm' = calm
     \/ /\ at'[c] = "ended" /\ wire'[c] = "none" /\ sent'[c] = Nothing
        /\ calm' = [calm EXCEPT ![c] = FALSE]
  /\ got'[c] = Reply(0) /\ performed'[c] = performed[c]
  /\ cookies' = cookies /\ UNCHANGED server

Received(c) ==
  /\ Others(c)
  /\ wire[c] = "answered"
  /\ cookies' = IF got[c].cookies = NoPair THEN cookies ELSE got[c].cookies
  /\ \/ /\ at[c] = "nonce" /\ got[c].status = 200
        /\ at'[c] = "sign" /\ wire'[c] = "none" /\ sent'[c] = sent[c]
     \/ /\ at[c] = "request" /\ got[c].status = 401
        /\ at'[c] = "refresh" /\ wire'[c] = "sent"
        /\ sent'[c] = [pair |-> cookies', nonce |-> NoNonce]
     \/ /\ at[c] = "refresh" /\ got[c].status = 200
        /\ at'[c] = "retry" /\ wire'[c] = "sent"
        /\ sent'[c] = [pair |-> cookies', nonce |-> NoNonce]
     \/ /\ ~(at[c] = "nonce" /\ got[c].status = 200)
        /\ ~(at[c] = "request" /\ got[c].status = 401)
        /\ ~(at[c] = "refresh" /\ got[c].status = 200)
        /\ at'[c] = "ended" /\ wire'[c] = "none" /\ sent'[c] = Nothing
  /\ got'[c] = [got[c] EXCEPT !.cookies = NoPair]
  /\ performed'[c] = performed[c] /\ calm' = calm /\ UNCHANGED server

Lost(c) ==
  /\ Others(c)
  /\ wire[c] # "none"
  /\ at'[c] = "ended" /\ wire'[c] = "none" /\ sent'[c] = Nothing
  /\ got'[c] = Reply(0) /\ performed'[c] = performed[c]
  /\ cookies' = cookies /\ UNCHANGED server
  /\ \A d \in Calls : calm'[d] = FALSE

\* The answers of the server, each with what it does to the tokens
Told(c, reply) ==
  /\ Others(c)
  /\ wire[c] = "sent" /\ wire'[c] = "answered" /\ got'[c] = reply
  /\ at'[c] = at[c] /\ sent'[c] = sent[c] /\ calm' = calm
  /\ cookies' = cookies /\ UNCHANGED <<now, restarts>>

NonceTold(c) ==
  /\ at[c] = "nonce" /\ UNCHANGED <<pair, logins>> /\ performed'[c] = performed[c]
  /\ nonce' = drawn + 1
  /\ Told(c, [Reply(200) EXCEPT !.nonce = drawn + 1])

LoggedIn(c) ==
  /\ at[c] = "auth" /\ nonce = sent[c].nonce /\ performed'[c] = performed[c]
  /\ logins' = logins + 1 /\ pair' = [made |-> now, login |-> logins + 1]
  /\ Told(c, [Reply(200) EXCEPT !.cookies = pair'])

Refreshed(c) ==
  /\ at[c] = "refresh" /\ Refreshable(c) /\ performed'[c] = performed[c]
  /\ nonce' = nonce /\ logins' = logins /\ pair' = [made |-> now, login |-> pair.login]
  /\ Told(c, [Reply(200) EXCEPT !.cookies = pair'])

RefusedToken(c) ==
  /\ UNCHANGED <<pair, logins>> /\ performed'[c] = performed[c]
  /\ \/ at[c] = "auth" /\ nonce # sent[c].nonce /\ Told(c, Reply(400))
     \/ at[c] = "refresh" /\ ~Refreshable(c) /\ nonce' = nonce /\ Told(c, Reply(401))
     \/ /\ at[c] \in {"request", "retry"} /\ nonce' = nonce /\ Told(c, Reply(401))
        /\ ~(Valid(sent[c].pair, AccessLife) /\ SameToken(sent[c].pair))

Performed(c) ==
  /\ UNCHANGED <<nonce, pair, logins>> /\ performed'[c] = performed[c] + 1
  /\ at[c] \in {"request", "retry"} /\ Told(c, Reply(200))
  /\ Valid(sent[c].pair, AccessLife) /\ SameToken(sent[c].pair)

CallSteps(c) ==
  \/ Clicked(c) \/ Signed(c) \/ Received(c) \/ Lost(c)
  \/ NonceTold(c) \/ LoggedIn(c) \/ Refreshed(c) \/ RefusedToken(c) \/ Performed(c)

Elsewhere ==
  /\ UNCHANGED <<cookies, at, wire, sent, got, performed, logins>>
  /\ \/ GET_nonceElsewhere \/ Tick \/ Restart
     \/ UNCHANGED webVars

LEMMA CallStepOf ==
  ASSUME WebInv, NEW c \in Calls,
         Page(c) \/ personal_sign(c) \/ Receive(c) \/ Lose(c) \/ Serve(c)
  PROVE  CallSteps(c)
<1> USE DEF WebInv
<1>0. /\ at \in [Calls -> {"idle", "nonce", "sign", "auth", "request", "refresh", "retry", "ended"}]
      /\ cookies \in Pairs \cup {NoPair} /\ performed \in [Calls -> Nat]
      /\ got \in [Calls -> Replies] /\ drawn \in Nat
      /\ pair \in Pairs \cup {NoPair} /\ logins \in Nat
  BY SpentFinite DEF WebTypeOK, Replies
<1>1. ASSUME NEW awaited \in {"nonce", "request"}, NEW ready, Click(c, awaited, ready),
             \/ c \in Logins /\ awaited = "nonce"
             \/ c \in Requests /\ awaited = "request"
                  /\ ready = (cookies = pair /\ Valid(pair, RefreshLife))
      PROVE  Clicked(c)
  <2>1. /\ at[c] = "idle" /\ UNCHANGED <<server, cookies, got, performed>>
        /\ Fetch(c, awaited, NoNonce) /\ cookies' \in Pairs \cup {NoPair}
        /\ calm' = [d \in Calls |-> d = c /\ UnderWay = {} /\ ready]
    BY <1>0, <1>1 DEF Click
  <2>2. /\ at'[c] = awaited /\ wire'[c] = "sent"
        /\ sent'[c] = [pair |-> cookies', nonce |-> NoNonce]
        /\ \A d \in Calls \ {c} : at'[d] = at[d] /\ wire'[d] = wire[d] /\ sent'[d] = sent[d]
    <3>1. awaited \in {"nonce", "auth", "request", "refresh", "retry"} OBVIOUS
    <3> QED BY <2>1, <3>1, FetchTyped
  <2>3. \A d \in Calls : calm'[d] => d = c /\ UnderWay = {} /\ ready BY <2>1
  <2>4. c \in Requests => awaited = "request" /\ ready = (cookies = pair /\ Valid(pair, RefreshLife))
    BY <1>1, WebAssumption DEF WebAssumption
  <2> QED BY <1>1, <2>1, <2>2, <2>3, <2>4 DEF Clicked, Others
<1>2. CASE loginWithMetaMask(c)
  <2> DEFINE ready == TRUE
  <2>1. Click(c, "nonce", ready) /\ c \in Logins BY <1>2 DEF loginWithMetaMask
  <2> HIDE DEF ready
  <2> QED BY <1>1, <2>1 DEF CallSteps
<1>3. CASE requestWithRefresh(c)
  <2> DEFINE ready == cookies = pair /\ Valid(pair, RefreshLife)
  <2>1. Click(c, "request", ready) /\ c \in Requests BY <1>3 DEF requestWithRefresh
  <2>2. ready = (cookies = pair /\ Valid(pair, RefreshLife)) OBVIOUS
  <2> HIDE DEF ready
  <2> QED BY <1>1, <2>1, <2>2 DEF CallSteps
<1>4. CASE personal_sign(c)
  <2> DEFINE signed == got[c].nonce
  <2>1. /\ at[c] = "sign" /\ UNCHANGED <<server, cookies, performed>> /\ c \in Logins
        /\ got' = [got EXCEPT ![c] = Reply(0)]
        /\ \/ Fetch(c, "auth", signed) /\ calm' = calm
           \/ End(c) /\ calm' = [calm EXCEPT ![c] = FALSE]
        /\ signed \in Nat \cup {NoNonce} /\ cookies' \in Pairs \cup {NoPair}
    BY <1>0, <1>4 DEF personal_sign, CallsApart, Replies
  <2>2. got'[c] = Reply(0) /\ \A d \in Calls \ {c} : got'[d] = got[d] BY <1>0, <2>1
  <2>3. CASE Fetch(c, "auth", signed) /\ calm' = calm
    <3> HIDE DEF signed
    <3>1. /\ at'[c] = "auth" /\ wire'[c] = "sent"
          /\ sent'[c] = [pair |-> cookies', nonce |-> signed]
          /\ \A d \in Calls \ {c} : at'[d] = at[d] /\ wire'[d] = wire[d] /\ sent'[d] = sent[d]
      BY <2>1, <2>3, FetchTyped
    <3>2. sent'[c] = [pair |-> cookies, nonce |-> got[c].nonce] BY <2>1, <3>1 DEF signed
    <3>3. Signed(c) BY <2>1, <2>2, <2>3, <3>1, <3>2 DEF Signed, Others
    <3> QED BY <3>3 DEF CallSteps
  <2>4. CASE End(c) /\ calm' = [calm EXCEPT ![c] = FALSE]
    <3>1. /\ at'[c] = "ended" /\ wire'[c] = "none" /\ sent'[c] = Nothing
          /\ \A d \in Calls \ {c} : at'[d] = at[d] /\ wire'[d] = wire[d] /\ sent'[d] = sent[d]
      BY <2>4, EndTyped
    <3>3. Signed(c) BY <2>1, <2>2, <2>4, <3>1 DEF Signed, Others
    <3> QED BY <3>3 DEF CallSteps
  <2> QED BY <2>1, <2>3, <2>4
<1>5. CASE Receive(c)
  <2>1. /\ wire[c] = "answered" /\ UNCHANGED <<server, performed, calm>>
        /\ cookies' = IF got[c].cookies = NoPair THEN cookies ELSE got[c].cookies
        /\ got' = [got EXCEPT ![c].cookies = NoPair]
        /\ Resume(c, got[c].status)
    BY <1>5 DEF Receive
  <2>2. cookies' \in Pairs \cup {NoPair} BY <1>0, <2>1 DEF Replies
  <2>3. got'[c] = [got[c] EXCEPT !.cookies = NoPair] /\ \A d \in Calls \ {c} : got'[d] = got[d]
    BY <1>0, <2>1
  <2> DEFINE status == got[c].status
  <2>4. /\ \/ at[c] = "nonce" /\ status = 200 /\ at'[c] = "sign" /\ wire'[c] = "none"
              /\ sent' = sent
           \/ at[c] = "request" /\ status = 401 /\ at'[c] = "refresh" /\ wire'[c] = "sent"
              /\ sent'[c] = [pair |-> cookies', nonce |-> NoNonce]
           \/ at[c] = "refresh" /\ status = 200 /\ at'[c] = "retry" /\ wire'[c] = "sent"
              /\ sent'[c] = [pair |-> cookies', nonce |-> NoNonce]
           \/ /\ ~(at[c] = "nonce" /\ status = 200) /\ ~(at[c] = "request" /\ status = 401)
              /\ ~(at[c] = "refresh" /\ status = 200)
              /\ at'[c] = "ended" /\ wire'[c] = "none" /\ sent'[c] = Nothing
        /\ \A d \in Calls \ {c} : at'[d] = at[d] /\ wire'[d] = wire[d] /\ sent'[d] = sent[d]
    <3>1. Resume(c, status) BY <2>1
    <3> HIDE DEF status
    <3> QED BY <2>1, <2>2, <3>1, ResumeTyped
  <2> QED BY <2>1, <2>3, <2>4 DEF Received, Others, CallSteps
<1>6. CASE Lose(c)
  <2>1. /\ wire[c] # "none" /\ UNCHANGED <<server, performed, cookies>>
        /\ got' = [got EXCEPT ![c] = Reply(0)] /\ calm' = [d \in Calls |-> FALSE]
        /\ Resume(c, 0) /\ cookies' \in Pairs \cup {NoPair}
    BY <1>0, <1>6 DEF Lose
  <2>2. /\ at'[c] = "ended" /\ wire'[c] = "none" /\ sent'[c] = Nothing
        /\ \A d \in Calls \ {c} : at'[d] = at[d] /\ wire'[d] = wire[d] /\ sent'[d] = sent[d]
    BY <2>1, ResumeTyped
  <2>3. got'[c] = Reply(0) /\ \A d \in Calls \ {c} : got'[d] = got[d] BY <1>0, <2>1
  <2> QED BY <2>1, <2>2, <2>3 DEF Lost, Others, CallSteps
<1>7. ASSUME NEW reply, Answer(c, reply), \A d \in Calls \ {c} : performed'[d] = performed[d]
      PROVE  Told(c, reply)
  BY <1>7, AnswerTyped DEF Told, Others
<1>8. CASE GET_nonce(c)
  <2>1. Answer(c, [Reply(200) EXCEPT !.nonce = drawn + 1]) /\ performed' = performed
    BY <1>8 DEF GET_nonce
  <2>2. Told(c, [Reply(200) EXCEPT !.nonce = drawn + 1]) BY <1>7, <2>1
  <2> QED BY <1>8, <2>2 DEF GET_nonce, NonceTold, CallSteps
<1>9. CASE POST_auth(c)
  <2>1. CASE nonce = sent[c].nonce
    <3> DEFINE reply == [Reply(200) EXCEPT !.cookies = pair']
    <3>1. /\ Answer(c, reply) /\ performed' = performed /\ at[c] = "auth"
          /\ logins' = logins + 1 /\ pair' = [made |-> now, login |-> logins + 1]
      BY <1>9, <2>1 DEF POST_auth, Grant
    <3>2. Told(c, reply) BY <1>7, <3>1
    <3> QED BY <2>1, <3>1, <3>2 DEF LoggedIn, CallSteps
  <2>2. CASE nonce # sent[c].nonce
    <3>1. /\ Answer(c, Reply(400)) /\ performed' = performed /\ at[c] = "auth"
          /\ UNCHANGED <<logins, pair>>
      BY <1>9, <2>2 DEF POST_auth
    <3>2. Told(c, Reply(400)) BY <1>7, <3>1
    <3> QED BY <2>2, <3>1, <3>2 DEF RefusedToken, CallSteps
  <2> QED BY <2>1, <2>2
<1>10. CASE POST_refresh(c)
  <2>1. CASE Refreshable(c)
    <3> DEFINE reply == [Reply(200) EXCEPT !.cookies = pair']
    <3>1. /\ Answer(c, reply) /\ performed' = performed /\ at[c] = "refresh"
          /\ nonce' = nonce /\ logins' = logins /\ pair' = [made |-> now, login |-> pair.login]
      BY <1>10, <2>1 DEF POST_refresh, Grant
    <3>2. Told(c, reply) BY <1>7, <3>1
    <3> QED BY <2>1, <3>1, <3>2 DEF Refreshed, CallSteps
  <2>2. CASE ~Refreshable(c)
    <3>1. /\ Answer(c, Reply(401)) /\ performed' = performed /\ at[c] = "refresh"
          /\ UNCHANGED <<nonce, logins, pair>>
      BY <1>10, <2>2 DEF POST_refresh
    <3>2. Told(c, Reply(401)) BY <1>7, <3>1
    <3> QED BY <2>2, <3>1, <3>2 DEF RefusedToken, CallSteps
  <2> QED BY <2>1, <2>2
<1>11. CASE Perform(c)
  <2>1. at[c] \in {"request", "retry"} /\ UNCHANGED <<nonce, pair, logins>>
    BY <1>11 DEF Perform
  <2>2. CASE Valid(sent[c].pair, AccessLife) /\ SameToken(sent[c].pair)
    <3>1. Answer(c, Reply(200)) /\ performed' = [performed EXCEPT ![c] = @ + 1]
      BY <1>11, <2>2 DEF Perform
    <3>2. performed'[c] = performed[c] + 1 /\ \A d \in Calls \ {c} : performed'[d] = performed[d]
      BY <1>0, <3>1
    <3>3. Told(c, Reply(200)) BY <1>7, <3>1, <3>2
    <3> QED BY <2>1, <2>2, <3>2, <3>3 DEF Performed, CallSteps
  <2>3. CASE ~(Valid(sent[c].pair, AccessLife) /\ SameToken(sent[c].pair))
    <3>1. Answer(c, Reply(401)) /\ performed' = performed
      BY <1>11, <2>3 DEF Perform
    <3>2. Told(c, Reply(401)) BY <1>7, <3>1
    <3> QED BY <2>1, <2>3, <3>1, <3>2 DEF RefusedToken, CallSteps
  <2> QED BY <2>2, <2>3
<1> QED BY <1>2, <1>3, <1>4, <1>5, <1>6, <1>8, <1>9, <1>10, <1>11 DEF Page, Serve

\* Every step is one call's, or comes from elsewhere.
LEMMA WebSteps ==
  ASSUME WebInv, [WebNext]_webVars
  PROVE  (\E c \in Calls : CallSteps(c)) \/ Elsewhere
<1>1. ASSUME NEW c \in Calls, Page(c) \/ personal_sign(c) \/ Receive(c) \/ Lose(c) \/ Serve(c)
      PROVE  CallSteps(c)
  BY <1>1, CallStepOf
<1>2. CASE UNCHANGED webVars BY <1>2 DEF Elsewhere, webVars, server
<1>3. CASE GET_nonceElsewhere \/ Tick \/ Restart
  BY <1>3 DEF Elsewhere, GET_nonceElsewhere, Tick, Restart
<1> QED BY <1>1, <1>2, <1>3 DEF WebNext

-----------------------------------------------------------------------------
(* Acting once                                                              *)

\* What has been done for a click, by where its call is: nothing before an answer
\* says so, and a call goes on from an answer only when nothing was done.
DoneSoFar(c) ==
  /\ performed[c] \in {0, 1}
  /\ at[c] \in {"idle", "refresh"} \/ wire[c] = "sent" => performed[c] = 0
  /\ at[c] = "ended" \/ (wire[c] = "answered" /\ at[c] # "refresh") =>
       /\ got[c].status = 200 => performed[c] = 1
       /\ got[c].status = 401 => performed[c] = 0

ActInv == \A c \in Requests : DoneSoFar(c)

LEMMA DoneSoFarKept ==
  ASSUME WebInv, NEW c \in Requests, DoneSoFar(c), CallSteps(c)
  PROVE  DoneSoFar(c)'
<1>1. /\ at[c] \in {"idle", "request", "refresh", "retry", "ended"}
      /\ wire[c] = "none" <=> at[c] \in {"idle", "ended"}
      /\ wire[c] \in {"none", "sent", "answered"}
      /\ got[c].status \in {0, 200, 400, 401} /\ c \notin Logins
  BY WebAssumption DEF WebAssumption, WebInv, WebTypeOK, CallsApart, Calls
<1>2. CASE Clicked(c) BY <1>1, <1>2 DEF Clicked, DoneSoFar
<1>3. CASE Signed(c) BY <1>1, <1>3 DEF Signed
<1>4. CASE Received(c)
  <2>1. got'[c].status = got[c].status
    BY <1>4 DEF Received, WebInv, WebTypeOK, Calls
  <2> QED BY <1>1, <1>4, <2>1 DEF Received, DoneSoFar
<1>5. CASE Lost(c) BY <1>1, <1>5 DEF Lost, DoneSoFar, Reply
<1>6. CASE NonceTold(c) \/ LoggedIn(c) BY <1>1, <1>6 DEF NonceTold, LoggedIn
<1>7. CASE Refreshed(c) BY <1>1, <1>7 DEF Refreshed, Told, DoneSoFar
<1>8. CASE RefusedToken(c) BY <1>1, <1>8 DEF RefusedToken, Told, DoneSoFar, Reply
<1>9. CASE Performed(c) BY <1>1, <1>9 DEF Performed, Told, DoneSoFar, Reply
<1> QED BY <1>2, <1>3, <1>4, <1>5, <1>6, <1>7, <1>8, <1>9 DEF CallSteps

LEMMA OthersOf ==
  ASSUME NEW c \in Calls, CallSteps(c)
  PROVE  Others(c)
BY DEF CallSteps, Clicked, Signed, Received, Lost, NonceTold, LoggedIn, Refreshed,
  RefusedToken, Performed, Told

LEMMA ActInvInit == WebInit => ActInv
BY DEF WebInit, ActInv, DoneSoFar, Calls

LEMMA ActInvNext == WebInv /\ ActInv /\ [WebNext]_webVars => ActInv'
<1> SUFFICES ASSUME WebInv, ActInv, [WebNext]_webVars, NEW d \in Requests
             PROVE  DoneSoFar(d)'
  BY DEF ActInv
<1>1. DoneSoFar(d) /\ d \in Calls BY DEF ActInv, Calls
<1>2. CASE Elsewhere BY <1>1, <1>2 DEF Elsewhere, DoneSoFar
<1>3. ASSUME NEW c \in Calls, CallSteps(c) PROVE DoneSoFar(d)'
  <2>1. CASE c = d BY <1>1, <1>3, <2>1, DoneSoFarKept
  <2>2. CASE c # d
    BY <1>1, <1>3, <2>2, OthersOf DEF Others, DoneSoFar
  <2> QED BY <2>1, <2>2
<1> QED BY <1>2, <1>3, WebSteps

\* What a click asks for is done at most once and as the page shows it, for any
\* number of clicks at once, lost answers and restarts (requestWithRefresh).
THEOREM ActsOnceCorrect == WebSpec => []ActsOnce
<1>1. WebInit => ActInv BY ActInvInit
<1>2. WebInv /\ ActInv /\ [WebNext]_webVars => ActInv' BY ActInvNext
<1>3. ActInv => ActsOnce BY DEF ActInv, DoneSoFar, ActsOnce
<1> QED BY <1>1, <1>2, <1>3, WebInvariant, PTL DEF WebSpec

-----------------------------------------------------------------------------
(* Cookies that do not go back                                              *)

\* The pairs that the browser has, has sent, or will have
Held(p) ==
  /\ p # NoPair
  /\ \/ p = cookies
     \/ \E d \in Calls : p = sent[d].pair \/ p = got[d].cookies

\* Nobody holds a pair younger than the server's, or of a login to come.
PairsInOrder ==
  /\ pair # NoPair => pair.made <= now /\ pair.login = logins
  /\ \A p \in Pairs : Held(p) =>
       /\ p.made <= now /\ p.login <= logins
       /\ pair # NoPair => p.made <= pair.made

\* The new tokens under way to a refresh, made in another second than those it sent
Bringing(c) ==
  /\ at[c] = "refresh" /\ wire[c] = "answered" /\ got[c].status = 200
  /\ got[c].cookies.made # sent[c].pair.made

\* Nobody else holds a pair of that second that could be refreshed again, nor a
\* younger one of the same login.
BroughtAlone(c) ==
  LET new == got[c].cookies IN
  /\ pair # NoPair /\ new.login = logins =>
       /\ pair = new
       /\ cookies # NoPair => cookies.made # new.made
       /\ \A d \in Calls :
            /\ sent[d].pair # NoPair => sent[d].pair.made # new.made
            /\ d # c /\ got[d].cookies # NoPair => got[d].cookies.made # new.made
  /\ \A p \in Pairs : Held(p) /\ p.login = new.login => p.made <= new.made

RefreshAnswered(c) ==
  at[c] = "refresh" /\ wire[c] = "answered" /\ got[c].status = 200 =>
    got[c].cookies # NoPair /\ sent[c].pair # NoPair

CookieInv ==
  /\ PairsInOrder
  /\ \A c \in Calls : sent[c].pair # NoPair => cookies # NoPair
  /\ \A c \in Requests : RefreshAnswered(c) /\ (Bringing(c) => BroughtAlone(c))

\* Where tokens go in a step of a call
GrantedTo(c) ==
  /\ got'[c].cookies = pair' /\ cookies' = cookies /\ sent'[c] = sent[c]
  /\ pair' \in Pairs /\ pair' # NoPair /\ pair'.made = now
  /\ \/ logins' = logins + 1 /\ pair'.login = logins + 1 /\ at[c] = "auth"
     \/ Refreshed(c) /\ logins' = logins /\ pair'.login = pair.login

Moved(c) ==
  /\ Others(c) /\ now' = now
  /\ cookies' \in {cookies, got[c].cookies} /\ (cookies # NoPair => cookies' # NoPair)
  /\ sent'[c].pair \in {cookies', sent[c].pair, NoPair}
  /\ \/ pair' = pair /\ logins' = logins /\ got'[c].cookies \in {got[c].cookies, NoPair}
     \/ GrantedTo(c)

LEMMA PairsTyped ==
  ASSUME WebInv
  PROVE  /\ pair \in Pairs \cup {NoPair} /\ cookies \in Pairs \cup {NoPair}
         /\ \A d \in Calls : sent[d].pair \in Pairs \cup {NoPair}
         /\ \A d \in Calls : got[d].cookies \in Pairs \cup {NoPair}
         /\ \A p \in Pairs : p.made \in Nat /\ p.login \in Nat
         /\ now \in Nat /\ logins \in Nat
<1>1. Cardinality(Logins) \in Nat BY SpentFinite DEF WebInv
<1> QED BY <1>1, WebAssumption DEF WebAssumption, WebInv, WebTypeOK, Pairs

LEMMA Moves ==
  ASSUME WebInv, WebInv', NEW c \in Calls, CallSteps(c)
  PROVE  Moved(c)
<1>1. CASE Clicked(c) BY <1>1 DEF Clicked, Moved, server
<1>2. CASE Signed(c) BY <1>2 DEF Signed, Moved, server, Nothing, Reply
<1>3. CASE Received(c)
  <2>1. got'[c].cookies = NoPair
    BY <1>3 DEF Received, WebInv, WebTypeOK
  <2>2. sent'[c].pair \in {cookies', sent[c].pair, NoPair}
    BY <1>3 DEF Received, Nothing
  <2>3. cookies' \in {cookies, got[c].cookies} /\ (cookies # NoPair => cookies' # NoPair)
    BY <1>3 DEF Received
  <2> QED BY <1>3, <2>1, <2>2, <2>3 DEF Received, Moved, server
<1>4. CASE Lost(c) BY <1>4 DEF Lost, Moved, server, Nothing, Reply
<1>5. CASE NonceTold(c)
  <2>1. got'[c].cookies = NoPair BY <1>5 DEF NonceTold, Told, Reply
  <2> QED BY <1>5, <2>1 DEF NonceTold, Told, Moved
<1>6. CASE LoggedIn(c) \/ Refreshed(c)
  <2>1. Told(c, [Reply(200) EXCEPT !.cookies = pair'])
    BY <1>6 DEF LoggedIn, Refreshed
  <2>2. got'[c].cookies = pair' BY <2>1 DEF Told, Reply
  <2>3. pair'.made = now BY <1>6 DEF LoggedIn, Refreshed
  <2>4. pair' \in Pairs \cup {NoPair} BY PairsTyped DEF WebInv, WebTypeOK
  <2>5. pair' # NoPair
    <3>1. CASE LoggedIn(c)
      <4>1. pair' \in [made : Nat, login : Nat] BY <3>1, PairsTyped DEF LoggedIn
      <4> QED BY <4>1, WebAssumption DEF WebAssumption
    <3>2. CASE Refreshed(c)
      <4>1. pair \in Pairs BY <3>2, PairsTyped DEF Refreshed, Refreshable, SameToken
      <4>2. pair' \in [made : Nat, login : Nat] BY <3>2, <4>1, PairsTyped DEF Refreshed
      <4> QED BY <4>2, WebAssumption DEF WebAssumption
    <3> QED BY <1>6, <3>1, <3>2
  <2>6. \/ logins' = logins + 1 /\ pair'.login = logins + 1 /\ at[c] = "auth"
        \/ Refreshed(c) /\ logins' = logins /\ pair'.login = pair.login
    BY <1>6 DEF LoggedIn, Refreshed
  <2>7. GrantedTo(c) BY <2>1, <2>2, <2>3, <2>4, <2>5, <2>6 DEF GrantedTo, Told
  <2> QED BY <2>1, <2>7 DEF Moved, Told
<1>7. CASE RefusedToken(c)
  <2>1. got'[c].cookies = NoPair BY <1>7 DEF RefusedToken, Told, Reply
  <2> QED BY <1>7, <2>1 DEF RefusedToken, Told, Moved
<1>8. CASE Performed(c)
  <2>1. got'[c].cookies = NoPair BY <1>8 DEF Performed, Told, Reply
  <2> QED BY <1>8, <2>1 DEF Performed, Told, Moved
<1> QED BY <1>1, <1>2, <1>3, <1>4, <1>5, <1>6, <1>7, <1>8 DEF CallSteps

\* No pair comes from nowhere.
LEMMA HeldBefore ==
  ASSUME NEW c \in Calls, Moved(c), NEW p, Held(p)'
  PROVE  Held(p) \/ (GrantedTo(c) /\ p = pair')
<1>1. CASE p = cookies' BY <1>1 DEF Moved, Held
<1>2. ASSUME NEW d \in Calls, p = sent'[d].pair PROVE Held(p)
  <2>1. CASE d = c BY <1>2, <2>1 DEF Moved, Held
  <2>2. CASE d # c BY <1>2, <2>2 DEF Moved, Others, Held
  <2> QED BY <2>1, <2>2
<1>3. ASSUME NEW d \in Calls, p = got'[d].cookies PROVE Held(p) \/ (GrantedTo(c) /\ p = pair')
  <2>1. CASE d = c
    <3>1. CASE GrantedTo(c) BY <1>3, <2>1, <3>1 DEF GrantedTo
    <3>2. CASE ~GrantedTo(c) BY <1>3, <2>1, <3>2 DEF Moved, Held
    <3> QED BY <3>1, <3>2
  <2>2. CASE d # c BY <1>3, <2>2 DEF Moved, Others, Held
  <2> QED BY <2>1, <2>2
<1> QED BY <1>1, <1>2, <1>3 DEF Held

LEMMA OrderKept ==
  ASSUME WebInv, WebInv', PairsInOrder, NEW c \in Calls, Moved(c)
  PROVE  PairsInOrder'
<1>1. /\ pair \in Pairs \cup {NoPair} /\ now \in Nat /\ logins \in Nat /\ now' = now
      /\ \A p \in Pairs : p.made \in Nat /\ p.login \in Nat
  BY PairsTyped DEF Moved
<1>2. CASE pair' = pair /\ logins' = logins
  <2>1. pair' # NoPair => pair'.made <= now' /\ pair'.login = logins'
    BY <1>1, <1>2 DEF PairsInOrder
  <2>2. ASSUME NEW p \in Pairs, Held(p)'
        PROVE  p.made <= now' /\ p.login <= logins' /\ (pair' # NoPair => p.made <= pair'.made)
    <3>1. CASE Held(p) BY <1>1, <1>2, <3>1 DEF PairsInOrder
    <3>2. CASE p = pair' /\ p # NoPair BY <1>1, <1>2, <3>2 DEF PairsInOrder
    <3> QED BY <2>2, <3>1, <3>2, HeldBefore DEF Held
  <2> QED BY <2>1, <2>2 DEF PairsInOrder
<1>3. CASE GrantedTo(c)
  <2>1. /\ pair' \in Pairs /\ pair'.made = now /\ pair'.login = logins'
        /\ logins' = logins \/ logins' = logins + 1
    <3>1. CASE Refreshed(c) /\ logins' = logins /\ pair'.login = pair.login
      <4>1. pair # NoPair BY <3>1 DEF Refreshed, Refreshable, SameToken
      <4> QED BY <1>3, <3>1, <4>1 DEF GrantedTo, PairsInOrder
    <3> QED BY <1>3, <3>1 DEF GrantedTo
  <2>2. ASSUME NEW p \in Pairs, Held(p)'
        PROVE  p.made <= now' /\ p.login <= logins' /\ (pair' # NoPair => p.made <= pair'.made)
    <3>1. CASE Held(p) BY <1>1, <2>1, <3>1 DEF PairsInOrder
    <3>2. CASE p = pair' BY <1>1, <2>1, <3>2
    <3> QED BY <2>2, <3>1, <3>2, HeldBefore
  <2> QED BY <1>1, <2>1, <2>2 DEF PairsInOrder
<1> QED BY <1>2, <1>3 DEF Moved

\* The new tokens of a refresh stay alone while others go on.
LEMMA AloneKept ==
  ASSUME WebInv, WebInv', PairsInOrder, NEW c \in Calls, Moved(c), NEW d \in Calls \ {c},
         Bringing(d), RefreshAnswered(d), BroughtAlone(d)
  PROVE  BroughtAlone(d)'
<1> DEFINE new == got[d].cookies
<1>1. /\ new \in Pairs /\ new # NoPair /\ got'[d] = got[d] /\ sent'[d] = sent[d]
      /\ Held(new) /\ new.login \in Nat /\ new.made \in Nat /\ logins \in Nat
      /\ new.login <= logins
  <2>1. new # NoPair BY DEF Bringing, RefreshAnswered
  <2>2. new \in Pairs /\ Held(new) BY <2>1, PairsTyped DEF Held
  <2> QED BY <2>1, <2>2, PairsTyped DEF PairsInOrder, Moved, Others
<1>2. /\ pair # NoPair /\ new.login = logins =>
           /\ pair = new
           /\ cookies # NoPair => cookies.made # new.made
           /\ \A e \in Calls :
                /\ sent[e].pair # NoPair => sent[e].pair.made # new.made
                /\ e # d /\ got[e].cookies # NoPair => got[e].cookies.made # new.made
      /\ \A p \in Pairs : Held(p) /\ p.login = new.login => p.made <= new.made
  BY DEF BroughtAlone
<1> HIDE DEF new
<1>3. ~(GrantedTo(c) /\ pair'.login = new.login)
  <2> SUFFICES ASSUME GrantedTo(c), pair'.login = new.login PROVE FALSE OBVIOUS
  <2>1. CASE logins' = logins + 1 /\ pair'.login = logins + 1
    BY <1>1, <2>1
  <2>2. CASE Refreshed(c) /\ logins' = logins /\ pair'.login = pair.login
    <3>1. pair # NoPair /\ sent[c].pair # NoPair /\ sent[c].pair.made = pair.made
      BY <2>2 DEF Refreshed, Refreshable, SameToken
    <3>2. new.login = logins BY <2>2, <3>1 DEF PairsInOrder
    <3> QED BY <1>2, <3>1, <3>2
  <2> QED BY <2>1, <2>2 DEF GrantedTo
<1>4. ASSUME pair' # NoPair, new.login = logins'
      PROVE  /\ pair' = new
             /\ cookies' # NoPair => cookies'.made # new.made
             /\ \A e \in Calls :
                  /\ sent'[e].pair # NoPair => sent'[e].pair.made # new.made
                  /\ e # d /\ got'[e].cookies # NoPair => got'[e].cookies.made # new.made
  <2>1. CASE GrantedTo(c)
    <3>1. pair'.login = logins'
      BY <1>4, <2>1, OrderKept DEF PairsInOrder
    <3> QED BY <1>3, <1>4, <2>1, <3>1
  <2>2. CASE ~GrantedTo(c)
    <3>1. /\ pair' = pair /\ logins' = logins /\ got'[c].cookies \in {got[c].cookies, NoPair}
          /\ cookies' \in {cookies, got[c].cookies}
          /\ sent'[c].pair \in {cookies', sent[c].pair, NoPair}
      BY <2>2 DEF Moved
    <3>2. cookies' # NoPair => cookies'.made # new.made
      BY <1>2, <1>4, <3>1
    <3>3. ASSUME NEW e \in Calls
          PROVE  /\ sent'[e].pair # NoPair => sent'[e].pair.made # new.made
                 /\ e # d /\ got'[e].cookies # NoPair => got'[e].cookies.made # new.made
      <4>1. CASE e = c BY <1>2, <1>4, <3>1, <3>2, <4>1
      <4>2. CASE e # c BY <1>2, <1>4, <3>1, <4>2 DEF Moved, Others
      <4> QED BY <4>1, <4>2
    <3> QED BY <1>2, <1>4, <3>1, <3>2, <3>3
  <2> QED BY <2>1, <2>2
<1>5. ASSUME NEW p \in Pairs, Held(p)', p.login = new.login PROVE p.made <= new.made
  BY <1>2, <1>3, <1>5, HeldBefore
<1>6. got'[d].cookies = new BY <1>1 DEF new
<1> QED BY <1>4, <1>5, <1>6 DEF BroughtAlone

\* A refresh that is answered in another second than its tokens were made in
LEMMA AloneMade ==
  ASSUME WebInv, WebInv', PairsInOrder, NEW c \in Calls, CallSteps(c), Bringing(c)'
  PROVE  BroughtAlone(c)'
<1>1. Moved(c) BY Moves
<1>2. Refreshed(c)
  BY DEF Bringing, CallSteps, Clicked, Signed, Received, Lost, NonceTold, LoggedIn, RefusedToken,
     Performed, Told, Reply
<1> DEFINE new == pair'
<1>3. GrantedTo(c)
  <2>1. pair' # pair
    <3>1. sent[c].pair.made = pair.made /\ sent'[c] = sent[c] /\ got'[c].cookies = pair'
      BY <1>2 DEF Refreshed, Refreshable, SameToken, Told, Reply
    <3> QED BY <3>1 DEF Bringing
  <2> QED BY <1>1, <2>1 DEF Moved
<1>4. /\ got'[c].cookies = new /\ new \in Pairs /\ new.made = now /\ new.login = pair.login
      /\ cookies' = cookies /\ sent'[c] = sent[c] /\ logins' = logins
      /\ pair # NoPair /\ sent[c].pair.made = pair.made /\ sent[c].pair.made # new.made
  BY <1>2, <1>3 DEF GrantedTo, Refreshed, Refreshable, SameToken, Bringing
<1>5. pair.made < new.made /\ pair.made \in Nat /\ new.made \in Nat
  <2>1. pair.made \in Nat /\ now \in Nat /\ pair.made <= now
    BY <1>4, PairsTyped DEF PairsInOrder
  <2> QED BY <1>4, <2>1
<1> HIDE DEF new
<1>6. \A p \in Pairs : Held(p) => p.made < new.made /\ p.made # new.made
  <2> SUFFICES ASSUME NEW p \in Pairs, Held(p) PROVE p.made < new.made /\ p.made # new.made
    OBVIOUS
  <2>1. p.made <= pair.made /\ p.made \in Nat BY <1>4, PairsTyped DEF PairsInOrder
  <2> QED BY <1>5, <2>1
<1>7. cookies' # NoPair => cookies'.made # new.made
  BY <1>4, <1>6, PairsTyped DEF Held
<1>8. ASSUME NEW e \in Calls
      PROVE  /\ sent'[e].pair # NoPair => sent'[e].pair.made # new.made
             /\ e # c /\ got'[e].cookies # NoPair => got'[e].cookies.made # new.made
  <2>1. sent'[e] = sent[e] /\ (e # c => got'[e] = got[e]) BY <1>1, <1>4 DEF Moved, Others
  <2> QED BY <1>6, <2>1, PairsTyped DEF Held
<1>9. ASSUME NEW p \in Pairs, Held(p)' PROVE p.made <= new.made
  <2>1. CASE Held(p) BY <1>5, <1>6, <2>1, PairsTyped
  <2>2. CASE p = new BY <1>5, <2>2
  <2> QED BY <1>1, <1>9, <2>1, <2>2, HeldBefore DEF new
<1>10. pair' = new BY DEF new
<1> QED BY <1>4, <1>7, <1>8, <1>9, <1>10 DEF BroughtAlone

LEMMA CookieInvInit == WebInit => CookieInv
<1> SUFFICES ASSUME WebInit PROVE CookieInv OBVIOUS
<1>1. PairsInOrder BY WebAssumption DEF WebAssumption, WebInit, PairsInOrder, Held, Nothing, Reply
<1> QED BY <1>1 DEF WebInit, CookieInv, RefreshAnswered, Bringing, Nothing, Calls

LEMMA CookieInvNext == WebInv /\ CookieInv /\ [WebNext]_webVars /\ WebInv' => CookieInv'
<1> SUFFICES ASSUME WebInv, CookieInv, [WebNext]_webVars, WebInv' PROVE CookieInv' OBVIOUS
<1>1. CASE Elsewhere
  <2>1. /\ UNCHANGED <<cookies, at, wire, sent, got, performed, logins>>
        /\ pair' = pair \/ pair' = NoPair
        /\ now' = now \/ now' = now + 1
    BY <1>1 DEF Elsewhere, GET_nonceElsewhere, Tick, Restart, webVars, server
  <2>2. \A p : Held(p)' <=> Held(p) BY <2>1 DEF Held
  <2>3. PairsInOrder'
    <3>1. now \in Nat /\ \A p \in Pairs : p.made \in Nat BY PairsTyped
    <3>2. PairsInOrder /\ pair \in Pairs \cup {NoPair} BY PairsTyped DEF CookieInv
    <3>3. pair' # NoPair => pair' = pair /\ pair \in Pairs BY <2>1, <3>2
    <3>4. pair' # NoPair => pair'.made <= now' /\ pair'.login = logins'
      BY <2>1, <3>1, <3>2, <3>3 DEF PairsInOrder
    <3>5. ASSUME NEW p \in Pairs, Held(p)'
          PROVE  p.made <= now' /\ p.login <= logins' /\ (pair' # NoPair => p.made <= pair'.made)
      BY <2>1, <2>2, <3>1, <3>2, <3>3, <3>5 DEF PairsInOrder
    <3> QED BY <3>4, <3>5 DEF PairsInOrder
  <2>4. ASSUME NEW c \in Requests PROVE RefreshAnswered(c)' /\ (Bringing(c)' => BroughtAlone(c)')
    <3>1. RefreshAnswered(c)' BY <2>1 DEF CookieInv, RefreshAnswered
    <3>2. ASSUME Bringing(c)' PROVE BroughtAlone(c)'
      <4>1. BroughtAlone(c) BY <2>1, <3>2 DEF CookieInv, Bringing
      <4> QED BY <2>1, <2>2, <4>1 DEF BroughtAlone
    <3> QED BY <3>1, <3>2
  <2> QED BY <2>1, <2>3, <2>4 DEF CookieInv
<1>2. ASSUME NEW c \in Calls, CallSteps(c) PROVE CookieInv'
  <2>1. Moved(c) /\ PairsInOrder BY <1>2, Moves DEF CookieInv
  <2>2. PairsInOrder' BY <2>1, OrderKept
  <2>3. ASSUME NEW d \in Calls, sent'[d].pair # NoPair PROVE cookies' # NoPair
    <3>1. CASE d = c BY <2>1, <2>3, <3>1 DEF Moved, CookieInv
    <3>2. CASE d # c BY <2>1, <2>3, <3>2 DEF Moved, Others, CookieInv
    <3> QED BY <3>1, <3>2
  <2>4. ASSUME NEW d \in Requests PROVE RefreshAnswered(d)' /\ (Bringing(d)' => BroughtAlone(d)')
    <3>1. CASE d = c
      <4>1. RefreshAnswered(d)'
        <5> SUFFICES ASSUME at'[c] = "refresh", wire'[c] = "answered", got'[c].status = 200
                     PROVE  got'[c].cookies # NoPair /\ sent'[c].pair # NoPair
          BY <3>1 DEF RefreshAnswered
        <5>1. Refreshed(c)
          BY <1>2 DEF CallSteps, Clicked, Signed, Received, Lost, NonceTold, LoggedIn,
             RefusedToken, Performed, Told, Reply
        <5>2. pair # NoPair /\ sent[c].pair # NoPair /\ sent'[c] = sent[c] /\ got'[c].cookies = pair'
          BY <5>1 DEF Refreshed, Refreshable, SameToken, Told, Reply
        <5>3. pair' # NoPair BY <2>1, <5>2 DEF Moved, GrantedTo
        <5> QED BY <5>2, <5>3
      <4>2. Bringing(d)' => BroughtAlone(d)' BY <1>2, <2>1, <3>1, AloneMade
      <4> QED BY <4>1, <4>2
    <3>2. CASE d # c
      <4>0. d \in Calls \ {c} BY <3>2 DEF Calls
      <4>1. /\ at'[d] = at[d] /\ wire'[d] = wire[d] /\ got'[d] = got[d] /\ sent'[d] = sent[d]
        BY <2>1, <4>0 DEF Moved, Others
      <4>2. RefreshAnswered(d) /\ RefreshAnswered(d)'
        BY <4>1 DEF CookieInv, RefreshAnswered
      <4>3. Bringing(d)' => Bringing(d) /\ BroughtAlone(d) BY <4>1 DEF CookieInv, Bringing
      <4> QED BY <2>1, <4>0, <4>2, <4>3, AloneKept
    <3> QED BY <3>1, <3>2
  <2> QED BY <2>2, <2>3, <2>4 DEF CookieInv
<1> QED BY <1>1, <1>2, WebSteps

LEMMA CookiesGoForth ==
  ASSUME WebInv, CookieInv, [WebNext]_webVars, NEW c \in Requests,
         at[c] = "refresh", wire[c] = "answered", at'[c] = "retry",
         got[c].cookies.made # sent[c].pair.made, got[c].cookies.login = cookies.login
  PROVE  cookies.made <= cookies'.made
<1>1. c \in Calls BY DEF Calls
<1>2. Received(c)
  <2>1. ~Elsewhere BY DEF Elsewhere
  <2>2. PICK d \in Calls : CallSteps(d) BY <2>1, WebSteps
  <2>3. d = c BY <1>1, <2>2, OthersOf DEF Others
  <2> QED BY <2>2, <2>3 DEF CallSteps, Clicked, Signed, Lost, NonceTold, LoggedIn, Refreshed,
       RefusedToken, Performed, Told
<1>3. got[c].status = 200 BY <1>2 DEF Received
<1>4. got[c].cookies # NoPair /\ cookies # NoPair
  BY <1>1, <1>3 DEF CookieInv, RefreshAnswered
<1>5. cookies' = got[c].cookies BY <1>2, <1>4 DEF Received
<1>6. BroughtAlone(c) BY <1>3 DEF CookieInv, Bringing
<1>7. cookies \in Pairs /\ Held(cookies) BY <1>4, PairsTyped DEF Held
<1> QED BY <1>5, <1>6, <1>7 DEF BroughtAlone

\* The new tokens of a refresh, when they are not of the second of those they
\* replace, never replace younger ones of the same login in the browser, for any
\* number of calls that share its cookies.  (An answer of another login may: cookies
\* of a refresh that arrive after those of a new login take their place.)
THEOREM CookiesGoForthCorrect == WebSpec => CookiesNeverGoBack
<1>1. WebInit => CookieInv BY CookieInvInit
<1>2. WebInv /\ CookieInv /\ [WebNext]_webVars /\ WebInv' => CookieInv' BY CookieInvNext
<1>3. WebInv /\ CookieInv /\ [WebNext]_webVars =>
        [\A c \in Requests :
           /\ at[c] = "refresh" /\ wire[c] = "answered" /\ at'[c] = "retry"
           /\ got[c].cookies.made # sent[c].pair.made
           /\ got[c].cookies.login = cookies.login
           => cookies.made <= cookies'.made]_webVars
  BY CookiesGoForth
<1> QED BY <1>1, <1>2, <1>3, WebInvariant, PTL DEF WebSpec, CookiesNeverGoBack

-----------------------------------------------------------------------------
(* Calls that nothing came in the way of                                    *)

\* What the browser and the server share while such a call goes on
Calm(c) ==
  /\ at[c] # "idle" /\ \A d \in Calls \ {c} : at[d] \in {"idle", "ended"}
  /\ at[c] \in {"nonce", "sign", "request", "retry"} => got[c].cookies = NoPair
  /\ at[c] = "nonce" /\ wire[c] = "answered" => got[c].status = 200 /\ nonce = got[c].nonce
  /\ at[c] = "sign" => nonce = got[c].nonce
  /\ at[c] = "auth" /\ wire[c] = "sent" => nonce = sent[c].nonce
  /\ at[c] \in {"auth", "refresh"} /\ wire[c] = "answered" =>
       got[c].status = 200 /\ got[c].cookies = pair /\ pair # NoPair
  /\ at[c] \in {"request", "retry"} \/ (at[c] = "refresh" /\ wire[c] = "sent") =>
       cookies = pair /\ sent[c].pair = pair /\ pair # NoPair
  /\ at[c] = "request" \/ (at[c] = "refresh" /\ wire[c] = "sent") => Valid(pair, RefreshLife)
  /\ at[c] = "request" /\ wire[c] = "answered" =>
       \/ got[c].status = 200
       \/ got[c].status = 401 /\ ~Valid(pair, AccessLife)
  /\ at[c] = "refresh" /\ wire[c] = "sent" => ~Valid(pair, AccessLife)
  /\ at[c] = "retry" \/ (at[c] = "refresh" /\ wire[c] = "answered") => Valid(pair, AccessLife)
  /\ at[c] = "retry" /\ wire[c] = "answered" => got[c].status = 200
  /\ at[c] = "ended" => got[c].status = 200 /\ cookies = pair

CalmInv ==
  \A c \in Calls :
    /\ at[c] = "idle" => got[c].cookies = NoPair
    /\ calm[c] => Calm(c)

\* A step of the call itself
LEMMA CalmGoesOn ==
  ASSUME WebInv, WebInv', NEW c \in Calls, CallSteps(c), calm'[c],
         calm[c] => Calm(c), at[c] = "idle" => got[c].cookies = NoPair
  PROVE  Calm(c)'
<1>1. /\ at[c] \in {"idle", "nonce", "sign", "auth", "request", "refresh", "retry", "ended"}
      /\ at[c] \in {"nonce", "sign", "auth"} => c \in Logins
      /\ at[c] \in {"request", "refresh", "retry"} => c \in Requests
      /\ wire[c] = "none" <=> at[c] \in {"idle", "sign", "ended"}
      /\ c \in Logins => c \notin Requests
  BY WebAssumption DEF WebAssumption, WebInv, WebTypeOK, CallsApart
<1>2. \A d \in Calls \ {c} : at'[d] = at[d]
  BY OthersOf DEF Others
<1>3. CASE Clicked(c)
  <2>1. \A d \in Calls \ {c} : at'[d] \in {"idle", "ended"}
    BY <1>2, <1>3 DEF Clicked, UnderWay
  <2>2. sent'[c].pair = cookies BY <1>3 DEF Clicked
  <2>3. c \in Requests => cookies = pair /\ Valid(pair, RefreshLife) /\ Valid(pair, RefreshLife)'
    BY <1>3 DEF Clicked, Valid, server
  <2>4. at'[c] = "request" => pair # NoPair /\ c \in Requests
    BY <1>1, <1>3, <2>3 DEF Clicked, Valid
  <2> QED BY <1>3, <2>1, <2>2, <2>3, <2>4 DEF Clicked, Calm, server
<1>4. CASE Signed(c)
  <2>1. calm[c] /\ at'[c] = "auth" /\ wire'[c] = "sent" /\ sent'[c].nonce = got[c].nonce
    <3>1. calm \in [Calls -> BOOLEAN] BY DEF WebInv, WebTypeOK
    <3> QED BY <1>4, <3>1 DEF Signed
  <2> QED BY <1>2, <1>4, <2>1 DEF Signed, Calm, server
<1>5. CASE Received(c)
  <2>1. Calm(c) /\ wire[c] = "answered" /\ nonce' = nonce /\ pair' = pair /\ now' = now
        /\ got'[c].cookies = NoPair /\ got'[c].status = got[c].status
        /\ got'[c].nonce = got[c].nonce
    BY <1>5 DEF Received, server, WebInv, WebTypeOK
  <2>2. CASE at[c] = "nonce"
    BY <1>2, <1>5, <2>1, <2>2 DEF Received, Calm
  <2>3. CASE at[c] = "auth"
    BY <1>2, <1>5, <2>1, <2>3 DEF Received, Calm
  <2>4. CASE at[c] = "request"
    <3>1. got[c].cookies = NoPair /\ cookies' = cookies /\ cookies = pair /\ pair # NoPair
      BY <1>5, <2>1, <2>4 DEF Received, Calm
    <3>2. CASE got[c].status = 200
      BY <1>2, <1>5, <2>1, <2>4, <3>1, <3>2 DEF Received, Calm
    <3>3. CASE got[c].status = 401 /\ ~Valid(pair, AccessLife)
      <4>1. at'[c] = "refresh" /\ wire'[c] = "sent" /\ sent'[c].pair = cookies'
        BY <1>5, <2>4, <3>3 DEF Received
      <4>2. Valid(pair, RefreshLife)' /\ ~Valid(pair, AccessLife)'
        BY <2>1, <2>4, <3>3 DEF Calm, Valid
      <4> QED BY <1>2, <2>1, <3>1, <4>1, <4>2 DEF Calm
    <3> QED BY <2>1, <2>4, <3>2, <3>3 DEF Calm
  <2>5. CASE at[c] = "refresh"
    <3>1. got[c].status = 200 /\ cookies' = pair /\ pair # NoPair /\ Valid(pair, AccessLife)'
      BY <1>5, <2>1, <2>5 DEF Received, Calm, Valid
    <3>2. at'[c] = "retry" /\ wire'[c] = "sent" /\ sent'[c].pair = cookies'
      BY <1>5, <2>5, <3>1 DEF Received
    <3> QED BY <1>2, <2>1, <3>1, <3>2 DEF Calm
  <2>6. CASE at[c] = "retry"
    BY <1>2, <1>5, <2>1, <2>6 DEF Received, Calm
  <2> QED BY <1>1, <2>1, <2>2, <2>3, <2>4, <2>5, <2>6
<1>6. CASE Lost(c) BY <1>6 DEF Lost
<1>7. CASE NonceTold(c)
  <2>1. Calm(c) /\ at[c] = "nonce" /\ at'[c] = "nonce" /\ wire'[c] = "answered"
        /\ got'[c].status = 200 /\ got'[c].nonce = nonce' /\ got'[c].cookies = NoPair
    BY <1>7 DEF NonceTold, Told, Reply
  <2> QED BY <1>2, <2>1 DEF Calm
<1>8. CASE LoggedIn(c)
  <2>1. Calm(c) /\ at[c] = "auth" /\ at'[c] = "auth" /\ wire'[c] = "answered"
        /\ got'[c].status = 200 /\ got'[c].cookies = pair'
    BY <1>8 DEF LoggedIn, Told, Reply
  <2>2. pair' # NoPair
    <3>1. pair' \in [made : Nat, login : Nat] BY <1>8, PairsTyped DEF LoggedIn
    <3> QED BY <3>1, WebAssumption DEF WebAssumption
  <2> QED BY <1>2, <2>1, <2>2 DEF Calm
<1>9. CASE Refreshed(c)
  <2>1. Calm(c) /\ at[c] = "refresh" /\ at'[c] = "refresh" /\ wire'[c] = "answered"
        /\ got'[c].status = 200 /\ got'[c].cookies = pair'
    BY <1>9 DEF Refreshed, Told, Reply
  <2>2. pair' # NoPair /\ pair'.made = now
    <3>1. pair \in Pairs BY <1>9, PairsTyped DEF Refreshed, Refreshable, SameToken
    <3>2. pair' \in [made : Nat, login : Nat] BY <1>9, <3>1, PairsTyped DEF Refreshed
    <3> QED BY <1>9, <3>2, WebAssumption DEF WebAssumption, Refreshed
  <2>3. Valid(pair, AccessLife)'
    <3>1. now' = now /\ now \in Nat /\ AccessLife \in Nat \ {0}
      BY <1>9, PairsTyped, WebAssumption DEF Refreshed, Told, WebAssumption
    <3> QED BY <2>2, <3>1 DEF Valid
  <2> QED BY <1>2, <2>1, <2>2, <2>3 DEF Calm
<1>10. CASE RefusedToken(c)
  <2>1. Calm(c) /\ wire[c] = "sent" /\ at'[c] = at[c] /\ wire'[c] = "answered"
        /\ now' = now /\ pair' = pair /\ sent'[c] = sent[c] /\ cookies' = cookies
    BY <1>10 DEF RefusedToken, Told
  <2>2. at[c] \in {"request", "retry"} /\ got'[c] = Reply(401) /\ ~Valid(pair, AccessLife)
    <3>1. at[c] # "auth" BY <1>10, <2>1 DEF RefusedToken, Calm
    <3>2. at[c] # "refresh" BY <1>10, <2>1 DEF RefusedToken, Calm, Refreshable, SameToken
    <3> QED BY <1>10, <2>1, <3>1, <3>2 DEF RefusedToken, Told, Calm, SameToken
  <2>3. at[c] = "request" BY <2>1, <2>2 DEF Calm
  <2>4. Valid(pair, RefreshLife)' /\ ~Valid(pair, AccessLife)'
    BY <2>1, <2>2, <2>3 DEF Calm, Valid
  <2>5. got'[c].cookies = NoPair /\ got'[c].status = 401 BY <2>2 DEF Reply
  <2> QED BY <1>2, <2>1, <2>3, <2>4, <2>5 DEF Calm
<1>11. CASE Performed(c)
  <2>1. Calm(c) /\ wire[c] = "sent" /\ at'[c] = at[c] /\ wire'[c] = "answered"
        /\ now' = now /\ pair' = pair /\ sent'[c] = sent[c] /\ cookies' = cookies
        /\ at[c] \in {"request", "retry"}
    BY <1>11 DEF Performed, Told
  <2>2. got'[c].cookies = NoPair /\ got'[c].status = 200 BY <1>11 DEF Performed, Told, Reply
  <2>3. /\ at[c] = "request" => Valid(pair, RefreshLife)'
        /\ at[c] = "retry" => Valid(pair, AccessLife)'
    BY <2>1 DEF Calm, Valid
  <2> QED BY <1>2, <2>1, <2>2, <2>3 DEF Calm
<1> QED BY <1>3, <1>4, <1>5, <1>6, <1>7, <1>8, <1>9, <1>10, <1>11 DEF CallSteps

\* No other call can take a step and leave this one calm.
LEMMA CalmAlone ==
  ASSUME WebInv, NEW c \in Calls, CallSteps(c), NEW d \in Calls \ {c}, calm'[d],
         calm[d] => Calm(d)
  PROVE  FALSE
<1>1. /\ wire[c] = "none" <=> at[c] \in {"idle", "sign", "ended"}
      /\ calm \in [Calls -> BOOLEAN]
  BY DEF WebInv, CallsApart, WebTypeOK
<1>2. ~Clicked(c) /\ ~Lost(c) BY DEF Clicked, Lost
<1>3. calm[d] BY <1>1, <1>2 DEF CallSteps, Signed, Received, NonceTold, LoggedIn, Refreshed,
  RefusedToken, Performed, Told
<1>4. at[c] \in {"idle", "ended"} BY <1>3 DEF Calm
<1> QED BY <1>1, <1>2, <1>4 DEF CallSteps, Signed, Received, NonceTold, LoggedIn, Refreshed,
  RefusedToken, Performed, Told

LEMMA CalmInvInit == WebInit => CalmInv
BY DEF WebInit, CalmInv, Reply

LEMMA CalmInvNext == WebInv /\ CalmInv /\ [WebNext]_webVars /\ WebInv' => CalmInv'
<1> SUFFICES ASSUME WebInv, CalmInv, [WebNext]_webVars, WebInv', NEW d \in Calls
             PROVE  (at'[d] = "idle" => got'[d].cookies = NoPair) /\ (calm'[d] => Calm(d)')
  BY DEF CalmInv
<1>1. (calm[d] => Calm(d)) /\ (at[d] = "idle" => got[d].cookies = NoPair) BY DEF CalmInv
<1>2. CASE Elsewhere
  <2>1. UNCHANGED <<cookies, at, wire, sent, got, performed, logins>> BY <1>2 DEF Elsewhere
  <2>2. ASSUME calm'[d] PROVE Calm(d)'
    <3>1. CASE UNCHANGED webVars
      BY <1>1, <2>2, <3>1 DEF webVars, server, Calm, Valid
    <3>2. CASE GET_nonceElsewhere
      <4>1. /\ calm[d] /\ d \notin Logins /\ UNCHANGED <<pair, now>>
        BY <2>2, <3>2 DEF GET_nonceElsewhere
      <4>2. at[d] \notin {"nonce", "sign", "auth"} BY <4>1 DEF WebInv, CallsApart
      <4> QED BY <1>1, <2>1, <4>1, <4>2 DEF Calm, Valid
    <3>3. CASE Tick
      <4>1. /\ calm[d] /\ UNCHANGED <<pair, nonce>> /\ now' = now + 1
            /\ d \in Requests => now' < pair.made
                 + (IF at[d] = "request" THEN RefreshLife ELSE AccessLife)
        BY <2>2, <3>3 DEF Tick
      <4>2. at[d] \in {"request", "refresh", "retry"} => d \in Requests /\ pair # NoPair
        BY <1>1, <4>1 DEF WebInv, WebTypeOK, CallsApart, Calm, Valid
      <4>3. at[d] = "request" => Valid(pair, RefreshLife)'
        BY <4>1, <4>2 DEF Valid
      <4>4. at[d] = "retry" \/ (at[d] = "refresh" /\ wire[d] = "answered") =>
              Valid(pair, AccessLife)'
        BY <4>1, <4>2 DEF Valid
      <4>5. ASSUME pair # NoPair, ~Valid(pair, AccessLife)
            PROVE  ~Valid(pair, AccessLife)' /\ ~(now' < pair.made + AccessLife)
        <5>1. now \in Nat /\ pair.made \in Nat /\ AccessLife \in Nat
          BY <4>5, PairsTyped, WebAssumption DEF WebAssumption
        <5> QED BY <4>1, <4>5, <5>1 DEF Valid
      <4>6. ~(at[d] = "refresh" /\ wire[d] = "sent")
        BY <1>1, <4>1, <4>2, <4>5 DEF Calm
      <4> QED BY <1>1, <2>1, <4>1, <4>2, <4>3, <4>4, <4>5, <4>6 DEF Calm
    <3>4. CASE Restart BY <2>2, <3>4 DEF Restart
    <3> QED BY <1>2, <3>1, <3>2, <3>3, <3>4 DEF Elsewhere
  <2> QED BY <1>1, <2>1, <2>2
<1>3. ASSUME NEW c \in Calls, CallSteps(c)
      PROVE  (at'[d] = "idle" => got'[d].cookies = NoPair) /\ (calm'[d] => Calm(d)')
  <2>1. CASE d = c
    <3>1. at'[c] # "idle"
      <4>1. wire[c] = "none" <=> at[c] \in {"idle", "sign", "ended"} BY DEF WebInv, CallsApart
      <4> QED BY <1>3, <4>1 DEF CallSteps, Clicked, Signed, Received, Lost, NonceTold, LoggedIn,
           Refreshed, RefusedToken, Performed, Told
    <3> QED BY <1>1, <1>3, <2>1, <3>1, CalmGoesOn
  <2>2. CASE d # c
    <3>1. at'[d] = at[d] /\ got'[d] = got[d] BY <1>3, <2>2, OthersOf DEF Others
    <3>2. ~calm'[d] BY <1>1, <1>3, <2>2, CalmAlone
    <3> QED BY <1>1, <3>1, <3>2
  <2> QED BY <2>1, <2>2
<1> QED BY <1>2, <1>3, WebSteps

\* A click that nothing came in the way of succeeds, with an expired access token as
\* well, and leaves page and server with the same session (requestWithRefresh).
THEOREM CalmCallsCorrect == WebSpec => []CalmCallsSucceed
<1>1. WebInit => CalmInv BY CalmInvInit
<1>2. WebInv /\ CalmInv /\ [WebNext]_webVars /\ WebInv' => CalmInv' BY CalmInvNext
<1>3. WebInit => ActInv BY ActInvInit
<1>4. WebInv /\ ActInv /\ [WebNext]_webVars => ActInv' BY ActInvNext
<1>5. ActInv /\ CalmInv => CalmCallsSucceed
  BY DEF ActInv, DoneSoFar, CalmInv, Calm, CalmCallsSucceed
<1> QED BY <1>1, <1>2, <1>3, <1>4, <1>5, WebInvariant, PTL DEF WebSpec

-----------------------------------------------------------------------------
(* The server that the page sees, and the promise of Sessions               *)

\* The session of the one address: both tokens of a pair are of the same second.
SessionOfPair ==
  IF pair = NoPair THEN NoPair ELSE [access |-> pair.made, refresh |-> pair.made]

Promise == INSTANCE Sessions
  WITH Users <- {"address"}, NoSession <- NoPair,
       session <- [u \in {"address"} |-> SessionOfPair], clock <- now

promiseVars == <<[u \in {"address"} |-> SessionOfPair], now>>

LEMMA GrantAsPromised ==
  ASSUME WebInv, PairsInOrder, UNCHANGED now,
         pair' \in Pairs, pair' # NoPair, pair'.made = now
  PROVE  Promise!SessionsNext
<1> DEFINE new == [access |-> now, refresh |-> now]
<1>1. now \in Nat /\ SessionOfPair' = new
  BY PairsTyped DEF SessionOfPair
<1>2. new \in Promise!PairsUpTo(now)
  BY <1>1 DEF Promise!PairsUpTo, Promise!Pair
<1>3. Promise!NotOlder("address", new)
  <2>1. pair # NoPair => pair.made \in Nat /\ pair.made <= now
    BY PairsTyped DEF PairsInOrder
  <2> QED
    BY <1>1, <2>1 DEF Promise!NotOlder, SessionOfPair
<1>4. [u \in {"address"} |-> SessionOfPair]' =
        [[u \in {"address"} |-> SessionOfPair] EXCEPT !["address"] = new]
  BY <1>1
<1>5. new.access <= new.refresh
  BY <1>1
<1> QED
  BY <1>2, <1>3, <1>4, <1>5 DEF Promise!SessionsNext, Promise!Grant

\* The handlers that WebClient takes for the server do to the tokens of the address
\* what Sessions promises, which Auth implements: a login or a refresh puts a pair in
\* place of an older one, a restart forgets it, and nothing else changes it.
THEOREM ServedAsPromised == WebSpec => [][Promise!SessionsNext]_promiseVars
<1>1. WebInit => CookieInv
  BY CookieInvInit
<1>2. WebInv /\ CookieInv /\ [WebNext]_webVars /\ WebInv' => CookieInv'
  BY CookieInvNext
<1>3. WebInv /\ CookieInv /\ [WebNext]_webVars /\ WebInv'
        => [Promise!SessionsNext]_promiseVars
  <2> SUFFICES ASSUME WebInv, CookieInv, [WebNext]_webVars, WebInv'
               PROVE  Promise!SessionsNext \/ UNCHANGED promiseVars
    OBVIOUS
  <2>1. ASSUME pair' = pair, now' = now
        PROVE  UNCHANGED promiseVars
    <3>1. SessionOfPair' = SessionOfPair
      BY <2>1 DEF SessionOfPair
    <3> QED
      BY <2>1, <3>1 DEF promiseVars
  <2>2. CASE Tick
    <3>1. SessionOfPair' = SessionOfPair /\ now' = now + 1
      BY <2>2 DEF Tick, SessionOfPair
    <3> QED
      BY <3>1 DEF Promise!SessionsNext, Promise!Pass
  <2>3. CASE Restart
    <3>1. SessionOfPair' = NoPair /\ now' = now
      BY <2>3 DEF Restart, SessionOfPair
    <3> QED
      BY <3>1 DEF Promise!SessionsNext, Promise!Forget
  <2>4. CASE GET_nonceElsewhere
    BY <2>1, <2>4 DEF GET_nonceElsewhere
  <2>5. CASE UNCHANGED webVars
    BY <2>1, <2>5 DEF webVars, server
  <2>6. ASSUME NEW c \in Calls, CallSteps(c)
        PROVE  Promise!SessionsNext \/ UNCHANGED promiseVars
    <3>1. Moved(c)
      BY <2>6, Moves
    <3>2. CASE pair' = pair
      BY <2>1, <3>1, <3>2 DEF Moved
    <3>3. CASE GrantedTo(c)
      BY <3>1, <3>3, GrantAsPromised DEF Moved, GrantedTo, CookieInv
    <3> QED
      BY <3>1, <3>2, <3>3 DEF Moved
  <2> QED
    BY <2>2, <2>3, <2>4, <2>5, <2>6, WebSteps DEF Elsewhere
<1> QED
  BY <1>1, <1>2, <1>3, WebInvariant, PTL DEF WebSpec

-----------------------------------------------------------------------------
(* Every call comes to an end                                               *)

\* How many steps a call has left at most: what it awaits, and whether the server
\* has answered.
Awaited ==
  [request |-> 6, refresh |-> 4, retry |-> 2, nonce |-> 6, sign |-> 3, auth |-> 2,
   ended |-> 0, idle |-> 0]

StepsLeft(c) == Awaited[at[c]] - (IF wire[c] = "answered" THEN 1 ELSE 0)

\* Something can be done for the call: the server, the wire or the user is next.
GoesOn(c) ==
  \/ wire[c] = "sent" /\ at[c] \in {"nonce", "auth", "request", "refresh", "retry"}
  \/ wire[c] = "answered" /\ at[c] \in {"nonce", "auth", "request", "refresh", "retry"}
  \/ wire[c] = "none" /\ at[c] = "sign"

LEMMA CallMeasured ==
  ASSUME WebInv, NEW c \in Calls
  PROVE  /\ StepsLeft(c) \in 0..6
         /\ StepsLeft(c) = 0 <=> at[c] \in {"idle", "ended"}
         /\ at[c] \notin {"idle", "ended"} => GoesOn(c)
<1>1. /\ at[c] \in {"idle", "nonce", "sign", "auth", "request", "refresh", "retry", "ended"}
      /\ wire[c] \in {"none", "sent", "answered"}
      /\ wire[c] = "none" <=> at[c] \in {"idle", "sign", "ended"}
  BY DEF WebInv, WebTypeOK, CallsApart
<1> QED
  BY <1>1 DEF StepsLeft, Awaited, GoesOn

LEMMA CallShortened ==
  ASSUME WebInv, NEW c \in Calls, CallSteps(c), at[c] # "idle"
  PROVE  StepsLeft(c)' < StepsLeft(c)
<1>1. /\ at[c] \in {"nonce", "sign", "auth", "request", "refresh", "retry", "ended"}
      /\ wire[c] \in {"none", "sent", "answered"}
      /\ wire[c] = "none" <=> at[c] \in {"sign", "ended"}
  BY DEF WebInv, WebTypeOK, CallsApart
<1>2. CASE Clicked(c)
  BY <1>2 DEF Clicked
<1>3. CASE Signed(c)
  BY <1>1, <1>3 DEF Signed, StepsLeft, Awaited
<1>4. CASE Received(c)
  BY <1>1, <1>4 DEF Received, StepsLeft, Awaited
<1>5. CASE Lost(c)
  BY <1>1, <1>5 DEF Lost, StepsLeft, Awaited
<1>6. ASSUME NEW reply, Told(c, reply)
      PROVE  StepsLeft(c)' < StepsLeft(c)
  BY <1>1, <1>6 DEF Told, StepsLeft, Awaited
<1> QED
  BY <1>2, <1>3, <1>4, <1>5, <1>6
  DEF CallSteps, NonceTold, LoggedIn, Refreshed, RefusedToken, Performed

\* A call that has begun never begins again, no step of another call, of time or of
\* the server's life makes its way longer, and each of its own steps, lost fetches
\* included, makes it shorter: from six steps on it is at its end, and before that
\* there is always one to take (requestWithRefresh, loginWithMetaMask).
THEOREM CallsShorten ==
  WebSpec =>
    /\ [](\A c \in Calls :
            /\ StepsLeft(c) \in 0..6
            /\ StepsLeft(c) = 0 <=> at[c] \in {"idle", "ended"}
            /\ at[c] \notin {"idle", "ended"} => GoesOn(c))
    /\ [][\A c \in Calls : at[c] # "idle" =>
            /\ at'[c] # "idle" /\ StepsLeft(c)' <= StepsLeft(c)
            /\ Serve(c) \/ Receive(c) \/ Lose(c) \/ personal_sign(c) =>
                 StepsLeft(c)' < StepsLeft(c)]_webVars
<1> DEFINE Measured ==
             \A c \in Calls :
               /\ StepsLeft(c) \in 0..6
               /\ StepsLeft(c) = 0 <=> at[c] \in {"idle", "ended"}
               /\ at[c] \notin {"idle", "ended"} => GoesOn(c)
           Shorter ==
             \A c \in Calls : at[c] # "idle" =>
               /\ at'[c] # "idle" /\ StepsLeft(c)' <= StepsLeft(c)
               /\ Serve(c) \/ Receive(c) \/ Lose(c) \/ personal_sign(c) =>
                    StepsLeft(c)' < StepsLeft(c)
<1>1. WebInv => Measured
  BY CallMeasured
<1>2. WebInv /\ WebInv' /\ [WebNext]_webVars => [Shorter]_webVars
  <2> SUFFICES ASSUME WebInv, WebInv', [WebNext]_webVars, NEW c \in Calls, at[c] # "idle"
               PROVE  /\ at'[c] # "idle" /\ StepsLeft(c)' <= StepsLeft(c)
                      /\ Serve(c) \/ Receive(c) \/ Lose(c) \/ personal_sign(c) =>
                           StepsLeft(c)' < StepsLeft(c)
    OBVIOUS
  <2>0. StepsLeft(c) \in Int /\ StepsLeft(c)' \in Int
    <3>1. at'[c] \in {"idle", "nonce", "sign", "auth", "request", "refresh", "retry", "ended"}
      BY DEF WebInv, WebTypeOK
    <3>2. StepsLeft(c)' \in Int
      BY <3>1 DEF StepsLeft, Awaited
    <3> QED
      BY <3>2, CallMeasured
  <2>1. CASE CallSteps(c)
    <3>1. StepsLeft(c)' < StepsLeft(c)
      BY <2>1, CallShortened
    <3>2. at'[c] # "idle"
      BY <2>1 DEF CallSteps, Clicked, Signed, Received, Lost, NonceTold, LoggedIn, Refreshed,
         RefusedToken, Performed, Told, WebInv, CallsApart
    <3> QED
      BY <2>0, <3>1, <3>2
  <2>2. CASE ~CallSteps(c)
    <3>1. at'[c] = at[c] /\ wire'[c] = wire[c]
      BY <2>2, WebSteps, OthersOf DEF Elsewhere, Others
    <3>2. ~(Serve(c) \/ Receive(c) \/ Lose(c) \/ personal_sign(c))
      BY <2>2, CallStepOf
    <3> QED
      BY <2>0, <3>1, <3>2 DEF StepsLeft
  <2> QED
    BY <2>1, <2>2
<1> QED
  BY <1>1, <1>2, WebInvariant, PTL DEF WebSpec
=============================================================================
