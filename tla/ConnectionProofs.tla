-------------------------- MODULE ConnectionProofs --------------------------
(* Proofs about Connection: for any number of clients and of requests, heads   *)
(* and bodies of any size, and however TCP cuts what the clients send.         *)
EXTENDS Connection, TLAPS

\* What a client sends has one end of a head at most, and no more body than it says.
Grammar(data) ==
  \A i \in Ends(data) :
    /\ \A j \in Ends(data) : j = i
    /\ data[i].part = "endBadLength" => Len(data) = i
    /\ data[i].part = "end" => Len(data) <= i + data[i].length

\* What the server has heard and what is under way make up what the client has sent
\* of the request it waits for, and the phase tells how much of it the buffer has;
\* the requests before it were handled, and those after it are to come.
Stream(c) ==
  /\ Grammar(Current(c))
  /\ phase[c] # "closed" => buffer[c] \o wire[c] = Current(c)
  /\ phase[c] \in {"new", "backlog"} => buffer[c] = <<>>
  /\ phase[c] = "reading" => Ends(buffer[c]) = {}
  /\ phase[c] = "body" => Ends(buffer[c]) # {}
  /\ phase[c] \in {"handling", "writing"} => buffer[c] = Current(c) /\ Whole(Current(c))
  /\ \A i \in DOMAIN handled[c] :
       /\ i \in DOMAIN sent[c] /\ handled[c][i] = sent[c][i]
       /\ Whole(sent[c][i])
  /\ \A i \in DOMAIN sent[c] : i > answered[c] + 1 => sent[c][i] = <<>>
  /\ phase[c] # "closed" =>
       Len(handled[c]) = IF phase[c] = "writing" THEN answered[c] + 1 ELSE answered[c]
  /\ Len(handled[c]) \in {answered[c], answered[c] + 1}

StreamInv == \A c \in Clients : Stream(c)

\* Whose cookies the response has: before the handler ran, those of the last answer.
Cookies(c) ==
  /\ phase[c] \notin {"writing", "closed"} => cookies[c] \in {0, answered[c]}
  /\ phase[c] = "writing" =>
       \/ cookies[c] \in {0, answered[c] + 1}
       \/ cookies[c] = answered[c] /\ keepAlive[c] = FALSE

CookiesInv == \A c \in Clients : Cookies(c)

-----------------------------------------------------------------------------
(* Sequences of pieces *)

LEMMA OnlyEnd ==
  ASSUME NEW data, NEW e \in Nat, e \in Ends(data), \A j \in Ends(data) : j = e
  PROVE  HeadEnd(data) = e
<1>1. \A j \in Ends(data) : e <= j
  OBVIOUS
<1> HIDE DEF Ends
<1> QED
  BY <1>1 DEF HeadEnd

LEMMA Taken ==
  ASSUME NEW b \in Seq(Piece), NEW w \in Seq(Piece), NEW n \in 1..Len(w)
  PROVE  LET h == b \o SubSeq(w, 1, n)
             r == SubSeq(w, n + 1, Len(w))
         IN /\ h \in Seq(Piece) /\ r \in Seq(Piece)
            /\ Len(r) = Len(w) - n
            /\ \A i \in 1..Len(b) : i \in 1..Len(h) /\ h[i] = b[i]
            /\ h \o r = b \o w
<1> DEFINE h == b \o SubSeq(w, 1, n)
           r == SubSeq(w, n + 1, Len(w))
<1>1. n \in Nat /\ n >= 1 /\ n <= Len(w) /\ Len(b) \in Nat /\ Len(w) \in Nat
  OBVIOUS
<1>2. SubSeq(w, 1, n) \in Seq(Piece) /\ Len(SubSeq(w, 1, n)) = n
      /\ \A i \in 1..n : SubSeq(w, 1, n)[i] = w[i]
  BY <1>1
<1>3. r \in Seq(Piece) /\ Len(r) = Len(w) - n /\ \A i \in 1..Len(r) : r[i] = w[n + i]
  BY <1>1
<1>4. h \in Seq(Piece) /\ Len(h) = Len(b) + n
  BY <1>2
<1>5. \A i \in 1..Len(h) : h[i] = IF i <= Len(b) THEN b[i] ELSE w[i - Len(b)]
  BY <1>1, <1>2, <1>4
<1> HIDE DEF h, r
<1>6. h \o r \in Seq(Piece) /\ b \o w \in Seq(Piece)
      /\ Len(h \o r) = Len(b) + Len(w) /\ Len(b \o w) = Len(b) + Len(w)
  <2>1. h \in Seq(Piece) /\ r \in Seq(Piece)
    BY <1>3, <1>4
  <2>2. h \o r \in Seq(Piece) /\ Len(h \o r) = Len(h) + Len(r)
    BY <2>1
  <2>3. Len(h) + Len(r) = Len(b) + Len(w)
    BY <1>1, <1>3, <1>4
  <2> QED
    BY <2>2, <2>3
<1>7. ASSUME NEW i \in 1..(Len(b) + Len(w)) PROVE (h \o r)[i] = (b \o w)[i]
  <2>1. (b \o w)[i] = IF i <= Len(b) THEN b[i] ELSE w[i - Len(b)]
    OBVIOUS
  <2>2. CASE i <= Len(h)
    <3>1. i \in 1..Len(h)
      BY <1>1, <1>4, <2>2
    <3>2. (h \o r)[i] = h[i]
      BY <1>3, <1>4, <3>1
    <3> QED
      BY <1>5, <2>1, <3>1, <3>2
  <2>3. CASE i > Len(h)
    <3>1. i - Len(h) \in 1..Len(r) /\ n + (i - Len(h)) = i - Len(b) /\ ~(i <= Len(b))
      BY <1>1, <1>3, <1>4, <2>3
    <3>2. (h \o r)[i] = r[i - Len(h)]
      BY <1>3, <1>4, <1>6, <2>3
    <3>3. r[i - Len(h)] = w[i - Len(b)]
      BY <1>3, <3>1
    <3> QED
      BY <2>1, <3>1, <3>2, <3>3
  <2>4. Len(h) \in Nat /\ i \in Nat
    BY <1>1, <1>4
  <2>5. i <= Len(h) \/ i > Len(h)
    BY <2>4
  <2> QED
    BY <2>2, <2>3, <2>5
<1>8. h \o r = b \o w
  BY <1>6, <1>7
<1>9. ASSUME NEW i \in 1..Len(b) PROVE i \in 1..Len(h) /\ h[i] = b[i]
  <2>1. i \in 1..Len(h) /\ i <= Len(b)
    BY <1>1, <1>4
  <2> QED
    BY <1>5, <2>1
<1> QED
  BY <1>3, <1>4, <1>8, <1>9 DEF h, r

LEMMA Concatenated ==
  ASSUME NEW h \in Seq(Piece), NEW r \in Seq(Piece)
  PROVE  /\ h \o r \in Seq(Piece) /\ Len(h \o r) = Len(h) + Len(r)
         /\ \A i \in 1..Len(h) : i \in 1..Len(h \o r) /\ h[i] = (h \o r)[i]
<1>1. h \o r \in Seq(Piece) /\ Len(h \o r) = Len(h) + Len(r)
  OBVIOUS
<1>2. Len(h) \in Nat /\ Len(r) \in Nat
  OBVIOUS
<1>3. ASSUME NEW i \in 1..Len(h) PROVE i \in 1..Len(h \o r) /\ h[i] = (h \o r)[i]
  <2>1. i \in 1..Len(h \o r)
    BY <1>1, <1>2
  <2>2. (h \o r)[i] = h[i]
    BY <1>2
  <2> QED
    BY <2>1, <2>2
<1> QED
  BY <1>1, <1>3

LEMMA Prefix ==
  ASSUME NEW h \in Seq(Piece), NEW r \in Seq(Piece), NEW s, h \o r = s
  PROVE  /\ s \in Seq(Piece) /\ Len(s) = Len(h) + Len(r)
         /\ \A i \in 1..Len(h) : i \in 1..Len(s) /\ h[i] = s[i]
BY Concatenated, Zenon

LEMMA Appended ==
  ASSUME NEW b \in Seq(Piece), NEW w \in Seq(Piece), NEW x \in Piece
  PROVE  b \o Append(w, x) = Append(b \o w, x)
OBVIOUS

\* The end of a head is found where the client put it, and a request goes to the
\* handler when all of it is there, and nothing after it.
LEMMA Parsing ==
  ASSUME NEW h \in Seq(Piece), NEW r \in Seq(Piece), NEW s, h \o r = s,
         Grammar(s), Ends(h) # {}
  PROVE  /\ Parsed(h) \in {"closed", "handling", "body"}
         /\ Parsed(h) = "handling" => h = s /\ Len(r) = 0 /\ Whole(s)
<1>1. /\ s \in Seq(Piece) /\ Len(s) = Len(h) + Len(r)
      /\ Len(h) \in Nat /\ Len(r) \in Nat /\ Len(s) \in Nat
      /\ \A i \in 1..Len(h) : i \in 1..Len(s) /\ h[i] = s[i]
  BY Prefix
<1>2. DOMAIN h = 1..Len(h) /\ DOMAIN s = 1..Len(s)
  BY <1>1
<1>3. PICK e \in Ends(h) : TRUE
  OBVIOUS
<1>4. /\ e \in 1..Len(h) /\ e \in Nat /\ h[e] = s[e] /\ e \in Ends(s)
      /\ h[e].part \in {"end", "endBadLength"}
      /\ h[e].length \in Nat
  <2>1. e \in 1..Len(h) /\ h[e].part \in {"end", "endBadLength"}
    BY <1>2, <1>3 DEF Ends
  <2>2. h[e] = s[e] /\ e \in 1..Len(s)
    BY <1>1, <2>1
  <2>3. h[e] \in Piece
    BY <1>2, <2>1
  <2> QED
    BY <1>1, <1>2, <2>1, <2>2, <2>3 DEF Ends, Piece
<1>5. \A j \in Ends(h) : j = e
  <2>1. \A j \in Ends(h) : j \in Ends(s)
    BY <1>1, <1>2 DEF Ends
  <2> QED
    BY <1>4, <2>1 DEF Grammar
<1>6. HeadEnd(h) = e
  BY <1>3, <1>4, <1>5, OnlyEnd
<1>7. /\ Parsed(h) \in {"closed", "handling", "body"}
      /\ Parsed(h) = "handling" => h[e].part = "end" /\ Len(h) >= e + h[e].length
  <2>1. CASE h[e].part = "endBadLength"
    BY <1>6, <2>1 DEF Parsed
  <2>2. CASE h[e].part = "end" /\ Len(h) >= e + h[e].length
    BY <1>6, <2>2 DEF Parsed
  <2>3. CASE h[e].part = "end" /\ Len(h) < e + h[e].length
    <3>1. ~(Len(h) >= e + h[e].length)
      BY <1>1, <1>4, <2>3
    <3> QED
      BY <1>6, <2>3, <3>1 DEF Parsed
  <2> QED
    BY <1>1, <1>4, <2>1, <2>2, <2>3
<1>8. ASSUME Parsed(h) = "handling" PROVE h = s /\ Len(r) = 0 /\ Whole(s)
  <2>1. s[e].part = "end" /\ Len(h) >= e + s[e].length /\ Len(s) <= e + s[e].length
        /\ s[e].length \in Nat
    BY <1>4, <1>7, <1>8 DEF Grammar
  <2> HIDE DEF Ends
  <2>2. Len(h) = Len(s) /\ Len(r) = 0 /\ Len(s) = e + s[e].length
    <3> DEFINE x == Len(h)   y == Len(r)   z == Len(s)   l == s[e].length
    <3>1. x \in Nat /\ y \in Nat /\ z = x + y /\ e \in Nat
      BY <1>1, <1>4
    <3>2. l \in Nat /\ x >= e + l /\ z <= e + l
      BY <2>1
    <3>3. x = z /\ y = 0 /\ z = e + l
      <4> HIDE DEF x, y, z, l
      <4> QED
        BY <3>1, <3>2
    <3> QED
      BY <3>3
  <2>3. h = s
    BY <1>1, <2>2
  <2> QED
    BY <1>4, <2>1, <2>2, <2>3 DEF Whole
<1> QED
  BY <1>7, <1>8

\* Nothing follows a request that is whole.
LEMMA WholeIsWhole ==
  ASSUME NEW c \in Clients, NEW part, Current(c) \in Seq(Piece), Grammar(Current(c)),
         Whole(Current(c)), MayFollow(c, part)
  PROVE  FALSE
<1> DEFINE s == Current(c)
<1>1. PICK e \in Ends(s) : s[e].part = "end" /\ Len(s) = e + s[e].length
  BY DEF Whole
<1>2. e \in 1..Len(s) /\ e \in Nat /\ Len(s) \in Nat /\ \A j \in Ends(s) : j = e
  BY <1>1 DEF Ends, Grammar
<1>3. HeadEnd(s) = e
  BY <1>1, <1>2, OnlyEnd
<1>4. Len(s) < e + s[e].length
  BY <1>1, <1>3 DEF MayFollow
<1> HIDE DEF s
<1> QED
  BY <1>1, <1>2, <1>4

\* What follows keeps to the grammar.
LEMMA GrammarKept ==
  ASSUME NEW c \in Clients, NEW part \in Parts, MayFollow(c, part),
         Current(c) \in Seq(Piece), Grammar(Current(c)),
         NEW piece \in Piece, piece.part = part
  PROVE  Grammar(Append(Current(c), piece))
<1> DEFINE s == Current(c)
           t == Append(s, piece)
           k == Len(s)
<1>1. /\ k \in Nat /\ t \in Seq(Piece) /\ Len(t) = k + 1 /\ t[k + 1] = piece
      /\ \A i \in 1..k : t[i] = s[i]
      /\ DOMAIN t = 1..(k + 1) /\ DOMAIN s = 1..k
  OBVIOUS
<1>2. piece.length \in Nat
  BY DEF Piece
<1>3. /\ Ends(s) = {i \in 1..k : s[i].part \in {"end", "endBadLength"}}
      /\ Ends(t) = {i \in 1..(k + 1) : t[i].part \in {"end", "endBadLength"}}
  BY <1>1 DEF Ends
<1>4. CASE Ends(s) = {}
  <2>1. \A i \in Ends(t) : i = k + 1
    BY <1>1, <1>3, <1>4
  <2>2. Grammar(t)
    <3> SUFFICES ASSUME NEW i \in Ends(t)
                 PROVE  /\ \A j \in Ends(t) : j = i
                        /\ t[i].part = "endBadLength" => Len(t) = i
                        /\ t[i].part = "end" => Len(t) <= i + t[i].length
      BY DEF Grammar
    <3>1. i = k + 1 /\ \A j \in Ends(t) : j = i
      BY <2>1
    <3>2. t[i] = piece /\ Len(t) = i
      BY <1>1, <3>1
    <3> HIDE DEF t
    <3> QED
      BY <1>1, <1>2, <3>1, <3>2
  <2> QED
    BY <2>2
<1>5. CASE Ends(s) # {}
  <2>1. PICK e \in Ends(s) : TRUE
    BY <1>5
  <2>2. e \in 1..k /\ \A j \in Ends(s) : j = e
    BY <1>3, <2>1 DEF Grammar
  <2>3. HeadEnd(s) = e
    BY <2>1, <2>2, OnlyEnd
  <2>4. part = "body" /\ s[e].part = "end" /\ k < e + s[e].length
    BY <1>5, <2>3 DEF MayFollow
  <2>5. s[e].length \in Nat
    <3>1. s[e] \in Piece
      BY <2>2
    <3> QED
      BY <3>1 DEF Piece
  <2>6. \A j \in Ends(t) : j = e
    BY <1>1, <1>3, <2>2, <2>4
  <2>7. t[e] = s[e]
    BY <1>1, <2>2
  <2>8. k + 1 <= e + s[e].length
    <3>1. k \in Nat /\ e \in Nat /\ s[e].length \in Nat /\ k < e + s[e].length
      BY <1>1, <2>2, <2>4, <2>5
    <3> HIDE DEF k, s
    <3> QED
      BY <3>1
  <2>9. Grammar(t)
    <3> SUFFICES ASSUME NEW i \in Ends(t)
                 PROVE  /\ \A j \in Ends(t) : j = i
                        /\ t[i].part = "endBadLength" => Len(t) = i
                        /\ t[i].part = "end" => Len(t) <= i + t[i].length
      BY DEF Grammar
    <3>1. i = e /\ \A j \in Ends(t) : j = i
      BY <2>6
    <3>2. t[i].part = "end" /\ Len(t) = k + 1 /\ t[i].length = s[e].length
      BY <1>1, <2>4, <2>7, <3>1
    <3> HIDE DEF t, k, s
    <3> QED
      BY <2>8, <3>1, <3>2
  <2> QED
    BY <2>9
<1> QED
  BY <1>4, <1>5

LEMMA EmptyGrammar == Grammar(<<>>) /\ ~Whole(<<>>)
<1>1. Ends(<<>>) = {}
  BY DEF Ends
<1> QED
  BY <1>1 DEF Grammar, Whole

-----------------------------------------------------------------------------
(* Type correctness *)

\* What the actions of one client leave alone of the others
Other(d) ==
  /\ phase'[d] = phase[d] /\ wire'[d] = wire[d] /\ buffer'[d] = buffer[d]
  /\ keepAlive'[d] = keepAlive[d] /\ cookies'[d] = cookies[d]
  /\ sent'[d] = sent[d] /\ answered'[d] = answered[d] /\ handled'[d] = handled[d]

LEMMA CurrentType ==
  ASSUME ConnectionTypeOK, NEW c \in Clients
  PROVE  /\ Current(c) \in Seq(Piece) /\ buffer[c] \in Seq(Piece) /\ wire[c] \in Seq(Piece)
         /\ answered[c] \in Nat /\ MaxRequests[c] \in Nat
         /\ sent[c] \in [1..MaxRequests[c] -> Seq(Piece)]
<1>1. /\ answered[c] \in Nat /\ MaxRequests[c] \in Nat
      /\ sent[c] \in [1..MaxRequests[c] -> Seq(Piece)]
      /\ buffer[c] \in Seq(Piece) /\ wire[c] \in Seq(Piece)
  BY ConnectionAssumption DEF ConnectionTypeOK
<1>2. answered[c] < MaxRequests[c] => answered[c] + 1 \in 1..MaxRequests[c]
  BY <1>1
<1> QED
  BY <1>1, <1>2 DEF Current

LEMMA ReturnTypes ==
  ASSUME ConnectionTypeOK, NEW c \in Clients, Return(c)
  PROVE  /\ phase' \in [Clients -> Phases]
         /\ buffer' \in [Clients -> Seq(Piece)]
         /\ keepAlive' \in [Clients -> BOOLEAN] /\ cookies' \in [Clients -> Nat]
         /\ left' \in [Clients -> 0..ReadTimeout]
<1>1. <<>> \in Seq(Piece) /\ "closed" \in Phases /\ 0 \in 0..ReadTimeout
  BY ConnectionAssumption DEF Phases
<1> QED
  BY <1>1 DEF ConnectionTypeOK, Return, GoTo

LEMMA ReadAgainTypes ==
  ASSUME ConnectionTypeOK, NEW c \in Clients, NEW data \in Seq(Piece), ReadAgain(c, data)
  PROVE  /\ phase' \in [Clients -> Phases]
         /\ buffer' \in [Clients -> Seq(Piece)]
         /\ keepAlive' \in [Clients -> BOOLEAN] /\ cookies' \in [Clients -> Nat]
         /\ left' \in [Clients -> 0..ReadTimeout]
<1>1. CASE Return(c)
  BY <1>1, ReturnTypes
<1>2. CASE ~Return(c)
  <2>1. "reading" \in Phases /\ ReadTimeout \in 0..ReadTimeout
    BY ConnectionAssumption DEF Phases
  <2>2. /\ phase \in [Clients -> Phases] /\ buffer \in [Clients -> Seq(Piece)]
        /\ keepAlive \in [Clients -> BOOLEAN] /\ cookies \in [Clients -> Nat]
        /\ left \in [Clients -> 0..ReadTimeout]
    BY DEF ConnectionTypeOK
  <2>3. /\ phase' = [phase EXCEPT ![c] = "reading"]
        /\ left' = [left EXCEPT ![c] = ReadTimeout]
        /\ buffer' = [buffer EXCEPT ![c] = data]
        /\ keepAlive' = keepAlive /\ cookies' = cookies
    BY <1>2 DEF ReadAgain, GoTo, response
  <2> QED
    BY <2>1, <2>2, <2>3
<1> QED
  BY <1>1, <1>2

\* The piece a client sends, and what it does to what was sent
LEMMA SentPiece ==
  ASSUME ConnectionTypeOK, NEW c \in Clients, send(c)
  PROVE  \E part \in Parts, piece \in Piece :
           /\ MayFollow(c, part) /\ piece.part = part
           /\ answered[c] < MaxRequests[c] /\ answered[c] + 1 \in 1..MaxRequests[c]
           /\ sent' = [sent EXCEPT ![c][answered[c] + 1] = Append(Current(c), piece)]
           /\ wire' = [wire EXCEPT ![c] = Append(@, piece)]
           /\ Append(Current(c), piece) \in Seq(Piece)
<1>0. /\ answered[c] \in Nat /\ MaxRequests[c] \in Nat
      /\ Current(c) \in Seq(Piece) /\ answered[c] < MaxRequests[c]
      /\ Current(c) = sent[c][answered[c] + 1]
  BY CurrentType DEF send, Current
<1> DEFINE piece(part, length) ==
             [req |-> answered[c] + 1, no |-> Len(Current(c)) + 1, part |-> part,
              length |-> IF part = "end" THEN length ELSE 0]
<1>1. PICK part \in Parts, length \in Lengths[c] :
        /\ MayFollow(c, part)
        /\ sent' = [sent EXCEPT ![c][answered[c] + 1] = Append(@, piece(part, length))]
        /\ wire' = [wire EXCEPT ![c] = Append(@, piece(part, length))]
  BY DEF send
<1>2. piece(part, length) \in Piece /\ piece(part, length).part = part
  <2>1. length \in Nat
    BY ConnectionAssumption
  <2>2. answered[c] + 1 \in Nat \ {0} /\ Len(Current(c)) + 1 \in Nat \ {0}
    BY <1>0
  <2> QED
    BY <2>1, <2>2 DEF Piece
<1>3. answered[c] + 1 \in 1..MaxRequests[c]
  BY <1>0
<1> DEFINE p == piece(part, length)
<1>4. p \in Piece /\ p.part = part
  BY <1>2
<1> HIDE DEF p
<1>5. sent' = [sent EXCEPT ![c][answered[c] + 1] = Append(@, p)]
      /\ wire' = [wire EXCEPT ![c] = Append(@, p)]
  BY <1>1 DEF p
<1>6. sent' = [sent EXCEPT ![c][answered[c] + 1] = Append(Current(c), p)]
  BY <1>0, <1>5
<1>7. Append(Current(c), p) \in Seq(Piece)
  BY <1>0, <1>4
<1> QED
  BY <1>0, <1>1, <1>3, <1>4, <1>5, <1>6, <1>7

LEMMA HeardTypes ==
  ASSUME ConnectionTypeOK, NEW c \in Clients, NEW n \in 1..Len(wire[c]), Take(c, n)
  PROVE  Heard(c, n) \in Seq(Piece) /\ wire' \in [Clients -> Seq(Piece)]
<1>1. buffer[c] \in Seq(Piece) /\ wire[c] \in Seq(Piece)
  BY DEF ConnectionTypeOK
<1>2. SubSeq(wire[c], 1, n) \in Seq(Piece) /\ SubSeq(wire[c], n + 1, Len(wire[c])) \in Seq(Piece)
  BY <1>1
<1> QED
  BY <1>1, <1>2 DEF ConnectionTypeOK, Take, Heard

ConnInv == ConnectionTypeOK /\ StreamInv /\ CookiesInv

\* What the server has of a client when it has taken some more, and makes of it
LEMMA Taking ==
  ASSUME ConnInv, NEW c \in Clients, phase[c] \in {"reading", "body"},
         NEW n \in 1..Len(wire[c]), Take(c, n)
  PROVE  /\ Heard(c, n) \in Seq(Piece) /\ wire'[c] \in Seq(Piece)
         /\ Heard(c, n) \o wire'[c] = Current(c)
         /\ Ends(buffer[c]) # {} => Ends(Heard(c, n)) # {}
         /\ Ends(Heard(c, n)) # {} =>
              /\ Parsed(Heard(c, n)) \in {"closed", "handling", "body"}
              /\ Parsed(Heard(c, n)) = "handling" =>
                   Heard(c, n) = Current(c) /\ Len(wire'[c]) = 0 /\ Whole(Current(c))
<1>0. /\ ConnectionTypeOK /\ buffer[c] \in Seq(Piece) /\ wire[c] \in Seq(Piece)
      /\ buffer[c] \o wire[c] = Current(c) /\ Grammar(Current(c))
  BY CurrentType DEF ConnInv, StreamInv, Stream
<1>1. wire'[c] = SubSeq(wire[c], n + 1, Len(wire[c]))
  BY <1>0 DEF ConnectionTypeOK, Take
<1>2. /\ Heard(c, n) \in Seq(Piece) /\ wire'[c] \in Seq(Piece)
      /\ Heard(c, n) \o wire'[c] = Current(c)
      /\ \A i \in 1..Len(buffer[c]) : i \in 1..Len(Heard(c, n)) /\ Heard(c, n)[i] = buffer[c][i]
  <2> DEFINE b == buffer[c]
             w == wire[c]
             h == b \o SubSeq(w, 1, n)
             r == SubSeq(w, n + 1, Len(w))
  <2>1. b \in Seq(Piece) /\ w \in Seq(Piece) /\ n \in 1..Len(w) /\ b \o w = Current(c)
    BY <1>0
  <2> HIDE DEF b, w
  <2>2. /\ h \in Seq(Piece) /\ r \in Seq(Piece)
        /\ \A i \in 1..Len(b) : i \in 1..Len(h) /\ h[i] = b[i]
        /\ h \o r = b \o w
    BY <2>1, Taken
  <2> HIDE DEF h, r
  <2>3. h = Heard(c, n) /\ r = wire'[c]
    BY <1>1 DEF h, r, b, w, Heard
  <2>4. h \o r = Current(c) /\ \A i \in 1..Len(buffer[c]) : i \in 1..Len(h) /\ h[i] = buffer[c][i]
    BY <2>1, <2>2 DEF b
  <2> QED
    BY <2>2, <2>3, <2>4
<1>3. Ends(buffer[c]) # {} => Ends(Heard(c, n)) # {}
  <2>1. DOMAIN buffer[c] = 1..Len(buffer[c]) /\ DOMAIN Heard(c, n) = 1..Len(Heard(c, n))
    BY <1>0, <1>2
  <2> QED
    BY <1>2, <2>1 DEF Ends
<1>4. Ends(Heard(c, n)) # {} =>
        /\ Parsed(Heard(c, n)) \in {"closed", "handling", "body"}
        /\ Parsed(Heard(c, n)) = "handling" =>
             Heard(c, n) = Current(c) /\ Len(wire'[c]) = 0 /\ Whole(Current(c))
  BY <1>0, <1>2, Parsing, Zenon
<1> QED
  BY <1>2, <1>3, <1>4

LEMMA TypePreserved ==
  ConnInv /\ [ConnectionNext]_connVars => ConnectionTypeOK'
<1> SUFFICES ASSUME ConnInv, [ConnectionNext]_connVars
             PROVE  ConnectionTypeOK'
  OBVIOUS
<1> USE DEF server, client, response
<1>0. ConnectionTypeOK
  BY DEF ConnInv
<1>p. {"new", "backlog", "reading", "body", "handling", "writing", "closed"} = Phases
  BY DEF Phases
<1>1. ASSUME NEW c \in Clients, connect(c) PROVE ConnectionTypeOK'
  BY <1>0, <1>1, <1>p DEF ConnectionTypeOK, connect, GoTo
<1>2. ASSUME NEW c \in Clients, send(c) PROVE ConnectionTypeOK'
  <2>1. PICK part \in Parts, piece \in Piece :
          /\ answered[c] + 1 \in 1..MaxRequests[c]
          /\ sent' = [sent EXCEPT ![c][answered[c] + 1] = Append(Current(c), piece)]
          /\ wire' = [wire EXCEPT ![c] = Append(@, piece)]
          /\ Append(Current(c), piece) \in Seq(Piece)
    BY <1>0, <1>2, SentPiece
  <2>2. wire' \in [Clients -> Seq(Piece)]
    <3>1. wire \in [Clients -> Seq(Piece)] /\ Append(wire[c], piece) \in Seq(Piece)
      BY <1>0 DEF ConnectionTypeOK
    <3> QED
      BY <2>1, <3>1
  <2>3. DOMAIN sent' = Clients /\ \A d \in Clients : sent'[d] \in [1..MaxRequests[d] -> Seq(Piece)]
    BY <1>0, <2>1 DEF ConnectionTypeOK
  <2> QED
    BY <1>0, <1>2, <2>2, <2>3 DEF ConnectionTypeOK, send
<1>3. ASSUME NEW c \in Clients, leave(c) PROVE ConnectionTypeOK'
  BY <1>0, <1>3 DEF ConnectionTypeOK, leave
<1>4. ASSUME NEW c \in Clients, accept(c) PROVE ConnectionTypeOK'
  <2>1. <<>> \in Seq(Piece) /\ ReadAgain(c, <<>>)
    BY <1>4 DEF accept
  <2> QED
    BY <1>0, <1>4, <2>1, ReadAgainTypes DEF ConnectionTypeOK, accept
<1>5. ASSUME NEW c \in Clients, read(c) PROVE ConnectionTypeOK'
  <2>1. PICK n \in 1..Len(wire[c]) :
          /\ Take(c, n)
          /\ \/ Ends(Heard(c, n)) = {} /\ ReadAgain(c, Heard(c, n))
             \/ Ends(Heard(c, n)) # {} /\ Parse(c, Heard(c, n))
    BY <1>5 DEF read
  <2>2. Heard(c, n) \in Seq(Piece) /\ wire' \in [Clients -> Seq(Piece)]
    BY <1>0, <2>1, HeardTypes
  <2>3. CASE ReadAgain(c, Heard(c, n))
    BY <1>0, <1>5, <2>2, <2>3, ReadAgainTypes DEF ConnectionTypeOK, read
  <2>4. CASE Return(c)
    BY <1>0, <1>5, <2>2, <2>4, ReturnTypes DEF ConnectionTypeOK, read
  <2>5. CASE /\ Ends(Heard(c, n)) # {} /\ Parsed(Heard(c, n)) # "closed"
             /\ GoTo(c, Parsed(Heard(c, n)))
             /\ buffer' = [buffer EXCEPT ![c] = Heard(c, n)]
             /\ UNCHANGED <<left, response>>
    <3>1. phase[c] \in {"reading", "body"}
      BY <1>5 DEF read
    <3>3. Parsed(Heard(c, n)) \in {"handling", "body"}
      BY <2>1, <2>5, <3>1, Taking
    <3>4. phase' \in [Clients -> Phases] /\ buffer' \in [Clients -> Seq(Piece)]
      BY <1>0, <1>p, <2>2, <2>5, <3>3 DEF ConnectionTypeOK, GoTo
    <3> QED
      BY <1>0, <1>5, <2>2, <2>5, <3>4 DEF ConnectionTypeOK, read
  <2> QED
    BY <2>1, <2>3, <2>4, <2>5 DEF Parse
<1>6. ASSUME NEW c \in Clients, readBody(c) PROVE ConnectionTypeOK'
  <2>1. PICK n \in 1..Len(wire[c]) :
          /\ Take(c, n) /\ buffer' = [buffer EXCEPT ![c] = Heard(c, n)]
          /\ GoTo(c, Parsed(Heard(c, n)))
    BY <1>6 DEF readBody
  <2>2. Heard(c, n) \in Seq(Piece) /\ wire' \in [Clients -> Seq(Piece)]
    BY <1>0, <2>1, HeardTypes
  <2>3. Parsed(Heard(c, n)) \in Phases
    <3>1. phase[c] = "body" /\ Ends(buffer[c]) # {}
      BY <1>6 DEF readBody, ConnInv, StreamInv, Stream
    <3>2. Parsed(Heard(c, n)) \in {"closed", "handling", "body"}
      BY <2>1, <3>1, Taking
    <3> QED
      BY <1>p, <3>2
  <2> QED
    BY <1>0, <1>6, <2>1, <2>2, <2>3 DEF ConnectionTypeOK, readBody, GoTo
<1>7. ASSUME NEW c \in Clients, disconnected(c) PROVE ConnectionTypeOK'
  BY <1>0, <1>7, ReturnTypes DEF ConnectionTypeOK, disconnected
<1>8. ASSUME NEW c \in Clients, Handled(c)
      PROVE  phase' \in [Clients -> Phases] /\ handled' \in [Clients -> Seq(Seq(Piece))]
  <2>1. buffer[c] \in Seq(Piece) /\ handled[c] \in Seq(Seq(Piece))
    BY <1>0 DEF ConnectionTypeOK
  <2>2. Append(handled[c], buffer[c]) \in Seq(Seq(Piece))
    BY <2>1
  <2> QED
    BY <1>0, <1>8, <1>p, <2>2 DEF ConnectionTypeOK, Handled, GoTo
<1>9. ASSUME NEW c \in Clients, handle(c) PROVE ConnectionTypeOK'
  <2>1. handled'[c] \in Seq(Seq(Piece)) /\ phase' \in [Clients -> Phases]
        /\ handled' \in [Clients -> Seq(Seq(Piece))]
    BY <1>8, <1>9 DEF handle
  <2>2. Len(handled'[c]) \in Nat
    BY <2>1
  <2>3. keepAlive' \in [Clients -> BOOLEAN] /\ cookies' \in [Clients -> Nat]
    BY <1>0, <1>9, <2>2 DEF ConnectionTypeOK, handle
  <2> QED
    BY <1>0, <1>9, <2>1, <2>3 DEF ConnectionTypeOK, handle, Handled
<1>10. ASSUME NEW c \in Clients, answerError(c) PROVE ConnectionTypeOK'
  <2>1. phase' \in [Clients -> Phases] /\ handled' \in [Clients -> Seq(Seq(Piece))]
    BY <1>8, <1>10 DEF answerError
  <2>2. keepAlive' \in [Clients -> BOOLEAN]
    BY <1>0, <1>10 DEF ConnectionTypeOK, answerError, closeAfter
  <2> QED
    BY <1>0, <1>10, <2>1, <2>2 DEF ConnectionTypeOK, answerError, Handled
<1>11. ASSUME NEW c \in Clients, watchdog(c) PROVE ConnectionTypeOK'
  BY <1>0, <1>11, ReturnTypes DEF ConnectionTypeOK, watchdog
<1>12. ASSUME NEW c \in Clients, writeData(c) PROVE ConnectionTypeOK'
  <2>1. <<>> \in Seq(Piece) /\ (ReadAgain(c, <<>>) \/ Return(c))
    BY <1>12 DEF writeData
  <2>2. answered' \in [Clients -> Nat]
    BY <1>0, <1>12 DEF ConnectionTypeOK, writeData
  <2> QED
    BY <1>0, <1>12, <2>1, <2>2, ReturnTypes, ReadAgainTypes DEF ConnectionTypeOK, writeData
<1>13. CASE close
  BY <1>0, <1>13 DEF ConnectionTypeOK, close
<1>14. CASE stopListening
  BY <1>0, <1>14 DEF ConnectionTypeOK, stopListening
<1>15. CASE Tick
  <2>1. \A s \in 0..ReadTimeout : Later(s) \in 0..ReadTimeout
    BY ConnectionAssumption DEF Later
  <2>2. left' \in [Clients -> 0..ReadTimeout]
    BY <1>0, <1>15, <2>1 DEF ConnectionTypeOK, Tick
  <2> QED
    BY <1>0, <1>15, <2>2 DEF ConnectionTypeOK, Tick
<1>16. CASE UNCHANGED connVars
  BY <1>0, <1>16 DEF ConnectionTypeOK, connVars
<1> QED
  BY <1>1, <1>2, <1>3, <1>4, <1>5, <1>6, <1>7, <1>9, <1>10, <1>11, <1>12, <1>13, <1>14,
     <1>15, <1>16 DEF ConnectionNext, Client, Serve

-----------------------------------------------------------------------------
(* The stream *)

LEMMA Returned ==
  ASSUME ConnInv, NEW c \in Clients, Return(c), UNCHANGED <<handled, answered, sent>>
  PROVE  Stream(c)' /\ Cookies(c)'
<1>1. phase'[c] = "closed"
  BY DEF Return, GoTo, ConnInv, ConnectionTypeOK
<1>2. Current(c)' = Current(c)
  BY DEF Current
<1> QED
  BY <1>1, <1>2 DEF ConnInv, StreamInv, Stream, Cookies

\* A client that the step does not touch
LEMMA Untouched ==
  ASSUME ConnInv, NEW d \in Clients, Other(d)
  PROVE  Stream(d)' /\ Cookies(d)'
<1>1. Stream(d) /\ Cookies(d)
  BY DEF ConnInv, StreamInv, CookiesInv
<1>2. Current(d)' = Current(d)
  BY DEF Other, Current
<1>3. Stream(d)'
  BY <1>1, <1>2 DEF Other, Stream
<1> QED
  BY <1>1, <1>3 DEF Other, Cookies

\* What is said grows by the piece that is sent.
LEMMA SaysMore ==
  ASSUME ConnInv, NEW c \in Clients, send(c)
  PROVE  Stream(c)'
<1>0. /\ ConnectionTypeOK /\ Stream(c) /\ phase[c] # "closed"
      /\ UNCHANGED <<phase, buffer, answered, handled>>
  BY DEF ConnInv, StreamInv, send
<1>1. /\ Current(c) \in Seq(Piece) /\ buffer[c] \in Seq(Piece) /\ wire[c] \in Seq(Piece)
      /\ answered[c] \in Nat /\ MaxRequests[c] \in Nat
      /\ sent[c] \in [1..MaxRequests[c] -> Seq(Piece)]
  BY <1>0, CurrentType
<1>2. PICK part \in Parts, piece \in Piece :
        /\ MayFollow(c, part) /\ piece.part = part
        /\ answered[c] < MaxRequests[c] /\ answered[c] + 1 \in 1..MaxRequests[c]
        /\ sent' = [sent EXCEPT ![c][answered[c] + 1] = Append(Current(c), piece)]
        /\ wire' = [wire EXCEPT ![c] = Append(@, piece)]
        /\ Append(Current(c), piece) \in Seq(Piece)
  BY <1>0, SentPiece
<1> DEFINE k == answered[c] + 1
           more == Append(Current(c), piece)
<1>3. /\ DOMAIN sent'[c] = DOMAIN sent[c] /\ DOMAIN sent[c] = 1..MaxRequests[c]
      /\ \A i \in DOMAIN sent[c] : sent'[c][i] = IF i = k THEN more ELSE sent[c][i]
      /\ wire'[c] = Append(wire[c], piece)
  BY <1>0, <1>1, <1>2 DEF ConnectionTypeOK
<1>4. Current(c)' = more
  BY <1>0, <1>2, <1>3 DEF Current
<1>5. Grammar(more)
  BY <1>0, <1>1, <1>2, GrammarKept DEF Stream
<1>6. phase[c] \notin {"handling", "writing"}
  <2>1. ~Whole(Current(c))
    BY <1>0, <1>1, <1>2, WholeIsWhole DEF Stream
  <2> QED
    BY <1>0, <2>1 DEF Stream
<1>7. buffer[c] \o Append(wire[c], piece) = more
  <2>1. buffer[c] \o wire[c] = Current(c)
    BY <1>0 DEF Stream
  <2>2. buffer[c] \o Append(wire[c], piece) = Append(buffer[c] \o wire[c], piece)
    BY <1>1, Appended, Zenon
  <2> QED
    BY <2>1, <2>2
<1>8. Len(handled[c]) = answered[c] /\ handled[c] \in Seq(Seq(Piece))
  BY <1>0, <1>6 DEF Stream, ConnectionTypeOK
<1>9. \A i \in DOMAIN handled[c] : i # k
  BY <1>1, <1>8
<1> HIDE DEF k, more
<1>10. \A i \in DOMAIN handled[c] :
         /\ i \in DOMAIN sent'[c] /\ handled[c][i] = sent'[c][i]
         /\ Whole(sent'[c][i])
  BY <1>0, <1>3, <1>9 DEF Stream
<1>11. \A i \in DOMAIN sent'[c] : i > answered[c] + 1 => sent'[c][i] = <<>>
  <2>1. \A i \in DOMAIN sent[c] : i > answered[c] + 1 => i # k
    BY <1>1 DEF k
  <2> QED
    BY <1>0, <1>3, <2>1 DEF Stream
<1> QED
  BY <1>0, <1>3, <1>4, <1>5, <1>6, <1>7, <1>8, <1>10, <1>11 DEF Stream

LEMMA StreamPreserved ==
  ConnInv /\ [ConnectionNext]_connVars => (StreamInv /\ CookiesInv)'
<1> SUFFICES ASSUME ConnInv, [ConnectionNext]_connVars, NEW d \in Clients
             PROVE  (Stream(d) /\ Cookies(d))'
  BY DEF StreamInv, CookiesInv
<1> USE DEF server, client, response
<1>0. ConnectionTypeOK /\ Stream(d) /\ Cookies(d)
  BY DEF ConnInv, StreamInv, CookiesInv
<1>1. ASSUME NEW c \in Clients, connect(c) PROVE (Stream(d) /\ Cookies(d))'
  <2>1. CASE c # d
    <3>1. Other(d)
      BY <1>0, <1>1, <2>1 DEF ConnectionTypeOK, connect, GoTo, Other
    <3> QED
      BY <3>1, Untouched
  <2>2. CASE c = d
    <3>1. phase[d] = "new" /\ phase'[d] = "backlog"
      BY <1>0, <1>1, <2>2 DEF ConnectionTypeOK, connect, GoTo
    <3>2. Current(d)' = Current(d)
      BY <1>1 DEF connect, Current
    <3> QED
      BY <1>0, <1>1, <3>1, <3>2 DEF connect, Stream, Cookies
  <2> QED
    BY <2>1, <2>2
<1>2. ASSUME NEW c \in Clients, send(c) PROVE (Stream(d) /\ Cookies(d))'
  <2>1. CASE c # d
    <3>1. sent'[d] = sent[d] /\ wire'[d] = wire[d]
      <4>1. PICK next \in Piece :
              sent' = [sent EXCEPT ![c][answered[c] + 1] = Append(Current(c), next)]
        BY <1>0, <1>2, SentPiece
      <4>2. PICK piece : wire' = [wire EXCEPT ![c] = Append(@, piece)]
        BY <1>2 DEF send
      <4> QED
        BY <1>0, <2>1, <4>1, <4>2 DEF ConnectionTypeOK
    <3>2. Other(d)
      BY <1>2, <3>1 DEF send, Other
    <3> QED
      BY <3>2, Untouched
  <2>2. CASE c = d
    <3>1. Stream(d)'
      BY <1>2, <2>2, SaysMore
    <3> QED
      BY <1>0, <1>2, <3>1 DEF send, Cookies
  <2> QED
    BY <2>1, <2>2
<1>3. ASSUME NEW c \in Clients, leave(c) PROVE (Stream(d) /\ Cookies(d))'
  <2>1. Other(d)
    BY <1>3 DEF leave, Other
  <2> QED
    BY <2>1, Untouched
<1>4. ASSUME NEW c \in Clients, accept(c) PROVE (Stream(d) /\ Cookies(d))'
  <2>1. CASE c # d
    <3>1. Other(d)
      BY <1>0, <1>4, <2>1 DEF ConnectionTypeOK, accept, ReadAgain, Return, GoTo, Other
    <3> QED
      BY <3>1, Untouched
  <2>2. CASE Return(d)
    BY <1>4, <2>2, Returned DEF accept
  <2>3. CASE c = d /\ ~Return(d)
    <3>1. phase[d] = "backlog" /\ phase'[d] = "reading" /\ buffer'[d] = <<>>
      BY <1>0, <1>4, <2>3 DEF ConnectionTypeOK, accept, ReadAgain, GoTo
    <3>2. buffer'[d] = buffer[d] /\ Ends(buffer'[d]) = {}
      BY <1>0, <3>1 DEF Stream, Ends
    <3>3. UNCHANGED <<wire, sent, handled, answered, cookies>>
      BY <1>4, <2>3 DEF accept, ReadAgain
    <3>4. Current(d)' = Current(d)
      BY <3>3 DEF Current
    <3> QED
      BY <1>0, <3>1, <3>2, <3>3, <3>4 DEF Stream, Cookies
  <2> QED
    BY <1>4, <2>1, <2>2, <2>3
<1>5. ASSUME NEW c \in Clients, read(c) PROVE (Stream(d) /\ Cookies(d))'
  <2>1. PICK n \in 1..Len(wire[c]) :
          /\ Take(c, n)
          /\ \/ Ends(Heard(c, n)) = {} /\ ReadAgain(c, Heard(c, n))
             \/ Ends(Heard(c, n)) # {} /\ Parse(c, Heard(c, n))
    BY <1>5 DEF read
  <2>2. CASE c # d
    <3>1. Other(d)
      BY <1>0, <1>5, <2>1, <2>2
         DEF ConnectionTypeOK, read, Take, Parse, ReadAgain, Return, GoTo, Other
    <3> QED
      BY <3>1, Untouched
  <2>3. CASE Return(d)
    BY <1>5, <2>3, Returned DEF read
  <2>4. CASE c = d /\ ~Return(d)
    <3>1. phase[d] = "reading" /\ UNCHANGED <<sent, answered, handled>> /\ UNCHANGED response
      BY <1>5, <2>1, <2>4 DEF read, Parse, ReadAgain
    <3>2. /\ Heard(d, n) \in Seq(Piece) /\ wire'[d] \in Seq(Piece)
          /\ Heard(d, n) \o wire'[d] = Current(d)
          /\ Ends(Heard(d, n)) # {} =>
               /\ Parsed(Heard(d, n)) \in {"closed", "handling", "body"}
               /\ Parsed(Heard(d, n)) = "handling" =>
                    Heard(d, n) = Current(d) /\ Len(wire'[d]) = 0 /\ Whole(Current(d))
      BY <2>1, <2>4, <3>1, Taking
    <3>3. Current(d)' = Current(d)
      BY <3>1 DEF Current
    <3>4. buffer'[d] = Heard(d, n)
      <4>1. buffer' = [buffer EXCEPT ![d] = Heard(d, n)]
        BY <2>1, <2>4 DEF Parse, ReadAgain
      <4> QED
        BY <1>0, <4>1 DEF ConnectionTypeOK
    <3>6. CASE Ends(Heard(d, n)) = {} /\ phase'[d] = "reading"
      BY <1>0, <3>1, <3>2, <3>3, <3>4, <3>6 DEF Stream, Cookies
    <3>7. CASE /\ Ends(Heard(d, n)) # {} /\ Parsed(Heard(d, n)) # "closed"
               /\ phase'[d] = Parsed(Heard(d, n))
      BY <1>0, <3>1, <3>2, <3>3, <3>4, <3>7 DEF Stream, Cookies
    <3>8. \/ Ends(Heard(d, n)) = {} /\ GoTo(d, "reading")
          \/ /\ Ends(Heard(d, n)) # {} /\ Parsed(Heard(d, n)) # "closed"
             /\ GoTo(d, Parsed(Heard(d, n)))
      BY <2>1, <2>4 DEF Parse, ReadAgain
    <3> QED
      BY <1>0, <3>6, <3>7, <3>8 DEF ConnectionTypeOK, GoTo
  <2> QED
    BY <2>2, <2>3, <2>4
<1>6. ASSUME NEW c \in Clients, readBody(c) PROVE (Stream(d) /\ Cookies(d))'
  <2>1. PICK n \in 1..Len(wire[c]) :
          /\ Take(c, n) /\ buffer' = [buffer EXCEPT ![c] = Heard(c, n)]
          /\ GoTo(c, Parsed(Heard(c, n)))
    BY <1>6 DEF readBody
  <2>2. CASE c # d
    <3>1. Other(d)
      BY <1>0, <1>6, <2>1, <2>2 DEF ConnectionTypeOK, readBody, Take, GoTo, Other
    <3> QED
      BY <3>1, Untouched
  <2>3. CASE c = d
    <3>1. phase[d] = "body" /\ phase'[d] = Parsed(Heard(d, n)) /\ buffer'[d] = Heard(d, n)
          /\ UNCHANGED <<sent, answered, handled, keepAlive, cookies>>
      BY <1>0, <1>6, <2>1, <2>3 DEF ConnectionTypeOK, readBody, GoTo
    <3>2. Ends(buffer[d]) # {}
      BY <1>0, <3>1 DEF Stream
    <3>3. /\ Heard(d, n) \in Seq(Piece) /\ wire'[d] \in Seq(Piece)
          /\ Heard(d, n) \o wire'[d] = Current(d)
          /\ Ends(Heard(d, n)) # {}
          /\ Parsed(Heard(d, n)) \in {"closed", "handling", "body"}
          /\ Parsed(Heard(d, n)) = "handling" =>
               Heard(d, n) = Current(d) /\ Len(wire'[d]) = 0 /\ Whole(Current(d))
      BY <2>1, <2>3, <3>1, <3>2, Taking
    <3>4. Current(d)' = Current(d)
      BY <3>1 DEF Current
    <3> QED
      BY <1>0, <3>1, <3>3, <3>4 DEF Stream, Cookies
  <2> QED
    BY <2>2, <2>3
<1>7. ASSUME NEW c \in Clients, disconnected(c) PROVE (Stream(d) /\ Cookies(d))'
  <2>1. CASE c # d
    <3>1. Other(d)
      BY <1>0, <1>7, <2>1 DEF ConnectionTypeOK, disconnected, Return, GoTo, Other
    <3> QED
      BY <3>1, Untouched
  <2>2. CASE c = d
    BY <1>7, <2>2, Returned DEF disconnected
  <2> QED
    BY <2>1, <2>2
<1>8. ASSUME NEW c \in Clients, watchdog(c) PROVE (Stream(d) /\ Cookies(d))'
  <2>1. CASE c # d
    <3>1. Other(d)
      BY <1>0, <1>8, <2>1 DEF ConnectionTypeOK, watchdog, Return, GoTo, Other
    <3> QED
      BY <3>1, Untouched
  <2>2. CASE c = d
    BY <1>8, <2>2, Returned DEF watchdog
  <2> QED
    BY <2>1, <2>2
<1>9. ASSUME Handled(d)
      PROVE  /\ Stream(d)' /\ phase'[d] = "writing" /\ Len(handled'[d]) = answered[d] + 1
             /\ phase[d] = "handling" /\ UNCHANGED answered
  <2>1. /\ phase[d] = "handling" /\ phase'[d] = "writing"
        /\ handled'[d] = Append(handled[d], buffer[d])
        /\ UNCHANGED <<wire, buffer, sent, answered>>
    BY <1>0, <1>9 DEF ConnectionTypeOK, Handled, GoTo
  <2>2. /\ buffer[d] \in Seq(Piece) /\ handled[d] \in Seq(Seq(Piece))
        /\ answered[d] \in Nat /\ MaxRequests[d] \in Nat
        /\ sent[d] \in [1..MaxRequests[d] -> Seq(Piece)]
    BY <1>0, CurrentType DEF ConnectionTypeOK
  <2>3. /\ Len(handled[d]) = answered[d]
        /\ buffer[d] = Current(d) /\ Whole(Current(d))
        /\ \A i \in DOMAIN handled[d] :
             /\ i \in DOMAIN sent[d] /\ handled[d][i] = sent[d][i]
             /\ Whole(sent[d][i])
    BY <1>0, <2>1 DEF Stream
  <2>4. /\ answered[d] + 1 \in DOMAIN sent[d] /\ buffer[d] = sent[d][answered[d] + 1]
        /\ Whole(sent[d][answered[d] + 1])
    <3>1. answered[d] < MaxRequests[d]
      BY <2>3, EmptyGrammar DEF Current
    <3>2. Current(d) = sent[d][answered[d] + 1]
      BY <3>1 DEF Current
    <3> QED
      BY <2>2, <2>3, <3>1, <3>2
  <2>5. /\ Len(handled'[d]) = answered[d] + 1 /\ DOMAIN handled'[d] = 1..(answered[d] + 1)
        /\ \A i \in 1..(answered[d] + 1) :
             handled'[d][i] = IF i = answered[d] + 1 THEN buffer[d] ELSE handled[d][i]
    BY <2>1, <2>2, <2>3
  <2>6. \A i \in DOMAIN handled'[d] :
          /\ i \in DOMAIN sent[d] /\ handled'[d][i] = sent[d][i]
          /\ Whole(sent[d][i])
    <3>1. \A i \in 1..(answered[d] + 1) : i # answered[d] + 1 => i \in DOMAIN handled[d]
      BY <2>2, <2>3
    <3> QED
      BY <2>3, <2>4, <2>5, <3>1
  <2>7. Current(d)' = Current(d)
    BY <2>1 DEF Current
  <2> QED
    BY <1>0, <2>1, <2>5, <2>6, <2>7 DEF Stream
<1>10. ASSUME NEW c \in Clients, handle(c) PROVE (Stream(d) /\ Cookies(d))'
  <2>1. CASE c # d
    <3>1. Other(d)
      BY <1>0, <1>10, <2>1 DEF ConnectionTypeOK, handle, Handled, GoTo, Other
    <3> QED
      BY <3>1, Untouched
  <2>2. CASE c = d
    <3>1. cookies'[d] \in {0, Len(handled'[d])}
      BY <1>0, <1>10, <2>2 DEF ConnectionTypeOK, handle
    <3>2. Handled(d)
      BY <1>10, <2>2 DEF handle
    <3> QED
      BY <1>9, <3>1, <3>2 DEF Cookies
  <2> QED
    BY <2>1, <2>2
<1>11. ASSUME NEW c \in Clients, answerError(c) PROVE (Stream(d) /\ Cookies(d))'
  <2>1. CASE c # d
    <3>1. Other(d)
      BY <1>0, <1>11, <2>1 DEF ConnectionTypeOK, answerError, closeAfter, Handled, GoTo, Other
    <3> QED
      BY <3>1, Untouched
  <2>2. CASE c = d
    <3>1. cookies'[d] = cookies[d] /\ keepAlive'[d] = FALSE
      BY <1>0, <1>11, <2>2 DEF ConnectionTypeOK, answerError, closeAfter
    <3>2. Handled(d)
      BY <1>11, <2>2 DEF answerError
    <3> QED
      BY <1>0, <1>9, <3>1, <3>2 DEF Cookies
  <2> QED
    BY <2>1, <2>2
<1>12. ASSUME NEW c \in Clients, writeData(c) PROVE (Stream(d) /\ Cookies(d))'
  <2>1. CASE c # d
    <3>1. Other(d)
      BY <1>0, <1>12, <2>1 DEF ConnectionTypeOK, writeData, ReadAgain, Return, GoTo, Other
    <3> QED
      BY <3>1, Untouched
  <2>2. CASE c = d
    <3>1. /\ phase[d] = "writing" /\ answered'[d] = answered[d] + 1
          /\ UNCHANGED <<wire, sent, handled>>
      BY <1>0, <1>12, <2>2 DEF ConnectionTypeOK, writeData
    <3>2. /\ Len(handled[d]) = answered[d] + 1
          /\ \A i \in DOMAIN handled[d] :
               /\ i \in DOMAIN sent[d] /\ handled[d][i] = sent[d][i]
               /\ Whole(sent[d][i])
          /\ \A i \in DOMAIN sent[d] : i > answered[d] + 1 => sent[d][i] = <<>>
          /\ buffer[d] \o wire[d] = buffer[d] /\ Current(d)' = <<>> /\ answered[d] \in Nat
          /\ \A i \in DOMAIN sent[d] : i > answered'[d] + 1 => sent[d][i] = <<>>
      <4>1. /\ Len(handled[d]) = answered[d] + 1
            /\ \A i \in DOMAIN handled[d] :
                 /\ i \in DOMAIN sent[d] /\ handled[d][i] = sent[d][i]
                 /\ Whole(sent[d][i])
            /\ \A i \in DOMAIN sent[d] : i > answered[d] + 1 => sent[d][i] = <<>>
            /\ buffer[d] \o wire[d] = buffer[d]
        BY <1>0, <3>1 DEF Stream
      <4>2. answered[d] \in Nat /\ MaxRequests[d] \in Nat /\ DOMAIN sent[d] = 1..MaxRequests[d]
        BY <1>0, CurrentType
      <4>3. Current(d)' = IF answered[d] + 1 < MaxRequests[d] THEN sent[d][answered[d] + 2] ELSE <<>>
        BY <3>1, <4>2 DEF Current
      <4>4. answered[d] + 1 < MaxRequests[d] =>
              answered[d] + 2 \in DOMAIN sent[d] /\ answered[d] + 2 > answered[d] + 1
        BY <4>2
      <4>5. \A i \in DOMAIN sent[d] : i > answered'[d] + 1 => i > answered[d] + 1
        BY <3>1, <4>2
      <4> QED
        BY <4>1, <4>2, <4>3, <4>4, <4>5
    <3>3. wire[d] = <<>>
      <4>1. buffer[d] \in Seq(Piece) /\ wire[d] \in Seq(Piece)
        BY <1>0, CurrentType
      <4>2. Len(buffer[d] \o wire[d]) = Len(buffer[d]) + Len(wire[d])
            /\ Len(buffer[d]) \in Nat /\ Len(wire[d]) \in Nat
        BY <4>1
      <4>3. Len(buffer[d]) = Len(buffer[d]) + Len(wire[d])
        BY <3>2, <4>2
      <4>4. \A x, y \in Nat : x = x + y => y = 0
        OBVIOUS
      <4>5. Len(wire[d]) = 0
        BY <4>2, <4>3, <4>4
      <4> QED
        BY <4>1, <4>5
    <3>4. Grammar(Current(d)')
      BY <3>2, EmptyGrammar
    <3>5. CASE Return(d)
      <4>1. phase'[d] = "closed"
        BY <1>0, <3>5 DEF ConnectionTypeOK, Return, GoTo
      <4> QED
        BY <3>1, <3>2, <3>4, <4>1 DEF Stream, Cookies
    <3>6. CASE ~Return(d)
      <4>1. /\ keepAlive[d] /\ phase'[d] = "reading" /\ buffer'[d] = <<>>
            /\ UNCHANGED cookies
        BY <1>0, <1>12, <2>2, <3>6 DEF ConnectionTypeOK, writeData, ReadAgain, GoTo
      <4>2. buffer'[d] \o wire'[d] = Current(d)' /\ Ends(buffer'[d]) = {}
        BY <3>1, <3>2, <3>3, <4>1 DEF Ends
      <4>3. cookies[d] \in {0, answered[d] + 1}
        BY <1>0, <3>1, <4>1 DEF Cookies
      <4> QED
        BY <3>1, <3>2, <3>4, <4>1, <4>2, <4>3 DEF Stream, Cookies
    <3> QED
      BY <3>5, <3>6
  <2> QED
    BY <2>1, <2>2
<1>13. CASE close
  BY <1>13, Untouched DEF close, Other
<1>14. CASE stopListening
  BY <1>14, Untouched DEF stopListening, Other
<1>15. CASE Tick
  BY <1>15, Untouched DEF Tick, Other
<1>16. CASE UNCHANGED connVars
  BY <1>16, Untouched DEF connVars, Other
<1> QED
  BY <1>1, <1>2, <1>3, <1>4, <1>5, <1>6, <1>7, <1>8, <1>10, <1>11, <1>12, <1>13, <1>14,
     <1>15, <1>16 DEF ConnectionNext, Client, Serve

LEMMA InitInv == ConnectionInit => ConnInv
<1> SUFFICES ASSUME ConnectionInit PROVE ConnInv
  OBVIOUS
<1>1. <<>> \in Seq(Piece) /\ <<>> \in Seq(Seq(Piece)) /\ Len(<<>>) = 0
  OBVIOUS
<1>2. ASSUME NEW c \in Clients
      PROVE  sent[c] \in [1..MaxRequests[c] -> Seq(Piece)]
             /\ \A i \in DOMAIN sent[c] : sent[c][i] = <<>>
  BY <1>1 DEF ConnectionInit
<1>3. ConnectionTypeOK
  <2>1. DOMAIN sent = Clients /\ \A c \in Clients : sent[c] \in [1..MaxRequests[c] -> Seq(Piece)]
    BY <1>2 DEF ConnectionInit
  <2>2. 0 \in 0..ReadTimeout /\ "new" \in Phases
    BY ConnectionAssumption DEF Phases
  <2> QED
    BY <1>1, <2>1, <2>2 DEF ConnectionInit, ConnectionTypeOK
<1>4. StreamInv
  <2> SUFFICES ASSUME NEW c \in Clients PROVE Stream(c)
    BY DEF StreamInv
  <2>1. /\ phase[c] = "new" /\ buffer[c] = <<>> /\ wire[c] = <<>> /\ answered[c] = 0
        /\ handled[c] = <<>>
    BY DEF ConnectionInit
  <2>2. Current(c) = <<>>
    <3>1. MaxRequests[c] \in Nat /\ DOMAIN sent[c] = 1..MaxRequests[c]
      BY <1>2, <1>3, CurrentType
    <3>2. 0 < MaxRequests[c] => 0 + 1 \in DOMAIN sent[c]
      BY <3>1
    <3> QED
      BY <1>2, <2>1, <3>2 DEF Current
  <2>3. DOMAIN handled[c] = {} /\ <<>> \o <<>> = <<>>
    BY <2>1
  <2> QED
    BY <1>1, <1>2, <2>1, <2>2, <2>3, EmptyGrammar DEF Stream
<1>5. CookiesInv
  BY DEF ConnectionInit, CookiesInv, Cookies
<1> QED
  BY <1>3, <1>4, <1>5 DEF ConnInv

-----------------------------------------------------------------------------
(* The theorems *)

THEOREM ConnInvariant == ConnectionSpec => []ConnInv
<1>1. ConnInv /\ [ConnectionNext]_connVars => ConnInv'
  BY TypePreserved, StreamPreserved DEF ConnInv
<1> QED
  BY <1>1, InitInv, PTL DEF ConnectionSpec

\* Type correctness, for any clients and any bounds
THEOREM ConnectionTypeCorrect == ConnectionSpec => []ConnectionTypeOK
<1>1. ConnInv => ConnectionTypeOK
  BY DEF ConnInv
<1> QED
  BY <1>1, ConnInvariant, PTL

\* However TCP cuts the stream, handlers get the requests of a connection one by one,
\* whole and in order (readData).
THEOREM HandledCorrect == ConnectionSpec => []HandledAsSent
<1>1. ConnInv => HandledAsSent
  <2> SUFFICES ASSUME ConnInv, NEW c \in Clients
               PROVE  /\ answered[c] \in {Len(handled[c]) - 1, Len(handled[c])}
                      /\ \A i \in DOMAIN handled[c] :
                           /\ i \in DOMAIN sent[c] /\ handled[c][i] = sent[c][i]
                           /\ Whole(sent[c][i])
    BY DEF HandledAsSent
  <2>1. /\ \A i \in DOMAIN handled[c] :
             /\ i \in DOMAIN sent[c] /\ handled[c][i] = sent[c][i]
             /\ Whole(sent[c][i])
        /\ Len(handled[c]) \in {answered[c], answered[c] + 1}
        /\ answered[c] \in Nat
    BY DEF ConnInv, StreamInv, Stream, ConnectionTypeOK
  <2> QED
    BY <2>1
<1> QED
  BY <1>1, ConnInvariant, PTL

\* The cookies of a response go out again at most once, with the error that ends the
\* connection (the response object of readData).
THEOREM CookiesCorrect == ConnectionSpec => CookiesRepeatedOnce
<1>1. ConnInv /\ [ConnectionNext]_connVars =>
        [\A c \in Clients :
           /\ answered'[c] # answered[c]
           /\ cookies[c] \notin {0, answered'[c]}
           => phase'[c] = "closed" /\ cookies[c] = answered[c]]_connVars
  <2> SUFFICES ASSUME ConnInv, ConnectionNext, NEW c \in Clients,
                      answered'[c] # answered[c], cookies[c] \notin {0, answered'[c]}
               PROVE  phase'[c] = "closed" /\ cookies[c] = answered[c]
    OBVIOUS
  <2>0. ConnectionTypeOK /\ Cookies(c)
    BY DEF ConnInv, CookiesInv
  <2>1. writeData(c)
    <3>1. ASSUME NEW d \in Clients, Client(d) PROVE UNCHANGED answered
      BY <3>1 DEF Client, connect, send, leave
    <3>2. ASSUME NEW d \in Clients, Serve(d) PROVE UNCHANGED answered
      BY <3>2 DEF Serve, accept, read, readBody, disconnected, handle, answerError, Handled,
                  watchdog
    <3>3. ASSUME NEW d \in Clients, d # c, writeData(d) PROVE answered'[c] = answered[c]
      BY <2>0, <3>3 DEF writeData, ConnectionTypeOK
    <3>4. close \/ stopListening \/ Tick => UNCHANGED answered
      BY DEF close, stopListening, Tick
    <3> QED
      BY <3>1, <3>2, <3>3, <3>4 DEF ConnectionNext
  <2>2. phase[c] = "writing" /\ answered'[c] = answered[c] + 1
    BY <2>0, <2>1 DEF writeData, ConnectionTypeOK
  <2>3. cookies[c] = answered[c] /\ keepAlive[c] = FALSE
    BY <2>0, <2>2 DEF Cookies
  <2> QED
    BY <2>0, <2>1, <2>3 DEF writeData, Return, GoTo, ConnectionTypeOK
<1> QED
  BY <1>1, ConnInvariant, PTL DEF ConnectionSpec, CookiesRepeatedOnce

-----------------------------------------------------------------------------
(* The work ends.  What a liveness proof would need besides the fairness of   *)
(* the thread, which is model-checked: a measure that the server lowers with  *)
(* every step and that only what a client sends raises.                       *)

Rank ==
  [new |-> 3, backlog |-> 2, reading |-> 1, body |-> 1, handling |-> 3, writing |-> 2,
   closed |-> 0]

WorkLeft(c) == 3 * Len(wire[c]) + Rank[phase[c]]

\* Who is not served keeps phase, pieces and deadline.
Idle(d) == phase'[d] = phase[d] /\ wire'[d] = wire[d] /\ left'[d] = left[d]

WorkShrinks(c) ==
  /\ sent'[c] = sent[c] => WorkLeft(c)' <= WorkLeft(c)
  /\ Serve(c) \/ writeData(c) => WorkLeft(c)' < WorkLeft(c)
  /\ left'[c] > left[c] => WorkLeft(c)' < WorkLeft(c)
  /\ Open(c) /\ Tick => Open(c)' /\ left'[c] = Later(left[c])

LEMMA WorkTypes ==
  ASSUME ConnectionTypeOK, NEW c \in Clients
  PROVE  /\ wire[c] \in Seq(Piece) /\ Len(wire[c]) \in Nat
         /\ Rank[phase[c]] \in 0..3 /\ WorkLeft(c) \in Nat
<1>1. wire[c] \in Seq(Piece) /\ Len(wire[c]) \in Nat
  BY DEF ConnectionTypeOK
<1>2. Rank[phase[c]] \in 0..3
  <2>1. phase[c] \in Phases
    BY DEF ConnectionTypeOK
  <2> QED
    BY <2>1 DEF Phases, Rank
<1>3. WorkLeft(c) \in Nat
  BY <1>1, <1>2 DEF WorkLeft
<1> QED
  BY <1>1, <1>2, <1>3

\* The same of the state after a step
LEMMA WorkTypesAfter ==
  (ConnectionTypeOK => \A c \in Clients :
     Len(wire[c]) \in Nat /\ Rank[phase[c]] \in 0..3 /\ WorkLeft(c) \in Nat)'
<1>1. ConnectionTypeOK => \A c \in Clients :
        Len(wire[c]) \in Nat /\ Rank[phase[c]] \in 0..3 /\ WorkLeft(c) \in Nat
  BY WorkTypes
<1> QED
  BY <1>1, PTL

\* A piece more is another history.
LEMMA SendsSomething ==
  ASSUME ConnectionTypeOK, NEW c \in Clients, send(c)
  PROVE  sent'[c] # sent[c]
<1>0. Current(c) \in Seq(Piece) /\ MaxRequests[c] \in Nat /\ answered[c] \in Nat
      /\ sent[c] \in [1..MaxRequests[c] -> Seq(Piece)]
  BY CurrentType
<1>1. PICK piece \in Piece :
        /\ answered[c] < MaxRequests[c] /\ answered[c] + 1 \in 1..MaxRequests[c]
        /\ sent' = [sent EXCEPT ![c][answered[c] + 1] = Append(Current(c), piece)]
  BY SentPiece
<1>2. sent'[c][answered[c] + 1] = Append(Current(c), piece)
  BY <1>0, <1>1 DEF ConnectionTypeOK
<1>3. Current(c) = sent[c][answered[c] + 1]
  BY <1>1 DEF Current
<1>4. Append(Current(c), piece) # Current(c)
  <2>1. Len(Append(Current(c), piece)) = Len(Current(c)) + 1 /\ Len(Current(c)) \in Nat
    BY <1>0
  <2> QED
    BY <2>1
<1> QED
  BY <1>2, <1>3, <1>4

LEMMA IdleKeeps ==
  ASSUME ConnectionTypeOK, NEW d \in Clients, Idle(d)
  PROVE  WorkLeft(d)' = WorkLeft(d) /\ left'[d] = left[d] /\ WorkLeft(d) \in Nat
         /\ left[d] \in Nat
<1>1. WorkLeft(d)' = WorkLeft(d)
  BY DEF Idle, WorkLeft
<1>2. left[d] \in Nat
  BY ConnectionAssumption DEF ConnectionTypeOK
<1> QED
  BY <1>1, <1>2, WorkTypes DEF Idle

\* A step of the server for a client
LEMMA ServedShrinks ==
  ASSUME ConnInv, ConnInv', NEW c \in Clients, Serve(c) \/ writeData(c)
  PROVE  /\ WorkLeft(c)' < WorkLeft(c)
         /\ \A d \in Clients \ {c} : Idle(d)
<1>0. ConnectionTypeOK /\ ConnectionTypeOK'
  BY DEF ConnInv
<1>1. /\ Len(wire[c]) \in Nat /\ Rank[phase[c]] \in 0..3
      /\ Len(wire'[c]) \in Nat /\ (Rank[phase[c]])' \in 0..3
  BY <1>0, WorkTypes, WorkTypesAfter
<1>2. ASSUME wire'[c] = wire[c], (Rank[phase[c]])' < Rank[phase[c]]
      PROVE  WorkLeft(c)' < WorkLeft(c)
  BY <1>1, <1>2 DEF WorkLeft
<1>3. ASSUME NEW n \in 1..Len(wire[c]), Take(c, n), Rank[phase[c]] = 1
      PROVE  WorkLeft(c)' < WorkLeft(c)
  <2>1. wire'[c] = SubSeq(wire[c], n + 1, Len(wire[c]))
    BY <1>0, <1>3 DEF ConnectionTypeOK, Take
  <2>2. wire[c] \in Seq(Piece)
    BY <1>0 DEF ConnectionTypeOK
  <2>3. Len(wire'[c]) = Len(wire[c]) - n
    BY <2>1, <2>2
  <2>4. n \in Nat /\ n >= 1
    BY <2>2
  <2> QED
    BY <1>1, <1>3, <2>3, <2>4 DEF WorkLeft
<1>4. ASSUME NEW data, ReadAgain(c, data)
      PROVE  /\ phase'[c] \in {"reading", "closed"}
             /\ \A d \in Clients \ {c} : phase'[d] = phase[d] /\ left'[d] = left[d]
  BY <1>0, <1>4 DEF ReadAgain, Return, GoTo, ConnectionTypeOK
<1>5. ASSUME Return(c)
      PROVE  /\ phase'[c] = "closed"
             /\ \A d \in Clients \ {c} : phase'[d] = phase[d] /\ left'[d] = left[d]
  BY <1>0, <1>5 DEF Return, GoTo, ConnectionTypeOK
<1>6. CASE accept(c)
  <2>1. /\ phase[c] = "backlog" /\ wire' = wire
        /\ phase'[c] \in {"reading", "closed"}
        /\ \A d \in Clients \ {c} : phase'[d] = phase[d] /\ left'[d] = left[d]
    BY <1>4, <1>6 DEF accept, client
  <2> QED
    BY <1>2, <2>1 DEF Rank, Idle
<1>7. CASE read(c)
  <2>1. PICK n \in 1..Len(wire[c]) :
          /\ Take(c, n)
          /\ \/ ReadAgain(c, Heard(c, n))
             \/ Parse(c, Heard(c, n))
    BY <1>7 DEF read
  <2>2. \A d \in Clients \ {c} : phase'[d] = phase[d] /\ left'[d] = left[d]
    BY <1>0, <1>4, <1>5, <2>1 DEF Parse, GoTo, ConnectionTypeOK
  <2>3. \A d \in Clients \ {c} : wire'[d] = wire[d]
    BY <1>0, <2>1 DEF Take, ConnectionTypeOK
  <2>4. Rank[phase[c]] = 1
    BY <1>7 DEF read, Rank
  <2> QED
    BY <1>3, <2>1, <2>2, <2>3, <2>4 DEF Idle
<1>8. CASE readBody(c)
  <2>1. PICK n \in 1..Len(wire[c]) : Take(c, n)
    BY <1>8 DEF readBody
  <2>2. \A d \in Clients \ {c} : phase'[d] = phase[d] /\ left'[d] = left[d]
    BY <1>0, <1>8 DEF readBody, GoTo, ConnectionTypeOK
  <2>3. \A d \in Clients \ {c} : wire'[d] = wire[d]
    BY <1>0, <2>1 DEF Take, ConnectionTypeOK
  <2>4. Rank[phase[c]] = 1
    BY <1>8 DEF readBody, Rank
  <2> QED
    BY <1>3, <2>1, <2>2, <2>3, <2>4 DEF Idle
<1>9. CASE disconnected(c) \/ watchdog(c)
  <2>1. Return(c) /\ Open(c) /\ wire' = wire
    BY <1>9 DEF disconnected, watchdog, client
  <2> QED
    BY <1>2, <1>5, <2>1 DEF Open, Rank, Idle
<1>10. CASE handle(c) \/ answerError(c)
  <2>1. /\ phase[c] = "handling" /\ GoTo(c, "writing")
        /\ wire' = wire /\ left' = left
    BY <1>10 DEF handle, answerError, Handled, client
  <2>2. phase'[c] = "writing" /\ \A d \in Clients \ {c} : phase'[d] = phase[d]
    BY <1>0, <2>1 DEF GoTo, ConnectionTypeOK
  <2> QED
    BY <1>2, <2>1, <2>2 DEF Rank, Idle
<1>11. CASE writeData(c)
  <2>1. /\ phase[c] = "writing" /\ wire' = wire
        /\ phase'[c] \in {"reading", "closed"}
        /\ \A d \in Clients \ {c} : phase'[d] = phase[d] /\ left'[d] = left[d]
    BY <1>4, <1>5, <1>11 DEF writeData, client
  <2> QED
    BY <1>2, <2>1 DEF Rank, Idle
<1> QED
  BY <1>6, <1>7, <1>8, <1>9, <1>10, <1>11 DEF Serve

\* Every step of the server for a client lowers what is left to do for it, and only
\* what the client sends raises it.  A deadline moves away only with a step that
\* lowers it, and time brings it nearer while the connection stays (readData,
\* handleConnection): whatever the others do, the deadline of a client that sends
\* nothing more moves away a bounded number of times.
THEOREM ConnectionsShorten ==
  ConnectionSpec => /\ [](\A c \in Clients : WorkLeft(c) \in Nat)
                    /\ [][\A c \in Clients : WorkShrinks(c)]_connVars
<1>1. ConnInv => \A c \in Clients : WorkLeft(c) \in Nat
  BY WorkTypes DEF ConnInv
<1>2. ConnInv /\ ConnInv' /\ [ConnectionNext]_connVars =>
        [\A c \in Clients : WorkShrinks(c)]_connVars
  <2> SUFFICES ASSUME ConnInv, ConnInv', ConnectionNext, NEW c \in Clients
               PROVE  WorkShrinks(c)
    OBVIOUS
  <2>0. /\ ConnectionTypeOK /\ ConnectionTypeOK' /\ WorkLeft(c) \in Nat
        /\ WorkLeft(c)' \in Nat /\ left[c] \in Nat /\ left'[c] \in Nat
    <3>1. ConnectionTypeOK /\ ConnectionTypeOK'
      BY DEF ConnInv
    <3>2. left[c] \in Nat /\ left'[c] \in Nat
      BY <3>1, ConnectionAssumption DEF ConnectionTypeOK
    <3> QED
      BY <3>1, <3>2, WorkTypes, WorkTypesAfter
  <2>1. Serve(c) \/ writeData(c) => WorkLeft(c)' < WorkLeft(c)
    BY ServedShrinks
  <2>2. Open(c) /\ Tick => Open(c)' /\ left'[c] = Later(left[c])
    BY DEF Open, Tick
  <2>3. /\ sent'[c] = sent[c] => WorkLeft(c)' <= WorkLeft(c)
        /\ left'[c] > left[c] => WorkLeft(c)' < WorkLeft(c)
    <3>1. CASE Idle(c)
      BY <2>0, <3>1, IdleKeeps
    <3>2. ASSUME NEW d \in Clients, Serve(d) \/ writeData(d)
          PROVE  Idle(c) \/ WorkLeft(c)' < WorkLeft(c)
      BY <3>2, ServedShrinks
    <3>3. ASSUME NEW d \in Clients, Client(d)
          PROVE  /\ sent'[c] = sent[c] => WorkLeft(c)' <= WorkLeft(c)
                 /\ left' = left
      <4>1. CASE connect(d)
        <5>1. /\ phase[d] = "new" /\ phase' = [phase EXCEPT ![d] = "backlog"]
              /\ UNCHANGED <<wire, left>>
          BY <4>1 DEF connect, GoTo
        <5>2. Rank[phase'[c]] <= Rank[phase[c]] /\ Rank[phase'[c]] \in Nat /\ Rank[phase[c]] \in Nat
          <6>1. CASE d = c
            <7>1. phase[c] = "new" /\ phase'[c] = "backlog"
              BY <2>0, <5>1, <6>1 DEF ConnectionTypeOK
            <7> QED
              BY <7>1 DEF Rank
          <6>2. CASE d # c
            <7>1. phase'[c] = phase[c]
              BY <2>0, <5>1, <6>2 DEF ConnectionTypeOK
            <7> QED
              BY <2>0, <7>1, WorkTypes
          <6> QED
            BY <6>1, <6>2
        <5>3. Len(wire[c]) \in Nat
          BY <2>0, WorkTypes
        <5>4. WorkLeft(c)' <= WorkLeft(c)
          BY <5>1, <5>2, <5>3 DEF WorkLeft
        <5> QED
          BY <5>1, <5>4
      <4>2. CASE send(d)
        <5>1. left' = left /\ phase' = phase
          BY <4>2 DEF send
        <5>2. CASE d = c
          <6>1. sent'[c] # sent[c]
            BY <2>0, <4>2, <5>2, SendsSomething
          <6> QED
            BY <5>1, <6>1
        <5>3. CASE d # c
          <6>1. wire'[c] = wire[c]
            BY <2>0, <4>2, <5>3 DEF send, ConnectionTypeOK
          <6> QED
            BY <2>0, <5>1, <6>1 DEF WorkLeft
        <5> QED
          BY <5>2, <5>3
      <4>3. CASE leave(d)
        BY <2>0, <4>3 DEF leave, WorkLeft
      <4> QED
        BY <3>3, <4>1, <4>2, <4>3 DEF Client
    <3>4. close \/ stopListening => Idle(c)
      BY DEF close, stopListening, Idle
    <3>5. CASE Tick
      <4>1. WorkLeft(c)' = WorkLeft(c)
        BY <3>5 DEF Tick, WorkLeft
      <4>2. left'[c] <= left[c]
        BY <2>0, <3>5 DEF Tick, Later
      <4> QED
        BY <2>0, <4>1, <4>2
    <3>6. ASSUME NEW d \in Clients, Client(d) PROVE ~(left'[c] > left[c])
      BY <2>0, <3>3, <3>6
    <3> QED
      BY <2>0, <3>1, <3>2, <3>3, <3>4, <3>5, <3>6 DEF ConnectionNext
  <2> QED
    BY <2>1, <2>2, <2>3 DEF WorkShrinks
<1> QED
  BY <1>1, <1>2, ConnInvariant, PTL DEF ConnectionSpec

\* Once close was called, no connection opens and no deadline moves away: what is
\* open then was open before, or in a handler (accept, readData; server.hpp:97-103).
THEOREM ClosingShortens ==
  ConnectionSpec =>
    [][_close => /\ _close'
                 /\ \A c \in Clients :
                      /\ left'[c] <= left[c]
                      /\ Open(c)' => Open(c) \/ phase[c] = "handling"]_connVars
<1>1. ConnInv /\ [ConnectionNext]_connVars =>
        [_close => /\ _close'
                   /\ \A c \in Clients :
                        /\ left'[c] <= left[c]
                        /\ Open(c)' => Open(c) \/ phase[c] = "handling"]_connVars
  <2> SUFFICES ASSUME ConnInv, ConnectionNext, _close
               PROVE  /\ _close'
                      /\ \A c \in Clients :
                           /\ left'[c] <= left[c]
                           /\ Open(c)' => Open(c) \/ phase[c] = "handling"
    OBVIOUS
  <2>0. /\ ConnectionTypeOK /\ \A c \in Clients : left[c] \in Nat
    BY ConnectionAssumption DEF ConnInv, ConnectionTypeOK
  <2> DEFINE Less(c) == /\ left'[c] <= left[c]
                        /\ Open(c)' => Open(c) \/ phase[c] = "handling"
  <2>1. ASSUME NEW d \in Clients, Return(d) PROVE \A c \in Clients : Less(c)
    BY <2>0, <2>1 DEF Return, GoTo, Open, ConnectionTypeOK
  <2>2. ASSUME left' = left, NEW d \in Clients, NEW p, GoTo(d, p),
               phase[d] \in {"reading", "body", "handling"} \/ p = "backlog"
        PROVE  \A c \in Clients : Less(c)
    BY <2>0, <2>2 DEF GoTo, Open, ConnectionTypeOK
  <2>3. ASSUME UNCHANGED <<left, phase>> PROVE \A c \in Clients : Less(c)
    BY <2>0, <2>3 DEF Open
  <2>4. ASSUME NEW d \in Clients, Client(d) PROVE _close' /\ \A c \in Clients : Less(c)
    <3>1. UNCHANGED server /\ left' = left /\ (UNCHANGED phase \/ GoTo(d, "backlog"))
      BY <2>4 DEF Client, connect, send, leave
    <3>2. _close'
      BY <3>1 DEF server
    <3> HIDE DEF Less
    <3> QED
      BY <2>2, <2>3, <3>1, <3>2
  <2>5. ASSUME NEW d \in Clients, Serve(d) PROVE _close' /\ \A c \in Clients : Less(c)
    <3>1. \/ Return(d)
          \/ /\ left' = left /\ phase[d] \in {"reading", "body", "handling"}
             /\ \E p : GoTo(d, p)
      <4>1. CASE accept(d)
        BY <4>1 DEF accept, ReadAgain
      <4>2. CASE read(d)
        BY <4>2 DEF read, ReadAgain, Parse
      <4>3. CASE readBody(d)
        BY <4>3 DEF readBody
      <4>4. CASE disconnected(d) \/ watchdog(d)
        BY <4>4 DEF disconnected, watchdog
      <4>5. CASE handle(d) \/ answerError(d)
        BY <4>5 DEF handle, answerError, Handled
      <4> QED
        BY <2>5, <4>1, <4>2, <4>3, <4>4, <4>5 DEF Serve
    <3>2. _close'
      BY <2>5 DEF Serve, accept, read, readBody, disconnected, handle, answerError, Handled,
                  watchdog, server
    <3> HIDE DEF Less
    <3> QED
      BY <2>1, <2>2, <3>1, <3>2
  <2>6. ASSUME NEW d \in Clients, writeData(d) PROVE _close' /\ \A c \in Clients : Less(c)
    <3>1. Return(d)
      BY <2>6 DEF writeData, ReadAgain
    <3>2. _close'
      BY <2>6 DEF writeData, server
    <3> HIDE DEF Less
    <3> QED
      BY <2>1, <3>1, <3>2
  <2>7. ASSUME close \/ stopListening PROVE _close' /\ \A c \in Clients : Less(c)
    <3>1. _close' /\ left' = left /\ phase' = phase
      BY <2>7 DEF close, stopListening
    <3> HIDE DEF Less
    <3> QED
      BY <2>3, <3>1
  <2>8. ASSUME Tick PROVE _close' /\ \A c \in Clients : Less(c)
    <3>1. _close' /\ phase' = phase
      BY <2>8 DEF Tick, server
    <3>2. \A c \in Clients : left'[c] <= left[c]
      BY <2>0, <2>8 DEF Tick, Later
    <3> QED
      BY <3>1, <3>2 DEF Open
  <2> HIDE DEF Less
  <2>9. _close' /\ \A c \in Clients : Less(c)
    BY <2>4, <2>5, <2>6, <2>7, <2>8 DEF ConnectionNext
  <2> QED
    BY <2>9 DEF Less
<1> QED
  BY <1>1, ConnInvariant, PTL DEF ConnectionSpec
=============================================================================
