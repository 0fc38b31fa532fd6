----------------------------- MODULE Connection -----------------------------
(***************************************************************************)
(* The HTTP server (src/server): the listen loop, and per client the       *)
(* coroutine readData next to a watchdog that cancels it when its deadline *)
(* passes.  TCP delivers what a client sends in order and in pieces of any *)
(* size; a client may stop sending, stop reading, or leave.                *)
(*                                                                         *)
(* One thread runs all coroutines: while a handler works (it may run a     *)
(* compiler) nothing else of the server moves, and time passes.            *)
(***************************************************************************)
EXTENDS Integers, Sequences

CONSTANTS
  Clients,
  ReadTimeout,     \* what readData adds to now: 30 seconds
  IdleInterval,    \* _idle_interval
  Lengths,         \* the lengths of each client's bodies, in the pieces they are sent in
  MaxHead,         \* bound: in how many pieces each client sends a head
  MaxRequests      \* bound: how many requests each client sends

ASSUME ConnectionAssumption ==
  /\ ReadTimeout \in Nat \ {0} /\ IdleInterval \in Nat \ {0}
  /\ DOMAIN Lengths = Clients /\ DOMAIN MaxHead = Clients /\ DOMAIN MaxRequests = Clients
  /\ \A c \in Clients :
       /\ Lengths[c] \subseteq Nat
       /\ MaxHead[c] \in Nat \ {0} /\ MaxRequests[c] \in Nat \ {0}

\* The pieces of a request: beginnings of its head; the end of its head, with a
\* Content-Length (none is 0) or with one that is no number; and as many pieces of
\* its body as that.  They are numbered, so that no two are the same.
Parts == {"begin", "end", "endBadLength", "body"}
Piece == [req : Nat \ {0}, no : Nat \ {0}, part : Parts, length : Nat]

Ends(data) == {i \in DOMAIN data : data[i].part \in {"end", "endBadLength"}}

HeadEnd(data) == CHOOSE i \in Ends(data) : \A j \in Ends(data) : i <= j

\* A head and the whole body it announces
Whole(data) ==
  \E i \in Ends(data) : data[i].part = "end" /\ Len(data) = i + data[i].length

VARIABLES
  listening,    \* the listen loop runs
  _close,       \* close() was called
  phase,        \* per client: where the server is with it
  left,         \* seconds until the deadline
  wire,         \* pieces sent and not read yet
  buffer,       \* full_request_data
  keepAlive,    \* the response does not say `Connection: close`
  cookies,      \* the request that the Set-Cookie headers of the response are for, or 0
  gone,         \* the client closed its end
  sent,         \* history: what the client sent of each of its requests
  answered,     \* responses written
  handled       \* history: what the handlers were called with

server == <<listening, _close>>
client == <<gone, sent>>
response == <<keepAlive, cookies>>
connVars == <<server, phase, left, wire, buffer, response, client, answered, handled>>

Phases == {"new", "backlog", "reading", "body", "handling", "writing", "closed"}

ConnectionInit ==
  /\ listening = TRUE /\ _close = FALSE
  /\ phase = [c \in Clients |-> "new"]
  /\ left = [c \in Clients |-> 0]
  /\ wire = [c \in Clients |-> <<>>]
  /\ buffer = [c \in Clients |-> <<>>]
  /\ keepAlive = [c \in Clients |-> FALSE]
  /\ cookies = [c \in Clients |-> 0]
  /\ gone = [c \in Clients |-> FALSE]
  /\ sent = [c \in Clients |-> [i \in 1..MaxRequests[c] |-> <<>>]]
  /\ answered = [c \in Clients |-> 0]
  /\ handled = [c \in Clients |-> <<>>]

\* The thread is inside a handler.
Busy == \E c \in Clients : phase[c] = "handling"

Open(c) == phase[c] \in {"reading", "body", "writing"}

GoTo(c, p) == phase' = [phase EXCEPT ![c] = p]

\* readData returns: its locals and those of handleConnection are gone.
Return(c) ==
  /\ GoTo(c, "closed")
  /\ buffer' = [buffer EXCEPT ![c] = <<>>]
  /\ keepAlive' = [keepAlive EXCEPT ![c] = FALSE]
  /\ cookies' = [cookies EXCEPT ![c] = 0]
  /\ left' = [left EXCEPT ![c] = 0]

\* The while loop goes round.
ReadAgain(c, data) ==
  \/ _close /\ Return(c)
  \/ /\ ~_close
     /\ GoTo(c, "reading")
     /\ left' = [left EXCEPT ![c] = ReadTimeout]
     /\ buffer' = [buffer EXCEPT ![c] = data]
     /\ UNCHANGED response

-----------------------------------------------------------------------------
(* Clients: they wait for the answer before the next request.               *)

connect(c) ==
  /\ phase[c] = "new"
  /\ GoTo(c, "backlog")
  /\ UNCHANGED <<server, left, wire, buffer, response, client, answered, handled>>

\* What the client has sent of the request it has no answer to yet
Current(c) == IF answered[c] < MaxRequests[c] THEN sent[c][answered[c] + 1] ELSE <<>>

\* What the client may send next of a request: more of its head, or of its body.
MayFollow(c, part) ==
  LET data == Current(c) IN
  \/ Ends(data) = {} /\ part = "begin" /\ Len(data) + 1 < MaxHead[c]
  \/ Ends(data) = {} /\ part \in {"end", "endBadLength"}
  \/ /\ Ends(data) # {} /\ part = "body"
     /\ data[HeadEnd(data)].part = "end"
     /\ Len(data) < HeadEnd(data) + data[HeadEnd(data)].length

send(c) ==
  /\ phase[c] \notin {"new", "closed"} /\ ~gone[c]
  /\ answered[c] < MaxRequests[c]
  /\ \E part \in Parts, length \in Lengths[c] :
       /\ MayFollow(c, part)
       /\ LET piece == [req |-> answered[c] + 1, no |-> Len(Current(c)) + 1, part |-> part,
                         length |-> IF part = "end" THEN length ELSE 0]
          IN /\ sent' = [sent EXCEPT ![c][answered[c] + 1] = Append(@, piece)]
             /\ wire' = [wire EXCEPT ![c] = Append(@, piece)]
  /\ UNCHANGED <<server, phase, left, buffer, response, gone, answered, handled>>

leave(c) ==
  /\ phase[c] \notin {"new", "closed"} /\ ~gone[c]
  /\ gone' = [gone EXCEPT ![c] = TRUE]
  /\ UNCHANGED <<server, phase, left, wire, buffer, response, sent, answered, handled>>

-----------------------------------------------------------------------------
(* listen and close *)

\* readData looks at _close before it reads for the first time.
accept(c) ==
  /\ listening /\ ~Busy
  /\ phase[c] = "backlog"
  /\ ReadAgain(c, <<>>)
  /\ UNCHANGED <<server, wire, client, answered, handled>>

\* Nothing in src/ calls close(); it is the interface's way to stop.
close ==
  /\ ~_close /\ ~Busy
  /\ _close' = TRUE
  /\ UNCHANGED <<listening, phase, left, wire, buffer, response, client, answered, handled>>

\* (mutant) accept without a watchdog beside it
stopAtNextClient ==
  /\ listening /\ _close /\ ~Busy
  /\ \E c \in Clients : phase[c] = "backlog"
  /\ listening' = FALSE
  /\ UNCHANGED <<_close, phase, left, wire, buffer, response, client, answered, handled>>

\* The watchdog ends the accept, and the loop sees _close.
stopListening ==
  /\ listening /\ _close /\ ~Busy
  /\ listening' = FALSE
  /\ UNCHANGED <<_close, phase, left, wire, buffer, response, client, answered, handled>>

-----------------------------------------------------------------------------
(* readData *)

\* What readData has heard of the client after n more pieces.
Heard(c, n) == buffer[c] \o SubSeq(wire[c], 1, n)

Take(c, n) == wire' = [wire EXCEPT ![c] = SubSeq(@, n + 1, Len(@))]

\* What follows the end of a head: a failed stoul, the handler, or a body that is
\* not all there.
Parsed(data) ==
  LET end == data[HeadEnd(data)] IN
  CASE end.part = "endBadLength" -> "closed"
    [] end.part = "end" /\ Len(data) >= HeadEnd(data) + end.length -> "handling"
    [] end.part = "end" /\ Len(data) < HeadEnd(data) + end.length -> "body"

Parse(c, data) ==
  \/ Parsed(data) = "closed" /\ Return(c)
  \/ /\ Parsed(data) # "closed"
     /\ GoTo(c, Parsed(data))
     /\ buffer' = [buffer EXCEPT ![c] = data]
     /\ UNCHANGED <<left, response>>

read(c) ==
  /\ phase[c] = "reading" /\ ~Busy
  /\ \E n \in 1..Len(wire[c]) :
       /\ Take(c, n)
       /\ \/ Ends(Heard(c, n)) = {} /\ ReadAgain(c, Heard(c, n))
          \/ Ends(Heard(c, n)) # {} /\ Parse(c, Heard(c, n))
  /\ UNCHANGED <<server, client, answered, handled>>

\* (mutant) `if' for `while'
readBodyOnce(c) ==
  /\ phase[c] = "body" /\ ~Busy
  /\ \E n \in 1..Len(wire[c]) :
       Take(c, n) /\ buffer' = [buffer EXCEPT ![c] = Heard(c, n)]
  /\ GoTo(c, "handling")
  /\ UNCHANGED <<server, left, response, client, answered, handled>>

\* More of the body, again and again until it is all there: the deadline stays that
\* of the last read of the head.
readBody(c) ==
  /\ phase[c] = "body" /\ ~Busy
  /\ \E n \in 1..Len(wire[c]) :
       /\ Take(c, n)
       /\ buffer' = [buffer EXCEPT ![c] = Heard(c, n)]
       /\ GoTo(c, Parsed(Heard(c, n)))
  /\ UNCHANGED <<server, left, response, client, answered, handled>>

\* The socket is at its end, or was reset: readData returns or throws.
disconnected(c) ==
  /\ gone[c] /\ ~Busy /\ Open(c)
  /\ Return(c)
  /\ UNCHANGED <<server, wire, client, answered, handled>>

Handled(c) ==
  /\ phase[c] = "handling"
  /\ handled' = [handled EXCEPT ![c] = Append(@, buffer[c])]
  /\ GoTo(c, "writing")
  /\ UNCHANGED <<server, left, wire, buffer, client, answered>>

\* The handler returns a response, which replaces the one before.  Most say
\* `Connection: close'; a file, and the new tokens of POST_refresh, do not.
handle(c) ==
  /\ Handled(c)
  /\ \E keep \in BOOLEAN : keepAlive' = [keepAlive EXCEPT ![c] = keep]
  /\ \E of \in {0, Len(handled'[c])} : cookies' = [cookies EXCEPT ![c] = of]

\* (mutant) an answer like any other
keepOn(c) == UNCHANGED keepAlive

closeAfter(c) == keepAlive' = [keepAlive EXCEPT ![c] = FALSE]

\* No route (404), or the handler throws (500): version, code, body and `Connection'
\* are set in the response of the request before.
answerError(c) ==
  /\ Handled(c)
  /\ closeAfter(c)
  /\ UNCHANGED cookies

\* The system has taken the whole response; it waits for the client for a long one.
writeData(c) ==
  /\ phase[c] = "writing" /\ ~Busy
  /\ answered' = [answered EXCEPT ![c] = @ + 1]
  /\ IF keepAlive[c] THEN ReadAgain(c, <<>>) ELSE Return(c)
  /\ UNCHANGED <<server, wire, client, handled>>

\* (mutant) the watchdog is armed for the read of the head only
watchdogOfHead(c) ==
  /\ phase[c] = "reading" /\ left[c] = 0 /\ ~Busy
  /\ Return(c)
  /\ UNCHANGED <<server, wire, client, answered, handled>>

\* handleConnection: the watchdog is done first and cancels what readData waits for.
watchdog(c) ==
  /\ Open(c) /\ left[c] = 0 /\ ~Busy
  /\ Return(c)
  /\ UNCHANGED <<server, wire, client, answered, handled>>

-----------------------------------------------------------------------------
\* (mutant) a deadline in the past counts on
Sooner(seconds) == IF seconds > 0 THEN seconds - 1 ELSE ReadTimeout + 1

Later(seconds) == IF seconds > 0 THEN seconds - 1 ELSE 0

Tick ==
  /\ left' = [c \in Clients |-> Later(left[c])]
  /\ UNCHANGED <<server, phase, wire, buffer, response, client, answered, handled>>

\* What the thread does for a client without its help.
Serve(c) ==
  \/ accept(c) \/ read(c) \/ readBody(c) \/ disconnected(c)
  \/ handle(c) \/ answerError(c) \/ watchdog(c)

Client(c) == connect(c) \/ send(c) \/ leave(c)

ConnectionNext ==
  \/ \E c \in Clients : Client(c)
  \/ \E c \in Clients : Serve(c)
  \/ \E c \in Clients : writeData(c)
  \/ close
  \/ stopListening
  \/ Tick

\* Time passes and the io_context runs what is ready; nothing is asked of the
\* clients, nor that anybody calls close.
ConnectionSpec ==
  /\ ConnectionInit /\ [][ConnectionNext]_connVars
  /\ \A c \in Clients : WF_connVars(Serve(c))
  /\ WF_connVars(stopListening)
  /\ WF_connVars(Tick)

-----------------------------------------------------------------------------
\* The type invariant
ConnectionTypeOK ==
  /\ listening \in BOOLEAN /\ _close \in BOOLEAN
  /\ phase \in [Clients -> Phases]
  /\ left \in [Clients -> 0..ReadTimeout]
  /\ wire \in [Clients -> Seq(Piece)]
  /\ buffer \in [Clients -> Seq(Piece)]
  /\ keepAlive \in [Clients -> BOOLEAN] /\ cookies \in [Clients -> Nat]
  /\ gone \in [Clients -> BOOLEAN]
  /\ DOMAIN sent = Clients
  /\ \A c \in Clients : sent[c] \in [1..MaxRequests[c] -> Seq(Piece)]
  /\ answered \in [Clients -> Nat]
  /\ handled \in [Clients -> Seq(Seq(Piece))]

\* However TCP cuts the stream, the i-th call of a handler gets the i-th request
\* of the client, whole and nothing else: no request is handled twice on a
\* connection that is kept alive, and none before its body is there (readData).
HandledAsSent ==
  \A c \in Clients :
    /\ answered[c] \in {Len(handled[c]) - 1, Len(handled[c])}
    /\ \A i \in DOMAIN handled[c] :
         /\ i \in DOMAIN sent[c] /\ handled[c][i] = sent[c][i]
         /\ Whole(sent[c][i])

\* The response outlives the request on a connection that is kept alive, and what an
\* error leaves of it goes out again: then it is the end of the connection, and the
\* cookies are those of the answer right before.
CookiesRepeatedOnce ==
  [][\A c \in Clients :
       /\ answered'[c] # answered[c]
       /\ cookies[c] \notin {0, answered'[c]}
       => phase'[c] = "closed" /\ cookies[c] = answered[c]]_connVars

\* A client that sends nothing more at last loses its connection, also in the
\* middle of a head or a body, or when it does not take the response
\* (handleConnection, watchdog).  One that goes on sending may keep it: each read of
\* a head that is not complete, and each request after an answer that does not
\* close, has its 30 seconds.
SilentConnectionsEnd ==
  \A c \in Clients :
    <>[][sent'[c] = sent[c]]_connVars => (Open(c) ~> phase[c] = "closed")

\* close() ends the listen loop and every connection, without the help of clients
\* (server.hpp:97-103).
ClosesDown ==
  _close ~> ~listening /\ \A c \in Clients : phase[c] \in {"new", "backlog", "closed"}

\* server.hpp:88-92 says of the idle interval that the server closes the connection
\* if no requests are received from the client during it.  The server last heard of
\* a client it reads from, or accepted it, ReadTimeout - left[c] seconds ago: when
\* that is more than the interval the connection is due.
IdleClientsClosed ==
  \A c \in Clients :
    phase[c] = "reading" /\ ReadTimeout - left[c] > IdleInterval => left[c] = 0
=============================================================================
