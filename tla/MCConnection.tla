---------------------------- MODULE MCConnection ----------------------------
(* Instances of Connection.  Time is scaled: one second of the model is six *)
(* of the program, or all thirty of the read timeout.                       *)
EXTENDS Connection, TLC

CONSTANTS c1, c2

MCClients == {c1, c2}
MCOneClient == {c1}

MCMaxRequests == [c \in {c1} |-> 2] @@ [c \in {c2} |-> 1]
MCLengths == [c \in {c1} |-> {2}] @@ [c \in {c2} |-> {0}]
MCNoBody == [c \in {c1} |-> {0}]
MCMaxHead == [c \in {c1} |-> 2] @@ [c \in {c2} |-> 1]
MCShortHead == [c \in {c1} |-> 1]
MCOneRequest == [c \in {c1} |-> 1]
=============================================================================
