------------------------------- MODULE MCAuth -------------------------------
(* Instances of Auth.  The maps of AuthManager are keyed by user and no     *)
(* step touches two users, so one user stands for all.  Lifetimes are       *)
(* shortened to what the two kinds of token tell apart.                     *)
EXTENDS Auth

CONSTANTS u1, r1, r2, n1, n2

MCOneUser == {u1}
MCRequests == {r1, r2}
MCNonces == {n1, n2}
MCOneNonce == {n1}
=============================================================================
