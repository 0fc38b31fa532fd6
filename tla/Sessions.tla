------------------------------ MODULE Sessions ------------------------------
(***************************************************************************)
(* What the authentication of the server promises: an address has at most  *)
(* one session, a pair of an access and a refresh token that is made,      *)
(* replaced and dropped as ONE thing.  A session that was replaced never   *)
(* comes back, except as an equal pair made within the same second: a      *)
(* token is a function of its address and of the second it was made in.    *)
(***************************************************************************)
EXTENDS Naturals

CONSTANTS Users, NoSession

VARIABLES
  session,     \* per address: its pair of tokens, or NoSession
  clock        \* seconds

\* When the two tokens of a pair were made: the refresh token is made last.
Pair(access, refresh) == [access |-> access, refresh |-> refresh]

PairsUpTo(now) == {Pair(a, r) : a \in 0..now, r \in 0..now}

NotOlder(user, pair) ==
  session[user] # NoSession =>
    /\ pair.access >= session[user].access
    /\ pair.refresh >= session[user].refresh

SessionsInit ==
  /\ session = [u \in Users |-> NoSession]
  /\ clock = 0

\* A login or a refresh puts a whole new pair in place of the old one.
Grant(user) ==
  \E pair \in PairsUpTo(clock) :
    /\ pair.access <= pair.refresh
    /\ NotOlder(user, pair)
    /\ session' = [session EXCEPT ![user] = pair]
    /\ UNCHANGED clock

\* A restart forgets every session.
Forget ==
  /\ session' = [u \in Users |-> NoSession]
  /\ UNCHANGED clock

Pass == clock' = clock + 1 /\ UNCHANGED session

SessionsNext == (\E u \in Users : Grant(u)) \/ Forget \/ Pass

SessionsSpec == SessionsInit /\ [][SessionsNext]_<<session, clock>>
=============================================================================
