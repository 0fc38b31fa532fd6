---------------------------- MODULE MCWebClient -----------------------------
(* A login and two requests of one page, which may have a session already:  *)
(* enough for two refreshes that race each other while a login replaces the *)
(* session.                                                                 *)
EXTENDS WebClient

CONSTANTS l1, q1, q2

MCLogins == {l1}
MCRequests == {q1, q2}
=============================================================================
