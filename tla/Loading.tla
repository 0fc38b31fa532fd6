------------------------------- MODULE Loading -------------------------------
(***************************************************************************)
(* loadStoredFeatures (src/loader), the part of the start that orders the  *)
(* stored features and deploys them one by one, each by a compiler that    *)
(* runs as a process of its own.  Composes TopologicalSort and Process.    *)
(*                                                                         *)
(* Node has what a deployment does to the catalogue, the chain and the     *)
(* files, and takes from here that the records come in order.              *)
(***************************************************************************)
EXTENDS TopologicalSort, Process

VARIABLES
  load,        \* "sort", "next", "compile", "done", "empty" or "threw"
  attempted,   \* how many records of the sorted list were taken
  success,     \* what loadStoredFeatures returns
  deployed,    \* names the Registry has
  failed       \* history: records that the compiler, the chain or the disk refused

loadVars == <<load, attempted, success, deployed, failed>>
loadingVars == <<sortVars, processVars, loadVars>>

LoadingInit ==
  /\ SortInit /\ ProcessInit
  /\ load = "sort" /\ attempted = 0 /\ success = TRUE
  /\ deployed = {} /\ failed = {}

\* Nothing stored, or nothing readable, is no success.
nothingStored ==
  /\ load = "sort" /\ Records = {}
  /\ load' = "empty" /\ success' = FALSE
  /\ UNCHANGED <<sortVars, processVars, attempted, deployed, failed>>

sort ==
  /\ load = "sort" /\ Records # {}
  /\ SortNext
  /\ UNCHANGED <<processVars, loadVars>>

\* The loop begins, or the exception of the sort leaves loadStoredFeatures; main
\* listens in both cases.
sortDone ==
  /\ load = "sort" /\ result # "sorting"
  /\ load' = IF result = "sorted" THEN "next" ELSE "threw"
  /\ UNCHANGED <<sortVars, processVars, attempted, success, deployed, failed>>

Record == sorted[attempted + 1]

\* What checkIfSubFeaturesExist asks for: the Registry was empty, and a sub-feature
\* that was deployed was checked then.
FirstSubFeature(name) ==
  LET mentioned == {i \in DOMAIN children[name] : children[name][i] # NoName}
  IN {children[name][i] : i \in {k \in mentioned : \A j \in mentioned : k <= j}}

Refused(name) ==
  /\ load' = "next" /\ attempted' = attempted + 1
  /\ success' = FALSE
  /\ UNCHANGED deployed

\* deployFeature, up to its compiler: the sub-feature is missing, the code file
\* cannot be written, its directory cannot be made (an exception), or the compiler is
\* started.
deployFeature ==
  /\ load = "next" /\ attempted < Len(sorted)
  /\ \/ /\ ~(FirstSubFeature(Record) \subseteq deployed)
        /\ Refused(Record)
        /\ UNCHANGED <<failed, processVars>>
     \/ /\ FirstSubFeature(Record) \subseteq deployed
        /\ Refused(Record)
        /\ failed' = failed \cup {Record}
        /\ UNCHANGED processVars
     \/ /\ FirstSubFeature(Record) \subseteq deployed
        /\ load' = "threw"
        /\ failed' = failed \cup {Record}
        /\ UNCHANGED <<attempted, success, deployed, processVars>>
     \/ /\ FirstSubFeature(Record) \subseteq deployed
        /\ runProcess
        /\ load' = "compile"
        /\ UNCHANGED <<attempted, success, deployed, failed>>
  /\ UNCHANGED sortVars

compile ==
  /\ load = "compile"
  /\ Parent \/ Child
  /\ UNCHANGED <<sortVars, loadVars>>

\* An exception of runProcess leaves loadStoredFeatures.
compileThrows ==
  /\ load = "compile" /\ parent = "threw"
  /\ load' = "threw"
  /\ failed' = failed \cup {Record}
  /\ UNCHANGED <<sortVars, processVars, attempted, success, deployed>>

\* The contract is deployed and enters the Registry, or one of the two fails; after
\* a failed compilation neither is tried.
compiled ==
  /\ load = "compile" /\ parent = "returned"
  /\ \/ /\ exit_code = 0
        /\ deployed' = deployed \cup {Record}
        /\ load' = "next" /\ attempted' = attempted + 1
        /\ UNCHANGED <<success, failed>>
     \/ Refused(Record) /\ failed' = failed \cup {Record}
  /\ UNCHANGED <<sortVars, processVars>>

loaded ==
  /\ load = "next" /\ attempted = Len(sorted)
  /\ load' = "done"
  /\ UNCHANGED <<sortVars, processVars, attempted, success, deployed, failed>>

Loads ==
  \/ nothingStored \/ sort \/ sortDone
  \/ deployFeature \/ compileThrows \/ compiled \/ loaded

LoadingNext == Loads \/ compile

\* The thread goes on; the compiler, too, and it ends.
LoadingSpec ==
  /\ LoadingInit /\ [][LoadingNext]_loadingVars
  /\ WF_loadingVars(Loads)
  /\ WF_loadingVars(load = "compile" /\ Parent /\ UNCHANGED <<sortVars, loadVars>>)
  /\ WF_loadingVars(load = "compile" /\ Child /\ UNCHANGED <<sortVars, loadVars>>)

-----------------------------------------------------------------------------
\* The type invariant
LoadingTypeOK ==
  /\ SortTypeOK /\ ProcessTypeOK
  /\ load \in {"sort", "next", "compile", "done", "empty", "threw"}
  /\ attempted \in 0..Len(sorted)
  /\ success \in BOOLEAN
  /\ deployed \subseteq Records /\ failed \subseteq Records

\* A record is back in the catalogue after the load unless something of its own
\* failed or its first sub-feature is not there: none is left out because it came
\* before what it needs, and one that fails does not take others with it.  The
\* result says whether all are (loadStoredFeatures).
NoneLeftOut ==
  load = "done" =>
    /\ \A name \in Records :
         name \in deployed <=> name \notin failed /\ FirstSubFeature(name) \subseteq deployed
    /\ success <=> deployed = Records

\* The load ends, on a ring of records and on a compiler that prints more than a
\* pipe holds as well, so that the server comes to listen (main).
LoadEnds == <>(load \in {"done", "empty", "threw"})
=============================================================================
