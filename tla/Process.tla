------------------------------- MODULE Process -------------------------------
(***************************************************************************)
(* runProcess (native/unix): the server runs a program, by which EVM       *)
(* compiles, reads what it prints through a pipe and waits for it to exit. *)
(* Parent and child run side by side; the pipe holds only so much, and its *)
(* end is seen only when nobody holds the end to write to any more.        *)
(***************************************************************************)
EXTENDS Integers, FiniteSets

CONSTANTS
  PipeCapacity,    \* chunks the pipe holds
  MaxOutput,       \* bound: chunks a program prints
  NoCode

ASSUME ProcessAssumption ==
  /\ PipeCapacity \in Nat \ {0} /\ MaxOutput \in Nat \ {0}
  /\ NoCode \notin Nat /\ NoCode # -1

VARIABLES
  parent,      \* where runProcess is; "idle" when nobody has called it
  child,       \* "none", "forked" (before execvp), "running" or "zombie"
  ends,        \* the ends of the pipe that parent and child hold
  inPipe,      \* chunks in the pipe
  output,      \* chunks appended to the string
  written,     \* history: chunks the child has printed
  status,      \* what waitpid will say: an exit code, -1 for a signal
  exit_code    \* what runProcess returned

processVars == <<parent, child, ends, inPipe, output, written, status, exit_code>>
pipeVars == <<inPipe, output, written>>

Writers == {p \in {"parent", "child"} : "write" \in ends[p]}

NoEnds == [p \in {"parent", "child"} |-> {}]

ProcessInit ==
  /\ parent = "idle" /\ child = "none"
  /\ ends = NoEnds
  /\ inPipe = 0 /\ output = 0 /\ written = 0
  /\ status = NoCode /\ exit_code = NoCode

-----------------------------------------------------------------------------
(* The parent *)

\* Not executable, or no pipe: an exception.  No child: an exception, and both ends
\* stay open.  Otherwise both have both ends.
runProcess ==
  /\ parent \in {"idle", "returned"}
  /\ \/ /\ parent' = "threw"
        /\ ends' \in {NoEnds, [NoEnds EXCEPT !["parent"] = {"read", "write"}]}
        /\ UNCHANGED child
     \/ /\ parent' = "forked" /\ child' = "forked"
        /\ ends' = [p \in {"parent", "child"} |-> {"read", "write"}]
  /\ inPipe' = 0 /\ output' = 0 /\ written' = 0
  /\ status' = NoCode /\ exit_code' = NoCode

\* (mutant) the parent keeps its end to write to
keepWriteEnd ==
  /\ parent = "forked"
  /\ parent' = "reading"
  /\ UNCHANGED <<child, ends, pipeVars, status, exit_code>>

closeWriteEnd ==
  /\ parent = "forked"
  /\ parent' = "reading"
  /\ ends' = [ends EXCEPT !["parent"] = @ \ {"write"}]
  /\ UNCHANGED <<child, pipeVars, status, exit_code>>

\* read returns what is there, up to the size of the buffer.
read ==
  /\ parent = "reading"
  /\ \E n \in 1..inPipe :
       /\ inPipe' = inPipe - n
       /\ output' = output + n
  /\ UNCHANGED <<parent, child, ends, written, status, exit_code>>

\* (mutant) the parent reads until the pipe is empty
readUntilEmpty ==
  /\ parent = "reading" /\ inPipe = 0
  /\ parent' = "waiting"
  /\ ends' = [ends EXCEPT !["parent"] = @ \ {"read"}]
  /\ UNCHANGED <<child, pipeVars, status, exit_code>>

\* read returns 0 when the pipe is empty and nobody can write to it any more.  (A
\* read or a waitpid that returns -1 needs a signal handler that interrupts it, or
\* children that are not kept for it; src/ installs no handler and ignores no signal.)
readEnd ==
  /\ parent = "reading" /\ inPipe = 0 /\ Writers = {}
  /\ parent' = "waiting"
  /\ ends' = [ends EXCEPT !["parent"] = @ \ {"read"}]
  /\ UNCHANGED <<child, pipeVars, status, exit_code>>

waitpid ==
  /\ parent = "waiting" /\ child = "zombie"
  /\ parent' = "returned" /\ child' = "none"
  /\ exit_code' = status
  /\ UNCHANGED <<ends, pipeVars, status>>

-----------------------------------------------------------------------------
(* The child *)

\* stdout and stderr become copies of the end to write to, and execvp keeps them.
execvp ==
  /\ child = "forked"
  /\ child' = "running"
  /\ ends' = [ends EXCEPT !["child"] = {"write"}]
  /\ UNCHANGED <<parent, pipeVars, status, exit_code>>

\* (mutant) the status of waitpid, not the code in it
RawStatus(code) ==
  /\ child' = "zombie"
  /\ status' = 256 * code
  /\ ends' = [ends EXCEPT !["child"] = {}]

Exits(code) ==
  /\ child' = "zombie"
  /\ status' = code
  /\ ends' = [ends EXCEPT !["child"] = {}]

\* execvp returned: the reason is printed, and the child exits.
execvpFails ==
  /\ child = "forked" /\ inPipe < PipeCapacity
  /\ inPipe' = inPipe + 1 /\ written' = written + 1
  /\ Exits(127)
  /\ UNCHANGED <<parent, output, exit_code>>

\* A full pipe blocks the child.  The parent keeps its end to read from until nobody
\* writes any more, so no SIGPIPE comes.
print ==
  /\ child = "running"
  /\ written < MaxOutput /\ inPipe < PipeCapacity
  /\ inPipe' = inPipe + 1 /\ written' = written + 1
  /\ UNCHANGED <<parent, child, ends, output, status, exit_code>>

\* The program ends with a code, or by a signal.
exit ==
  /\ child = "running"
  /\ \E code \in {0, 1, -1} : Exits(code)
  /\ UNCHANGED <<parent, pipeVars, exit_code>>

-----------------------------------------------------------------------------
Parent == closeWriteEnd \/ read \/ readEnd \/ waitpid

Child == execvp \/ execvpFails \/ print \/ exit

ProcessNext == runProcess \/ Parent \/ Child

\* The program does not print for ever, and ends once it can go on.
ProcessFairness == WF_processVars(Parent) /\ WF_processVars(Child)

ProcessSpec == ProcessInit /\ [][ProcessNext]_processVars /\ ProcessFairness

-----------------------------------------------------------------------------
\* The type invariant
ProcessTypeOK ==
  /\ parent \in {"idle", "forked", "reading", "waiting", "returned", "threw"}
  /\ child \in {"none", "forked", "running", "zombie"}
  /\ ends \in [{"parent", "child"} -> SUBSET {"read", "write"}]
  /\ inPipe \in 0..PipeCapacity
  /\ output \in Nat /\ written \in Nat
  /\ status \in {NoCode, -1, 0, 1, 127} /\ exit_code \in {NoCode, -1, 0, 1, 127}

\* When runProcess returns it has all that the program printed, however long and
\* however late, and its exit code, and leaves neither a process to be waited for nor
\* an open end of the pipe behind (a server compiles at every post).
ReturnsWhole ==
  parent = "returned" =>
    /\ output = written /\ inPipe = 0
    /\ exit_code = status /\ status # NoCode
    /\ child = "none" /\ ends = NoEnds
=============================================================================
