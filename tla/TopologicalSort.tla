--------------------------- MODULE TopologicalSort ---------------------------
(***************************************************************************)
(* topologicalSort (utils.hpp), by which loadStoredFeatures orders what it *)
(* read: a depth-first search over names, a std::function that calls       *)
(* itself.  Each call, each child looked at and each return is a step; the *)
(* calls that have not returned are the stack.                             *)
(***************************************************************************)
EXTENDS Naturals, Sequences

CONSTANTS
  Names,      \* names that records may have, or may mention
  NoName,     \* the empty name
  Lists       \* the lists of children a record may have

ASSUME SortAssumption ==
  /\ NoName \notin Names
  /\ Lists \subseteq Seq(Names \cup {NoName})

VARIABLES
  children,   \* data and get_childreen: per record the names of its children
  todo,       \* records the outer loop has not come to
  stack,      \* calls of visit: the name, and the child to look at next
  visited, on_stack, sorted,
  result      \* "sorting"; "sorted" or "cyclic" when the sort has returned or thrown

sortVars == <<children, todo, stack, visited, on_stack, sorted, result>>

Records == DOMAIN children

Frame == [name : Names, next : Nat \ {0}]

SortInit ==
  /\ \E data \in SUBSET Names : children \in [data -> Lists] /\ todo = data
  /\ stack = <<>> /\ sorted = <<>>
  /\ visited = {} /\ on_stack = {}
  /\ result = "sorting"

Top == stack[Len(stack)]

\* The names of the children of the call on top
TopChildren == children[Top.name]

-----------------------------------------------------------------------------
\* (mutant) a name on the stack is no error
EnterAnyway(name, below) ==
  IF name \in visited \/ name \in on_stack \/ name \notin Records
  THEN stack' = below /\ UNCHANGED <<on_stack, result>>
  ELSE /\ stack' = Append(below, [name |-> name, next |-> 1])
       /\ on_stack' = on_stack \cup {name}
       /\ UNCHANGED result

\* visit(name), up to its loop: it returns at once for a name visited before, throws
\* for one on the stack, and goes back over a name that is no record.
Enter(name, below) ==
  \/ /\ name \in visited
     /\ stack' = below
     /\ UNCHANGED <<on_stack, result>>
  \/ /\ name \notin visited /\ name \in on_stack
     /\ result' = "cyclic"
     /\ UNCHANGED <<stack, on_stack>>
  \/ /\ name \notin visited \cup on_stack /\ name \notin Records
     /\ stack' = below
     /\ UNCHANGED <<on_stack, result>>
  \/ /\ name \notin visited \cup on_stack /\ name \in Records
     /\ stack' = Append(below, [name |-> name, next |-> 1])
     /\ on_stack' = on_stack \cup {name}
     /\ UNCHANGED result

\* The outer loop: a hash map gives its names in any order.
visitNext ==
  /\ result = "sorting" /\ stack = <<>>
  /\ \E name \in todo :
       /\ todo' = todo \ {name}
       /\ Enter(name, stack)
  /\ UNCHANGED <<children, visited, sorted>>

\* The call on top looks at its next child.
Advanced == [stack EXCEPT ![Len(stack)].next = @ + 1]

visitChild ==
  /\ result = "sorting" /\ stack # <<>>
  /\ Top.next \in DOMAIN TopChildren
  /\ LET child == TopChildren[Top.next] IN
       IF child = NoName
       THEN stack' = Advanced /\ UNCHANGED <<on_stack, result>>
       ELSE Enter(child, Advanced)
  /\ UNCHANGED <<children, todo, visited, sorted>>

\* (mutant) a record goes in front of its children
ReturnsFirst ==
  /\ visited' = visited \cup {Top.name}
  /\ on_stack' = on_stack \ {Top.name}
  /\ sorted' = <<Top.name>> \o sorted
  /\ stack' = SubSeq(stack, 1, Len(stack) - 1)

\* The end of visit
Returns ==
  /\ visited' = visited \cup {Top.name}
  /\ on_stack' = on_stack \ {Top.name}
  /\ sorted' = Append(sorted, Top.name)
  /\ stack' = SubSeq(stack, 1, Len(stack) - 1)

visitReturns ==
  /\ result = "sorting" /\ stack # <<>>
  /\ Top.next \notin DOMAIN TopChildren
  /\ Returns
  /\ UNCHANGED <<children, todo, result>>

sortReturns ==
  /\ result = "sorting" /\ stack = <<>> /\ todo = {}
  /\ result' = "sorted"
  /\ UNCHANGED <<children, todo, stack, visited, on_stack, sorted>>

SortNext == visitNext \/ visitChild \/ visitReturns \/ sortReturns

SortSpec == SortInit /\ [][SortNext]_sortVars /\ WF_sortVars(SortNext)

-----------------------------------------------------------------------------
\* The type invariant
SortTypeOK ==
  /\ Records \subseteq Names /\ children \in [Records -> Lists]
  /\ todo \subseteq Records
  /\ stack \in Seq(Frame)
  /\ visited \subseteq Records /\ on_stack \subseteq Records
  /\ sorted \in Seq(Records)
  /\ result \in {"sorting", "sorted", "cyclic"}

\* The caller sees the vector when the sort returns.
Answered == IF result = "sorted" THEN sorted ELSE <<>>

Promise == INSTANCE SortPromise WITH order <- Answered

\* Whatever the dimensions of the records and the order of the hash map, the sort
\* throws exactly when records lean on each other in a ring, and otherwise gives
\* every record once and after its sub-features: what loadStoredFeatures relies on
\* when it deploys them one by one.
SortsAsPromised == Promise!PromiseSpec
=============================================================================
