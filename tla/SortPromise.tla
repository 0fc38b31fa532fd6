----------------------------- MODULE SortPromise -----------------------------
(***************************************************************************)
(* What a topological sort of records promises: when no ring of records    *)
(* lean on each other it gives each record once and after the records it   *)
(* leans on; when there is such a ring it throws.  What a record leans on  *)
(* and is not among the records is left out.                               *)
(***************************************************************************)
EXTENDS Naturals, Sequences

VARIABLES
  children,   \* per record, in the order of its dimensions: the names it mentions
  result,     \* "sorting", "sorted" or "cyclic"
  order       \* the answer

Records == DOMAIN children

Mentions(name) == {children[name][i] : i \in DOMAIN children[name]}

\* What must come before a record.
Needs(name) == Mentions(name) \cap Records

\* Each record of the ring leans on one of them.
Ring(names) == names # {} /\ \A n \in names : \E m \in names : m \in Needs(n)

Cyclic == \E names \in SUBSET Records : Ring(names)

Once(seq) == \A i, j \in DOMAIN seq : seq[i] = seq[j] => i = j

ChildrenFirst(seq) ==
  \A j \in DOMAIN seq : \A n \in Needs(seq[j]) : \E i \in DOMAIN seq : i < j /\ seq[i] = n

IsOrder(seq) ==
  /\ seq \in Seq(Records)
  /\ Records = {seq[i] : i \in DOMAIN seq}
  /\ Once(seq)
  /\ ChildrenFirst(seq)

PromiseInit ==
  /\ result = "sorting"
  /\ order = <<>>

Answer ==
  /\ result = "sorting" /\ ~Cyclic
  /\ result' = "sorted"
  /\ IsOrder(order')
  /\ UNCHANGED children

Throw ==
  /\ result = "sorting" /\ Cyclic
  /\ result' = "cyclic"
  /\ UNCHANGED <<children, order>>

PromiseNext == Answer \/ Throw

PromiseSpec == PromiseInit /\ [][PromiseNext]_<<children, result, order>>
=============================================================================
