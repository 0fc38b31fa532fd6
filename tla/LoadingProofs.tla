---------------------------- MODULE LoadingProofs ----------------------------
(* Proofs about TopologicalSort, Process and Loading, for any records and   *)
(* children, any pipe and any program.                                      *)
EXTENDS Loading, FiniteSetTheorems, TLAPS

-----------------------------------------------------------------------------
(* TopologicalSort *)

Needs(n) == Promise!Needs(n)

\* A call of visit above another stands for the child that one looked at last.
Linked ==
  \A i \in DOMAIN stack : i + 1 \in DOMAIN stack =>
    /\ stack[i].next - 1 \in DOMAIN children[stack[i].name]
    /\ children[stack[i].name][stack[i].next - 1] = stack[i + 1].name

Settled(name) == name \in Records => name \in visited

\* What a call has looked at is visited or no record, but for the child whose call
\* is above it.
LookedAt ==
  \A i \in DOMAIN stack : \A k \in DOMAIN children[stack[i].name] :
    k < stack[i].next =>
      \/ Settled(children[stack[i].name][k])
      \/ k = stack[i].next - 1 /\ i + 1 \in DOMAIN stack

\* on_stack is what is on the stack, each name once.
StackNames ==
  /\ on_stack = {stack[i].name : i \in DOMAIN stack}
  /\ \A i, j \in DOMAIN stack : stack[i].name = stack[j].name => i = j
  /\ visited \cap on_stack = {}

\* visited is what was appended, each name once and after what it needs.
SortedNames ==
  /\ visited = {sorted[i] : i \in DOMAIN sorted}
  /\ Promise!Once(sorted)
  /\ Promise!ChildrenFirst(sorted)

\* No ring among the visited
NoRing == \A names \in SUBSET visited : ~Promise!Ring(names)

\* No record is forgotten, and the outcomes mean what they say.
Outcome ==
  /\ Records = visited \cup on_stack \cup todo
  /\ result = "sorted" => stack = <<>> /\ todo = {}
  /\ result = "cyclic" => Promise!Cyclic

SortInv == /\ SortTypeOK /\ Linked /\ LookedAt /\ StackNames
           /\ SortedNames /\ NoRing /\ Outcome

-----------------------------------------------------------------------------
(* The stack *)

LEMMA ChildrenTyped ==
  ASSUME SortTypeOK, NEW n \in Records
  PROVE  /\ n \in Names /\ children[n] \in Seq(Names \cup {NoName})
         /\ \A k \in DOMAIN children[n] : k \in Nat /\ k >= 1
         /\ \A k \in DOMAIN children[n] :
              children[n][k] # NoName => children[n][k] \in Names
         /\ \A k \in DOMAIN children[n] :
              children[n][k] \in Records => children[n][k] \in Needs(n)
<1>1. n \in Names /\ children[n] \in Seq(Names \cup {NoName})
  BY SortAssumption DEF SortTypeOK
<1>2. \A k \in DOMAIN children[n] : k \in Nat /\ k >= 1 /\ children[n][k] \in Names \cup {NoName}
  BY <1>1
<1> QED
  BY <1>1, <1>2 DEF Needs, Promise!Needs, Promise!Mentions, Promise!Records, Records

LEMMA NoNameNoRecord == SortTypeOK => NoName \notin Records
BY SortAssumption DEF SortTypeOK

\* A frame of the stack is one of a record.
LEMMA FramesTyped ==
  ASSUME SortTypeOK, StackNames
  PROVE  /\ \A i \in DOMAIN stack : stack[i] \in Frame /\ stack[i].name \in Records
         /\ DOMAIN stack = 1..Len(stack) /\ Len(stack) \in Nat
         /\ stack # <<>> => Len(stack) \in DOMAIN stack /\ Len(stack) >= 1
<1>1. DOMAIN stack = 1..Len(stack) /\ Len(stack) \in Nat /\ \A i \in DOMAIN stack : stack[i] \in Frame
  BY DEF SortTypeOK
<1>2. stack # <<>> => Len(stack) >= 1
  BY <1>1 DEF SortTypeOK
<1> QED
  BY <1>1, <1>2 DEF SortTypeOK, StackNames

LEMMA AdvancedShape ==
  ASSUME SortTypeOK, stack # <<>>
  PROVE  /\ Advanced \in Seq(Frame) /\ Len(Advanced) = Len(stack)
         /\ \A i \in DOMAIN stack : Advanced[i].name = stack[i].name
         /\ \A i \in DOMAIN stack : i # Len(stack) => Advanced[i] = stack[i]
         /\ Advanced[Len(stack)].next = stack[Len(stack)].next + 1
         /\ Len(stack) \in DOMAIN stack
<1>1. Len(stack) \in DOMAIN stack /\ \A i \in DOMAIN stack : stack[i] \in Frame
  BY DEF SortTypeOK
<1>2. [stack[Len(stack)] EXCEPT !.next = @ + 1] \in Frame
  BY <1>1 DEF Frame
<1>3. Advanced \in Seq(Frame) /\ Len(Advanced) = Len(stack)
  BY <1>1, <1>2 DEF Advanced, SortTypeOK
<1> QED
  BY <1>1, <1>3 DEF Advanced, Frame

\* A child on the stack closes a ring: the calls from its own up to the top.
LEMMA RingFound ==
  ASSUME SortTypeOK, StackNames, Linked, stack # <<>>,
         Top.next \in DOMAIN TopChildren, TopChildren[Top.next] \in on_stack
  PROVE  Promise!Cyclic
<1> DEFINE node == TopChildren[Top.next]
<1>1. PICK k \in DOMAIN stack : stack[k].name = node
  BY DEF StackNames
<1> DEFINE ring == {stack[i].name : i \in {j \in DOMAIN stack : j >= k}}
<1>2. ring \in SUBSET Records /\ node \in ring
  BY <1>1, FramesTyped
<1>3. ASSUME NEW i \in DOMAIN stack, i >= k
      PROVE  \E m \in ring : m \in Needs(stack[i].name)
  <2>1. stack[i].name \in Records /\ i \in Nat /\ Len(stack) \in Nat /\ DOMAIN stack = 1..Len(stack)
    BY FramesTyped
  <2>2. CASE i + 1 \in DOMAIN stack
    <3>1. stack[i + 1].name \in ring /\ stack[i + 1].name \in Records
      BY <2>1, <2>2, <1>1, <1>3, FramesTyped
    <3>2. stack[i + 1].name \in Needs(stack[i].name)
      BY <2>1, <2>2, <3>1, ChildrenTyped DEF Linked
    <3> QED
      BY <3>1, <3>2
  <2>3. CASE i + 1 \notin DOMAIN stack
    <3>1. stack[i] = Top
      BY <2>1, <2>3 DEF Top
    <3>2. node \in Records
      BY <1>2
    <3>3. node \in Needs(stack[i].name)
      BY <2>1, <3>1, <3>2, ChildrenTyped DEF TopChildren
    <3> QED
      BY <1>2, <3>3
  <2> QED
    BY <2>2, <2>3
<1>4. Promise!Ring(ring)
  BY <1>2, <1>3 DEF Promise!Ring, Needs
<1> QED
  BY <1>2, <1>4 DEF Promise!Cyclic, Promise!Records, Records

-----------------------------------------------------------------------------
(* A name comes up: the steps of Enter *)

\* What a step that neither visits nor appends has to keep
Kept == UNCHANGED <<children, visited, sorted>>

LEMMA KeptParts ==
  ASSUME SortInv, Kept
  PROVE  /\ SortedNames' /\ NoRing' /\ Records' = Records /\ \A n : Needs(n)' = Needs(n)
         /\ Promise!Cyclic' <=> Promise!Cyclic
<1>1. Records' = Records /\ \A n : Needs(n)' = Needs(n)
  BY DEF Kept, Records, Needs, Promise!Needs, Promise!Mentions, Promise!Records
<1>2. SortedNames'
  BY DEF Kept, SortInv, SortedNames, Promise!Once, Promise!ChildrenFirst,
         Promise!Needs, Promise!Mentions, Promise!Records
<1>3. NoRing'
  <2> SUFFICES ASSUME NEW names \in SUBSET visited, Promise!Ring(names)' PROVE FALSE
    BY DEF Kept, NoRing
  <2>1. names # {} /\ \A n \in names : \E m \in names : m \in Needs(n)'
    BY DEF Promise!Ring, Needs
  <2>2. Promise!Ring(names)
    BY <1>1, <2>1 DEF Promise!Ring, Needs
  <2> QED
    BY <2>2 DEF SortInv, NoRing
<1>4. ASSUME Promise!Cyclic PROVE Promise!Cyclic'
  <2>1. PICK names \in SUBSET Records : Promise!Ring(names)
    BY <1>4 DEF Promise!Cyclic, Promise!Records, Records
  <2>2. names # {} /\ \A n \in names : \E m \in names : m \in Needs(n)
    BY <2>1 DEF Promise!Ring, Needs
  <2>3. Promise!Ring(names)'
    BY <1>1, <2>2 DEF Promise!Ring, Needs
  <2> QED
    BY <1>1, <2>3 DEF Promise!Cyclic, Promise!Records, Records
<1>5. ASSUME Promise!Cyclic' PROVE Promise!Cyclic
  <2>1. PICK names \in SUBSET Records : Promise!Ring(names)'
    BY <1>1, <1>5 DEF Promise!Cyclic, Promise!Records, Records
  <2>2. names # {} /\ \A n \in names : \E m \in names : m \in Needs(n)'
    BY <2>1 DEF Promise!Ring, Needs
  <2>3. Promise!Ring(names)
    BY <1>1, <2>2 DEF Promise!Ring, Needs
  <2> QED
    BY <2>3 DEF Promise!Cyclic, Promise!Records, Records
<1> QED
  BY <1>1, <1>2, <1>3, <1>4, <1>5

LEMMA VisitNextStep ==
  ASSUME SortInv, visitNext
  PROVE  SortInv'
<1> USE DEF visitNext
<1>0. PICK name \in todo : todo' = todo \ {name} /\ Enter(name, stack)
  OBVIOUS
<1>1. Kept /\ SortedNames' /\ NoRing' /\ Records' = Records
  BY KeptParts DEF Kept
<1>2. name \in Names /\ name \in Records /\ name \notin on_stack /\ stack = <<>> /\ on_stack = {}
  BY DEF SortInv, SortTypeOK, StackNames
<1>3. CASE name \in visited
  <2>1. UNCHANGED <<stack, on_stack, result>>
    BY <1>0, <1>2, <1>3 DEF Enter
  <2> QED
    BY <1>0, <1>1, <1>2, <1>3, <2>1
    DEF SortInv, SortTypeOK, Linked, LookedAt, StackNames, Outcome, Kept
<1>4. CASE name \notin visited
  <2>1. /\ stack' = <<[name |-> name, next |-> 1]>> /\ on_stack' = {name}
        /\ result' = result
    BY <1>0, <1>2, <1>4 DEF Enter
  <2>2. /\ DOMAIN stack' = {1} /\ stack'[1].name = name /\ stack'[1].next = 1
        /\ stack' \in Seq(Frame) /\ stack' # <<>>
    BY <1>2, <2>1 DEF Frame
  <2>3. SortTypeOK'
    BY <1>0, <1>1, <1>2, <2>1, <2>2 DEF SortInv, SortTypeOK, Kept
  <2>4. StackNames'
    BY <1>1, <1>4, <2>1, <2>2 DEF StackNames, Kept
  <2>5. Linked'
    BY <2>2 DEF Linked
  <2>6. LookedAt'
    <3>1. \A k \in DOMAIN children[name] : ~(k < 1)
      BY <1>2, ChildrenTyped DEF SortInv
    <3> QED
      BY <1>1, <2>2, <3>1 DEF LookedAt, Kept
  <2>7. Outcome'
    BY <1>0, <1>1, <1>2, <2>1, <2>2 DEF SortInv, Outcome, Kept
  <2> QED
    BY <1>1, <2>3, <2>4, <2>5, <2>6, <2>7 DEF SortInv
<1> QED
  BY <1>3, <1>4

\* The call on top has looked at a child that needs no call.
LEMMA ChildPassed ==
  ASSUME SortInv, stack # <<>>, Top.next \in DOMAIN TopChildren,
         Settled(TopChildren[Top.next]),
         stack' = Advanced, Kept, UNCHANGED <<on_stack, todo, result>>
  PROVE  SortInv'
<1>1. SortedNames' /\ NoRing' /\ Records' = Records
  BY KeptParts
<1>2. /\ DOMAIN stack = 1..Len(stack) /\ DOMAIN stack' = DOMAIN stack /\ stack' # <<>>
      /\ Len(stack) \in Nat /\ Len(stack) \in DOMAIN stack
      /\ \A i \in DOMAIN stack : stack[i] \in Frame /\ stack[i].name \in Records
      /\ \A i \in DOMAIN stack : stack'[i].name = stack[i].name
      /\ \A i \in DOMAIN stack : i # Len(stack) => stack'[i] = stack[i]
      /\ stack'[Len(stack)].next = stack[Len(stack)].next + 1
      /\ stack' \in Seq(Frame)
  BY AdvancedShape, FramesTyped DEF SortInv
<1>3. SortTypeOK'
  BY <1>1, <1>2 DEF SortInv, SortTypeOK, Kept
<1>4. StackNames'
  BY <1>2 DEF SortInv, StackNames, Kept
<1>5. Linked'
  BY <1>2 DEF SortInv, Linked, Kept
<1>6. LookedAt'
  <2> SUFFICES ASSUME NEW i \in DOMAIN stack, NEW k \in DOMAIN children[stack[i].name],
                      k < stack'[i].next
               PROVE  \/ Settled(children[stack[i].name][k])
                      \/ k = stack'[i].next - 1 /\ i + 1 \in DOMAIN stack
    BY <1>1, <1>2 DEF LookedAt, Settled, Kept
  <2>1. k \in Nat
    BY <1>2, ChildrenTyped DEF SortInv
  <2>2. CASE i # Len(stack)
    BY <1>2, <2>2 DEF SortInv, LookedAt
  <2>3. CASE i = Len(stack)
    <3>1. stack[i].next \in Nat /\ (k < stack[i].next \/ k = stack[i].next)
      BY <1>2, <2>1, <2>3 DEF Frame
    <3>2. i + 1 \notin DOMAIN stack
      BY <1>2, <2>3
    <3>3. CASE k < stack[i].next
      BY <3>2, <3>3 DEF SortInv, LookedAt
    <3>4. CASE k = stack[i].next
      BY <2>3, <3>4 DEF Top, TopChildren
    <3> QED
      BY <3>1, <3>3, <3>4
  <2> QED
    BY <2>2, <2>3
<1>7. Outcome'
  <2>1. Promise!Cyclic => Promise!Cyclic'
    BY KeptParts
  <2> QED
    BY <1>1, <1>2, <2>1 DEF SortInv, Outcome, Kept
<1> QED
  BY <1>1, <1>3, <1>4, <1>5, <1>6, <1>7 DEF SortInv

\* The call on top has called visit for a child.
LEMMA ChildEntered ==
  ASSUME SortInv, stack # <<>>, Top.next \in DOMAIN TopChildren, NEW node,
         node = TopChildren[Top.next], node \notin visited \cup on_stack, node \in Records,
         stack' = Append(Advanced, [name |-> node, next |-> 1]),
         on_stack' = on_stack \cup {node}, Kept, UNCHANGED <<todo, result>>,
         result = "sorting"
  PROVE  SortInv'
<1> DEFINE top == Len(stack)
<1>1. SortedNames' /\ NoRing' /\ Records' = Records
  BY KeptParts
<1>2. /\ DOMAIN stack = 1..top /\ top \in Nat /\ top \in DOMAIN stack
      /\ \A i \in DOMAIN stack : stack[i] \in Frame /\ stack[i].name \in Records
  BY FramesTyped DEF SortInv
<1>3. /\ DOMAIN stack' = 1..(top + 1) /\ stack' # <<>>
      /\ \A i \in DOMAIN stack : stack'[i].name = stack[i].name
      /\ \A i \in DOMAIN stack : i # top => stack'[i] = stack[i]
      /\ stack'[top].next = stack[top].next + 1
      /\ stack'[top + 1].name = node /\ stack'[top + 1].next = 1
      /\ stack' \in Seq(Frame)
  <2>1. [name |-> node, next |-> 1] \in Frame
    BY ChildrenTyped DEF SortInv, Frame
  <2>2. /\ Advanced \in Seq(Frame) /\ Len(Advanced) = top
        /\ \A i \in DOMAIN stack : Advanced[i].name = stack[i].name
        /\ \A i \in DOMAIN stack : i # top => Advanced[i] = stack[i]
        /\ Advanced[top].next = stack[top].next + 1
    BY AdvancedShape DEF SortInv
  <2> HIDE DEF top
  <2>3. /\ stack' \in Seq(Frame) /\ Len(stack') = top + 1 /\ DOMAIN stack' = 1..(top + 1)
        /\ \A i \in 1..top : stack'[i] = Advanced[i]
        /\ stack'[top + 1] = [name |-> node, next |-> 1]
    BY <1>2, <2>1, <2>2
  <2> QED
    BY <1>2, <2>2, <2>3
<1> HIDE DEF top
<1>4. SortTypeOK'
  BY <1>1, <1>3 DEF SortInv, SortTypeOK, Kept
<1>5. StackNames'
  <2>1. on_stack' = {stack'[i].name : i \in DOMAIN stack'}
    BY <1>2, <1>3 DEF SortInv, StackNames
  <2>2. \A i, j \in DOMAIN stack' : stack'[i].name = stack'[j].name => i = j
    BY <1>2, <1>3 DEF SortInv, StackNames
  <2>3. visited' \cap on_stack' = {}
    BY DEF SortInv, StackNames, Kept
  <2> QED
    BY <2>1, <2>2, <2>3 DEF StackNames
<1>6. Linked'
  <2> SUFFICES ASSUME NEW i \in 1..top
               PROVE  /\ stack'[i].next - 1 \in DOMAIN children[stack[i].name]
                      /\ children[stack[i].name][stack'[i].next - 1] = stack'[i + 1].name
    BY <1>2, <1>3 DEF Linked, Kept
  <2>1. CASE i = top
    <3>1. stack[i] = Top /\ stack[i].next \in Nat
      BY <1>2, <2>1 DEF Top, top, Frame
    <3>2. stack'[i].next - 1 = Top.next /\ stack'[i + 1].name = node
      BY <1>3, <2>1, <3>1
    <3> QED
      BY <3>1, <3>2 DEF TopChildren
  <2>2. CASE i # top
    <3>1. i + 1 \in 1..top
      BY <1>2, <2>2
    <3>2. i \in DOMAIN stack /\ i + 1 \in DOMAIN stack
      BY <1>2, <3>1
    <3>3. /\ stack[i].next - 1 \in DOMAIN children[stack[i].name]
          /\ children[stack[i].name][stack[i].next - 1] = stack[i + 1].name
      BY <3>2 DEF SortInv, Linked
    <3>4. stack'[i].next = stack[i].next /\ stack'[i + 1].name = stack[i + 1].name
      BY <1>3, <2>2, <3>2
    <3> QED
      BY <3>3, <3>4
  <2> QED
    BY <2>1, <2>2
<1>7. LookedAt'
  <2> SUFFICES ASSUME NEW i \in DOMAIN stack', NEW k \in DOMAIN children[stack'[i].name],
                      k < stack'[i].next
               PROVE  \/ Settled(children[stack'[i].name][k])
                      \/ k = stack'[i].next - 1 /\ i + 1 \in DOMAIN stack'
    BY <1>1 DEF LookedAt, Settled, Kept
  <2>1. CASE i = top + 1
    <3>1. k >= 1 /\ k \in Nat
      BY <1>3, <2>1, ChildrenTyped DEF SortInv
    <3> QED
      BY <1>3, <2>1, <3>1
  <2>2. CASE i \in DOMAIN stack /\ i # top
    BY <1>2, <1>3, <2>2 DEF SortInv, LookedAt
  <2>3. CASE i = top
    <3>1. k \in Nat /\ stack[i].next \in Nat /\ (k < stack[i].next \/ k = stack[i].next)
      BY <1>2, <1>3, <2>3, ChildrenTyped DEF SortInv, Frame
    <3>2. i + 1 \notin DOMAIN stack /\ i + 1 \in DOMAIN stack'
      BY <1>2, <1>3, <2>3
    <3>3. CASE k < stack[i].next
      BY <1>2, <1>3, <2>3, <3>2, <3>3 DEF SortInv, LookedAt
    <3>4. CASE k = stack[i].next
      BY <1>3, <2>3, <3>1, <3>2, <3>4
    <3> QED
      BY <3>1, <3>3, <3>4
  <2> QED
    BY <1>2, <1>3, <2>1, <2>2, <2>3
<1>8. Outcome'
  BY <1>1, <1>3 DEF SortInv, Outcome, Kept
<1> QED
  BY <1>1, <1>4, <1>5, <1>6, <1>7, <1>8 DEF SortInv

LEMMA VisitChildStep ==
  ASSUME SortInv, visitChild
  PROVE  SortInv'
<1> DEFINE node == TopChildren[Top.next]
<1>1. /\ stack # <<>> /\ Top.next \in DOMAIN TopChildren /\ Kept /\ todo' = todo
      /\ result = "sorting"
  BY DEF visitChild, Kept
<1>2. CASE node = NoName \/ node \in visited \/ (node \notin on_stack /\ node \notin Records)
  <2>1. Settled(node)
    BY <1>2, NoNameNoRecord DEF Settled, SortInv
  <2>2. CASE node = NoName
    BY <1>1, <2>1, <2>2, ChildPassed DEF visitChild
  <2>3. CASE node # NoName
    <3>1. stack' = Advanced /\ UNCHANGED <<on_stack, result>>
      BY <1>2, <2>3 DEF visitChild, Enter, SortInv, SortTypeOK
    <3> QED
      BY <1>1, <2>1, <3>1, ChildPassed
  <2> QED
    BY <2>2, <2>3
<1>3. CASE node # NoName /\ node \notin visited /\ node \in on_stack
  <2>1. result' = "cyclic" /\ UNCHANGED <<stack, on_stack>>
    BY <1>3 DEF visitChild, Enter
  <2>2. Promise!Cyclic
    BY <1>1, <1>3, RingFound DEF SortInv
  <2>3. SortedNames' /\ NoRing' /\ Records' = Records
    BY <1>1, KeptParts
  <2>4. Promise!Cyclic'
    BY <1>1, <2>2, KeptParts
  <2> QED
    BY <1>1, <2>1, <2>3, <2>4
    DEF SortInv, SortTypeOK, Linked, LookedAt, Settled, StackNames, Outcome, Kept
<1>4. CASE node # NoName /\ node \notin visited \cup on_stack /\ node \in Records
  <2>1. /\ stack' = Append(Advanced, [name |-> node, next |-> 1])
        /\ on_stack' = on_stack \cup {node} /\ result' = result
    BY <1>4 DEF visitChild, Enter
  <2> QED
    BY <1>1, <1>4, <2>1, ChildEntered
<1> QED
  BY <1>2, <1>3, <1>4

-----------------------------------------------------------------------------
(* The end of a call *)

LEMMA VisitReturnsStep ==
  ASSUME SortInv, visitReturns
  PROVE  SortInv'
<1> DEFINE top == Len(stack)
           name == Top.name
<1>1. /\ stack # <<>> /\ Top.next \notin DOMAIN TopChildren
      /\ UNCHANGED <<children, todo, result>> /\ result = "sorting"
      /\ visited' = visited \cup {name} /\ on_stack' = on_stack \ {name}
      /\ sorted' = Append(sorted, name)
      /\ stack' = SubSeq(stack, 1, top - 1)
  BY DEF visitReturns, Returns
<1>2. /\ DOMAIN stack = 1..top /\ top \in Nat /\ top \in DOMAIN stack
      /\ stack[top] = Top
      /\ \A i \in DOMAIN stack : stack[i] \in Frame /\ stack[i].name \in Records
  BY <1>1, FramesTyped DEF SortInv, Top
<1>3. /\ DOMAIN stack' = 1..(top - 1) /\ stack' \in Seq(Frame) /\ Len(stack') = top - 1
      /\ \A i \in DOMAIN stack' : stack'[i] = stack[i] /\ i \in DOMAIN stack /\ i # top
  <2> HIDE DEF top
  <2> QED
    BY <1>1, <1>2 DEF SortInv, SortTypeOK
<1> HIDE DEF top
<1>4. /\ name \in Records /\ name \in on_stack /\ name \notin visited
      /\ \A i \in DOMAIN stack : i # top => stack[i].name # name
  BY <1>2 DEF SortInv, StackNames
<1>5. \A n \in Needs(name) : n \in visited
  <2> SUFFICES ASSUME NEW k \in DOMAIN children[name], children[name][k] \in Records
               PROVE  children[name][k] \in visited
    BY DEF Needs, Promise!Needs, Promise!Mentions, Promise!Records, Records
  <2>1. children[name] \in Seq(Names \cup {NoName}) /\ Top.next \in Nat \ {0}
    BY <1>2, <1>4, ChildrenTyped DEF SortInv, Frame
  <2>2. k < Top.next
    BY <1>1, <2>1 DEF TopChildren
  <2>3. top + 1 \notin DOMAIN stack
    BY <1>2
  <2> QED
    BY <1>2, <2>2, <2>3 DEF SortInv, LookedAt, Settled
<1>6. Records' = Records /\ \A n : Needs(n)' = Needs(n)
  BY <1>1 DEF Records, Needs, Promise!Needs, Promise!Mentions, Promise!Records
<1>7. /\ sorted' \in Seq(Records) /\ DOMAIN sorted = 1..Len(sorted) /\ Len(sorted) \in Nat
      /\ DOMAIN sorted' = 1..(Len(sorted) + 1)
      /\ \A i \in DOMAIN sorted : sorted'[i] = sorted[i]
      /\ sorted'[Len(sorted) + 1] = name
  BY <1>1, <1>4 DEF SortInv, SortTypeOK
<1> HIDE DEF name
<1>8. SortTypeOK'
  BY <1>1, <1>3, <1>4, <1>6, <1>7 DEF SortInv, SortTypeOK
<1>9. Linked'
  BY <1>1, <1>2, <1>3 DEF SortInv, Linked
<1>10. LookedAt'
  <2> SUFFICES ASSUME NEW i \in DOMAIN stack', NEW k \in DOMAIN children'[stack'[i].name],
                      k < stack'[i].next, ~Settled(children[stack[i].name][k])'
               PROVE  k = stack'[i].next - 1 /\ i + 1 \in DOMAIN stack'
    BY DEF LookedAt
  <2> DEFINE node == children[stack[i].name][k]
  <2>0. /\ k \in DOMAIN children[stack[i].name] /\ k < stack[i].next
        /\ node \in Records /\ node \notin visited'
    BY <1>1, <1>3, <1>6 DEF Settled
  <2>1. k = stack[i].next - 1 /\ i + 1 \in DOMAIN stack
    BY <1>1, <1>3, <2>0 DEF SortInv, LookedAt, Settled
  <2>2. node = stack[i + 1].name
    BY <1>3, <2>1 DEF SortInv, Linked
  <2>3. i + 1 # top
    BY <1>1, <1>2, <2>0, <2>2 DEF name
  <2> QED
    BY <1>2, <1>3, <2>1, <2>3
<1>11. StackNames'
  <2>1. on_stack' = {stack'[i].name : i \in DOMAIN stack'}
    <3>1. \A i \in DOMAIN stack : i # top => i \in DOMAIN stack'
      BY <1>2, <1>3
    <3>2. ASSUME NEW i \in DOMAIN stack' PROVE stack'[i].name \in on_stack'
      BY <1>1, <1>3, <1>4 DEF SortInv, StackNames
    <3>3. ASSUME NEW n \in on_stack' PROVE \E i \in DOMAIN stack' : stack'[i].name = n
      <4>1. PICK i \in DOMAIN stack : stack[i].name = n
        BY <1>1 DEF SortInv, StackNames
      <4>2. i # top
        BY <1>1, <1>2, <4>1 DEF name
      <4> QED
        BY <1>3, <3>1, <4>1, <4>2
    <3> QED
      BY <3>2, <3>3
  <2>2. \A i, j \in DOMAIN stack' : stack'[i].name = stack'[j].name => i = j
    BY <1>3 DEF SortInv, StackNames
  <2>3. visited' \cap on_stack' = {}
    BY <1>1 DEF SortInv, StackNames
  <2> QED
    BY <2>1, <2>2, <2>3 DEF StackNames
<1>12. SortedNames'
  <2>1. visited' = {sorted'[i] : i \in DOMAIN sorted'}
    BY <1>1, <1>7 DEF SortInv, SortedNames
  <2>2. Promise!Once(sorted)'
    BY <1>4, <1>7 DEF SortInv, SortedNames, Promise!Once
  <2>3. \A j \in DOMAIN sorted' : \A n \in Needs(sorted'[j]) :
          \E i \in DOMAIN sorted' : i < j /\ sorted'[i] = n
    <3>1. ASSUME NEW j \in DOMAIN sorted, NEW n \in Needs(sorted'[j])
          PROVE  \E i \in DOMAIN sorted' : i < j /\ sorted'[i] = n
      BY <1>7, <3>1 DEF SortInv, SortedNames, Promise!ChildrenFirst, Needs
    <3>2. ASSUME NEW n \in Needs(name)
          PROVE  \E i \in DOMAIN sorted' : i < Len(sorted) + 1 /\ sorted'[i] = n
      BY <1>5, <1>7, <3>2 DEF SortInv, SortedNames
    <3>3. \A j \in DOMAIN sorted' :
            j \in DOMAIN sorted \/ (j = Len(sorted) + 1 /\ sorted'[j] = name)
      BY <1>7
    <3> QED
      BY <3>1, <3>2, <3>3
  <2>4. Promise!ChildrenFirst(sorted)'
    BY <1>6, <2>3 DEF Promise!ChildrenFirst, Needs
  <2> QED
    BY <2>1, <2>2, <2>4 DEF SortedNames
<1>13. NoRing'
  <2> SUFFICES ASSUME NEW names \in SUBSET visited', Promise!Ring(names)' PROVE FALSE
    BY DEF NoRing
  <2>1. names # {} /\ \A n \in names : \E m \in names : m \in Needs(n)
    BY <1>6 DEF Promise!Ring, Needs
  <2>2. \A n \in visited : \A m \in Needs(n) : m \in visited
    BY DEF SortInv, SortedNames, Promise!ChildrenFirst, Needs
  <2>3. \A n \in names \ {name} : \E m \in names \ {name} : m \in Needs(n)
    BY <1>1, <1>4, <2>1, <2>2
  <2>4. CASE names \ {name} = {}
    BY <1>4, <1>5, <2>1, <2>4
  <2>5. CASE names \ {name} # {}
    <3>1. names \ {name} \in SUBSET visited
      BY <1>1
    <3>2. Promise!Ring(names \ {name})
      BY <2>3, <2>5 DEF Promise!Ring, Needs
    <3> QED
      BY <3>1, <3>2 DEF SortInv, NoRing
  <2> QED
    BY <2>4, <2>5
<1>14. Outcome'
  BY <1>1, <1>4, <1>6 DEF SortInv, Outcome
<1> QED
  BY <1>8, <1>9, <1>10, <1>11, <1>12, <1>13, <1>14 DEF SortInv

LEMMA SortReturnsStep ==
  ASSUME SortInv, sortReturns
  PROVE  SortInv'
<1>1. Kept /\ UNCHANGED <<todo, stack, on_stack>> /\ result' = "sorted" /\ stack = <<>> /\ todo = {}
  BY DEF sortReturns, Kept
<1>2. SortedNames' /\ NoRing' /\ Records' = Records
  BY <1>1, KeptParts
<1> QED
  BY <1>1, <1>2 DEF SortInv, SortTypeOK, Linked, LookedAt, Settled, StackNames, Outcome, Kept

LEMMA SortInvInit == SortInit => SortInv
<1> SUFFICES ASSUME SortInit PROVE SortInv
  OBVIOUS
<1>1. PICK data \in SUBSET Names : children \in [data -> Lists] /\ todo = data
  BY DEF SortInit
<1>2. Records = data
  BY <1>1 DEF Records
<1>3. SortTypeOK
  BY <1>1, <1>2 DEF SortInit, SortTypeOK
<1>4. NoRing
  BY DEF SortInit, NoRing, Promise!Ring
<1> QED
  BY <1>1, <1>2, <1>3, <1>4
  DEF SortInit, SortInv, Linked, LookedAt, StackNames, SortedNames, Outcome,
      Promise!Once, Promise!ChildrenFirst

LEMMA SortInvStep == SortInv /\ [SortNext]_sortVars => SortInv'
<1> SUFFICES ASSUME SortInv, [SortNext]_sortVars PROVE SortInv'
  OBVIOUS
<1>1. CASE UNCHANGED sortVars
  <2>1. Kept /\ UNCHANGED <<todo, stack, on_stack, result>>
    BY <1>1 DEF sortVars, Kept
  <2>2. /\ SortedNames' /\ NoRing' /\ Records' = Records
        /\ Promise!Cyclic => Promise!Cyclic'
    BY <2>1, KeptParts
  <2> QED
    BY <2>1, <2>2 DEF SortInv, SortTypeOK, Linked, LookedAt, Settled, StackNames, Outcome, Kept
<1>2. CASE SortNext
  BY <1>2, VisitNextStep, VisitChildStep, VisitReturnsStep, SortReturnsStep DEF SortNext
<1> QED
  BY <1>1, <1>2

LEMMA SortInvariant == SortSpec => []SortInv
BY SortInvInit, SortInvStep, PTL DEF SortSpec

\* The variables of the search keep their shape.
THEOREM SortTypeCorrect == SortSpec => []SortTypeOK
BY SortInvariant, PTL DEF SortInv

-----------------------------------------------------------------------------
(* The search implements the promise *)

\* Nothing left to visit: what was appended is an order, and there is no ring.
LEMMA SortedIsOrder ==
  ASSUME SortInv, stack = <<>>, todo = {}
  PROVE  Promise!IsOrder(sorted) /\ ~Promise!Cyclic
<1>1. Records = visited
  BY DEF SortInv, Outcome, StackNames
<1> QED
  BY <1>1 DEF SortInv, SortTypeOK, SortedNames, NoRing, Promise!IsOrder, Promise!Cyclic,
              Promise!Records, Records

\* For every set of records, whatever they mention, and for every order of the hash
\* map: an order with each record once and after its sub-features if there is one,
\* an exception if there is none (topologicalSort).
THEOREM SortCorrect == SortSpec => SortsAsPromised
<1>1. SortInit => Promise!PromiseInit
  BY DEF SortInit, Promise!PromiseInit, Answered
<1>2. SortInv /\ [SortNext]_sortVars => [Promise!PromiseNext]_<<children, result, Answered>>
  <2> SUFFICES ASSUME SortInv, [SortNext]_sortVars
               PROVE  Promise!PromiseNext \/ UNCHANGED <<children, result, Answered>>
    OBVIOUS
  <2>1. CASE UNCHANGED sortVars
    BY <2>1 DEF sortVars, Answered
  <2>2. CASE result = "sorting" /\ result' = "sorting" /\ children' = children
    BY <2>2 DEF Answered
  <2>3. CASE visitReturns
    BY <2>2, <2>3 DEF visitReturns
  <2>4. CASE sortReturns
    <3>1. /\ result = "sorting" /\ result' = "sorted" /\ UNCHANGED <<children, sorted>>
          /\ stack = <<>> /\ todo = {}
      BY <2>4 DEF sortReturns
    <3>2. Promise!IsOrder(sorted) /\ ~Promise!Cyclic
      BY <3>1, SortedIsOrder
    <3>3. Answered' = sorted
      BY <3>1 DEF Answered
    <3>4. Promise!Answer
      BY <3>1, <3>2, <3>3
      DEF Promise!Answer, Promise!IsOrder, Promise!Once, Promise!ChildrenFirst, Promise!Needs,
          Promise!Mentions, Promise!Records
    <3> QED
      BY <3>4 DEF Promise!PromiseNext
  <2>5. CASE visitNext \/ visitChild
    <3>1. result = "sorting" /\ children' = children /\ result' \in {"sorting", "cyclic"}
      BY <2>5 DEF visitNext, visitChild, Enter
    <3>2. CASE result' = "cyclic"
      <4>1. SortInv'
        BY SortInvStep
      <4>2. Promise!Cyclic'
        BY <3>2, <4>1 DEF SortInv, Outcome
      <4>3. Promise!Cyclic
        BY <2>5, <4>2, KeptParts DEF Kept, visitNext, visitChild
      <4> QED
        BY <3>1, <3>2, <4>3 DEF Promise!PromiseNext, Promise!Throw, Answered
    <3> QED
      BY <2>2, <3>1, <3>2
  <2> QED
    BY <2>1, <2>3, <2>4, <2>5 DEF SortNext
<1> QED
  BY <1>1, <1>2, SortInvariant, PTL DEF SortSpec, SortsAsPromised, Promise!PromiseSpec

-----------------------------------------------------------------------------
(* Process *)

\* What each place of the parent and each state of the child mean for the pipe
Ends ==
  /\ parent \in {"idle", "waiting", "returned"} => ends["parent"] = {}
  /\ parent = "forked" => ends["parent"] = {"read", "write"}
  /\ parent = "reading" => ends["parent"] = {"read"}
  /\ child = "forked" => ends["child"] = {"read", "write"}
  /\ child = "running" => ends["child"] = {"write"}
  /\ child \in {"zombie", "none"} => ends["child"] = {}

\* A parent that waits has seen the end of the pipe, so the child has exited.
Order ==
  /\ parent \in {"idle", "returned", "threw"} => child = "none"
  /\ parent \in {"forked", "reading"} => child # "none"
  /\ parent = "waiting" => child = "zombie" /\ inPipe = 0
  /\ child = "zombie" => status # NoCode
  /\ parent = "returned" => inPipe = 0 /\ exit_code = status /\ status # NoCode
  /\ output + inPipe = written

ProcessInv == ProcessTypeOK /\ Ends /\ Order

LEMMA ProcessInvInit == ProcessInit => ProcessInv
BY ProcessAssumption
DEF ProcessInit, ProcessInv, ProcessTypeOK, Ends, Order, NoEnds

LEMMA ProcessInvStep == ProcessInv /\ [ProcessNext]_processVars => ProcessInv'
<1> SUFFICES ASSUME ProcessInv, [ProcessNext]_processVars PROVE ProcessInv'
  OBVIOUS
<1> USE ProcessAssumption DEF ProcessInv, ProcessTypeOK, Ends, Order, pipeVars
<1>1. CASE UNCHANGED processVars
  BY <1>1 DEF processVars
<1>2. CASE runProcess
  BY <1>2 DEF runProcess, NoEnds
<1>3. CASE closeWriteEnd
  BY <1>3 DEF closeWriteEnd
<1>4. CASE read
  BY <1>4 DEF read
<1>5. CASE readEnd
  <2>1. child = "zombie"
    BY <1>5 DEF readEnd, Writers
  <2> QED
    BY <1>5, <2>1 DEF readEnd
<1>6. CASE waitpid
  BY <1>6 DEF waitpid
<1>7. CASE execvp
  BY <1>7 DEF execvp
<1>8. CASE execvpFails
  BY <1>8 DEF execvpFails, Exits
<1>9. CASE print
  BY <1>9 DEF print
<1>10. CASE exit
  BY <1>10 DEF exit, Exits
<1> QED
  BY <1>1, <1>2, <1>3, <1>4, <1>5, <1>6, <1>7, <1>8, <1>9, <1>10
  DEF ProcessNext, Parent, Child

LEMMA ReturnsWholeFollows == ProcessInv => ReturnsWhole
BY DEF ProcessInv, ProcessTypeOK, Ends, Order, ReturnsWhole, NoEnds

\* runProcess returns with all that was printed and leaves nothing behind, whatever
\* the pipe holds and the program prints.
THEOREM ReturnsWholeCorrect == ProcessSpec => []ReturnsWhole
BY ProcessInvInit, ProcessInvStep, ReturnsWholeFollows, PTL DEF ProcessSpec

-----------------------------------------------------------------------------
(* Loading *)

Taken == {sorted[i] : i \in 1..attempted}

\* Of the records taken so far, what is deployed
LoadedSoFar ==
  /\ deployed \subseteq Taken /\ failed \subseteq Taken
  /\ \A name \in Taken :
       name \in deployed <=> name \notin failed /\ FirstSubFeature(name) \subseteq deployed
  /\ success <=> Taken \subseteq deployed

LoadingInv ==
  /\ SortInv /\ LoadingTypeOK
  /\ load = "sort" => attempted = 0
  /\ load \in {"next", "compile", "done"} => result = "sorted" /\ LoadedSoFar
  /\ load = "sort" => deployed = {} /\ failed = {} /\ success
  /\ load = "compile" => attempted < Len(sorted) /\ FirstSubFeature(Record) \subseteq deployed
  /\ load = "done" => attempted = Len(sorted)

\* The record to be taken next is new, and nothing taken before leans on it.
LEMMA RecordIsNext ==
  ASSUME SortInv, attempted \in 0..Len(sorted), attempted < Len(sorted)
  PROVE  /\ Record \in Records /\ Record \notin Taken
         /\ attempted + 1 \in 0..Len(sorted)
         /\ {sorted[i] : i \in 1..(attempted + 1)} = Taken \cup {Record}
         /\ \A name \in Taken : Record \notin FirstSubFeature(name)
<1>1. sorted \in Seq(Records) /\ Len(sorted) \in Nat /\ DOMAIN sorted = 1..Len(sorted)
  BY DEF SortInv, SortTypeOK
<1>2. attempted + 1 \in DOMAIN sorted /\ \A i \in 1..attempted : i \in DOMAIN sorted /\ i # attempted + 1
  BY <1>1
<1>3. Record \in Records /\ Record \notin Taken
  BY <1>1, <1>2 DEF Record, Taken, SortInv, SortedNames, Promise!Once
<1>4. ASSUME NEW i \in 1..attempted, Record \in FirstSubFeature(sorted[i]) PROVE FALSE
  <2>1. sorted[i] \in Records
    BY <1>1, <1>2
  <2>2. Record \in Needs(sorted[i])
    BY <1>3, <1>4, <2>1, ChildrenTyped DEF FirstSubFeature, SortInv
  <2>3. PICK j \in DOMAIN sorted : j < i /\ sorted[j] = Record
    BY <1>2, <2>2 DEF SortInv, SortedNames, Promise!ChildrenFirst, Needs
  <2>4. j \in 1..attempted
    BY <1>1, <2>3
  <2> QED
    BY <1>3, <2>3, <2>4 DEF Taken
<1>5. {sorted[i] : i \in 1..(attempted + 1)} = Taken \cup {Record}
  <2>1. \A i \in 1..(attempted + 1) : i \in 1..attempted \/ i = attempted + 1
    BY <1>1
  <2>2. 1..attempted \subseteq 1..(attempted + 1) /\ attempted + 1 \in 1..(attempted + 1)
    BY <1>1
  <2> QED
    BY <2>1, <2>2 DEF Taken, Record
<1>6. attempted + 1 \in 0..Len(sorted)
  BY <1>1
<1>7. \A name \in Taken : Record \notin FirstSubFeature(name)
  BY <1>4 DEF Taken
<1> QED
  BY <1>3, <1>5, <1>6, <1>7

\* The two ways a record is done with
LEMMA RecordTaken ==
  ASSUME LoadingInv, load \in {"next", "compile"}, attempted < Len(sorted),
         attempted' = attempted + 1, UNCHANGED sortVars,
         \/ /\ deployed' = deployed \cup {Record} /\ UNCHANGED <<success, failed>>
            /\ FirstSubFeature(Record) \subseteq deployed
         \/ /\ UNCHANGED deployed /\ success' = FALSE
            /\ \/ failed' = failed \cup {Record}
               \/ failed' = failed /\ ~(FirstSubFeature(Record) \subseteq deployed)
  PROVE  /\ LoadedSoFar' /\ attempted' \in 0..Len(sorted) /\ success' \in BOOLEAN
         /\ deployed' \subseteq Records /\ failed' \subseteq Records
<1>1. /\ Record \in Records /\ Record \notin Taken /\ attempted' \in 0..Len(sorted)
      /\ Taken' = Taken \cup {Record}
      /\ \A name \in Taken : Record \notin FirstSubFeature(name)
  BY RecordIsNext DEF LoadingInv, LoadingTypeOK, Taken, sortVars
<1>2. LoadedSoFar /\ deployed \subseteq Records /\ failed \subseteq Records /\ success \in BOOLEAN
  BY DEF LoadingInv, LoadingTypeOK
<1>3. \A name : FirstSubFeature(name)' = FirstSubFeature(name)
  BY DEF FirstSubFeature, sortVars
<1>4. \A name \in Taken :
        FirstSubFeature(name) \subseteq deployed' <=> FirstSubFeature(name) \subseteq deployed
  BY <1>1
<1>5. FirstSubFeature(Record) \subseteq deployed <=> FirstSubFeature(Record) \subseteq deployed'
  BY <1>1
<1>6. deployed' \subseteq Taken' /\ failed' \subseteq Taken'
  BY <1>1, <1>2 DEF LoadedSoFar
<1>7. success' <=> Taken' \subseteq deployed'
  BY <1>1, <1>2 DEF LoadedSoFar
<1>8. ASSUME NEW name \in Taken'
      PROVE  name \in deployed' <=>
               name \notin failed' /\ FirstSubFeature(name) \subseteq deployed'
  <2>1. CASE name = Record
    BY <1>1, <1>2, <1>5, <2>1 DEF LoadedSoFar
  <2>2. CASE name \in Taken /\ name # Record
    <3>1. name \in deployed' <=> name \in deployed
      BY <2>2
    <3>2. name \in failed' <=> name \in failed
      BY <2>2
    <3> QED
      BY <1>2, <1>4, <2>2, <3>1, <3>2 DEF LoadedSoFar
  <2> QED
    BY <1>1, <2>1, <2>2
<1>9. LoadedSoFar'
  BY <1>3, <1>6, <1>7, <1>8 DEF LoadedSoFar
<1> QED
  BY <1>1, <1>2, <1>9

LEMMA LoadingInvInit == LoadingInit => LoadingInv
<1> SUFFICES ASSUME LoadingInit PROVE LoadingInv
  OBVIOUS
<1>1. SortInv /\ ProcessInv
  BY SortInvInit, ProcessInvInit DEF LoadingInit
<1>2. Len(sorted) = 0
  BY DEF LoadingInit, SortInit
<1> QED
  BY <1>1, <1>2 DEF LoadingInit, LoadingInv, LoadingTypeOK, ProcessInv, SortInv

\* While the sort is over nothing of it changes, and the records taken stay the same.
LEMMA SameRecords ==
  ASSUME LoadingInv, UNCHANGED <<sortVars, attempted, success, deployed, failed>>
  PROVE  /\ SortInv' /\ (LoadedSoFar => LoadedSoFar') /\ Record' = Record
         /\ FirstSubFeature(Record)' = FirstSubFeature(Record)
<1>1. SortInv'
  BY SortInvStep DEF LoadingInv
<1>2. /\ Taken' = Taken /\ Record' = Record
      /\ \A name : FirstSubFeature(name)' = FirstSubFeature(name)
      /\ FirstSubFeature(Record)' = FirstSubFeature(Record)
  BY DEF sortVars, Taken, Record, FirstSubFeature
<1> QED
  BY <1>1, <1>2 DEF LoadedSoFar

LEMMA LoadingInvStep ==
  LoadingInv /\ ProcessInv /\ [LoadingNext]_loadingVars => LoadingInv' /\ ProcessInv'
<1> SUFFICES ASSUME LoadingInv, ProcessInv, [LoadingNext]_loadingVars
             PROVE  LoadingInv' /\ ProcessInv'
  OBVIOUS
<1>1. ProcessInv'
  <2>1. [ProcessNext]_processVars
    BY DEF LoadingNext, Loads, nothingStored, sort, sortDone, deployFeature, compile, compileThrows, compiled,
           loaded, loadingVars, ProcessNext
  <2> QED
    BY <2>1, ProcessInvStep
<1>2. ProcessTypeOK'
  BY <1>1 DEF ProcessInv
<1>3. sorted \in Seq(Records) /\ Len(sorted) \in Nat /\ attempted \in 0..Len(sorted)
  BY DEF LoadingInv, LoadingTypeOK, SortInv, SortTypeOK
<1>4. CASE UNCHANGED loadingVars
  <2>1. UNCHANGED <<sortVars, attempted, success, deployed, failed>> /\ load' = load
    BY <1>4 DEF loadingVars, loadVars
  <2>2. SortTypeOK'
    BY <2>1, SameRecords DEF SortInv
  <2> QED
    BY <1>1, <1>2, <2>1, <2>2, SameRecords DEF LoadingInv, LoadingTypeOK, sortVars, Records
<1>5. CASE sort
  <2>1. SortInv'
    BY <1>5, SortInvStep DEF sort, LoadingInv
  <2>2. Records' = Records
    BY <1>5 DEF sort, SortNext, visitNext, visitChild, visitReturns, sortReturns, Records
  <2>3. Len(sorted') \in Nat
    BY <2>1 DEF SortInv, SortTypeOK
  <2> QED
    BY <1>1, <1>2, <1>5, <2>1, <2>2, <2>3 DEF sort, LoadingInv, LoadingTypeOK, SortInv, loadVars
<1>6. CASE sortDone
  <2>1. UNCHANGED <<sortVars, attempted, success, deployed, failed>> /\ load = "sort"
        /\ load' \in {"next", "threw"} /\ (load' = "next" => result = "sorted")
    BY <1>6 DEF sortDone
  <2>2. LoadedSoFar
    BY <2>1 DEF LoadingInv, LoadedSoFar, Taken
  <2>3. SortTypeOK'
    BY <2>1, SameRecords DEF SortInv
  <2> QED
    BY <1>1, <1>2, <2>1, <2>2, <2>3, SameRecords
    DEF LoadingInv, LoadingTypeOK, sortVars, Records
<1>7. ASSUME load \in {"next", "compile"}, attempted < Len(sorted), load' = "next",
             attempted' = attempted + 1, UNCHANGED sortVars,
             \/ /\ deployed' = deployed \cup {Record} /\ UNCHANGED <<success, failed>>
                /\ FirstSubFeature(Record) \subseteq deployed
             \/ /\ UNCHANGED deployed /\ success' = FALSE
                /\ \/ failed' = failed \cup {Record}
                   \/ failed' = failed /\ ~(FirstSubFeature(Record) \subseteq deployed)
      PROVE  LoadingInv'
  <2>1. /\ LoadedSoFar' /\ attempted' \in 0..Len(sorted) /\ success' \in BOOLEAN
        /\ deployed' \subseteq Records /\ failed' \subseteq Records
    BY <1>7, RecordTaken
  <2>2. SortInv' /\ Records' = Records /\ sorted' = sorted /\ result' = result
    BY <1>7, SortInvStep DEF LoadingInv, sortVars, Records
  <2> QED
    BY <1>2, <1>7, <2>1, <2>2 DEF LoadingInv, LoadingTypeOK, SortInv
<1>8. ASSUME UNCHANGED sortVars, load' = "threw", attempted < Len(sorted),
             UNCHANGED <<attempted, success, deployed>>, failed' = failed \cup {Record}
      PROVE  LoadingInv'
  <2>1. Record \in Records
    BY <1>3, <1>8, RecordIsNext DEF LoadingInv
  <2>2. SortInv' /\ Records' = Records /\ sorted' = sorted
    BY <1>8, SortInvStep DEF LoadingInv, sortVars, Records
  <2> QED
    BY <1>2, <1>8, <2>1, <2>2 DEF LoadingInv, LoadingTypeOK, SortInv
<1>9. CASE deployFeature
  <2>1. load = "next" /\ attempted < Len(sorted) /\ UNCHANGED sortVars
    BY <1>9 DEF deployFeature
  <2>2. CASE Refused(Record)
    BY <1>1, <1>7, <1>9, <2>1, <2>2 DEF deployFeature, Refused
  <2>3. CASE load' = "threw"
    BY <1>1, <1>8, <1>9, <2>1, <2>3 DEF deployFeature, Refused
  <2>4. CASE ~Refused(Record) /\ load' # "threw"
    <3>1. /\ load' = "compile" /\ FirstSubFeature(Record) \subseteq deployed
          /\ UNCHANGED <<attempted, success, deployed, failed>>
      BY <1>9, <2>4 DEF deployFeature
    <3>2. SortTypeOK'
      BY <2>1, <3>1, SameRecords DEF SortInv
    <3> QED
      BY <1>1, <1>2, <2>1, <3>1, <3>2, SameRecords
      DEF LoadingInv, LoadingTypeOK, sortVars, Records
  <2> QED
    BY <2>2, <2>3, <2>4
<1>10. CASE compile
  <2>1. UNCHANGED <<sortVars, attempted, success, deployed, failed>> /\ load' = load
    BY <1>10 DEF compile, loadVars
  <2>2. SortTypeOK'
    BY <2>1, SameRecords DEF SortInv
  <2> QED
    BY <1>1, <1>2, <2>1, <2>2, SameRecords DEF LoadingInv, LoadingTypeOK, sortVars, Records
<1>11. CASE compileThrows
  BY <1>1, <1>8, <1>11 DEF compileThrows, LoadingInv
<1>12. CASE compiled
  BY <1>1, <1>7, <1>12 DEF compiled, Refused, LoadingInv
<1>13. CASE loaded
  <2>1. UNCHANGED <<sortVars, attempted, success, deployed, failed>> /\ load = "next"
        /\ load' = "done" /\ attempted = Len(sorted)
    BY <1>13 DEF loaded
  <2>2. SortTypeOK'
    BY <2>1, SameRecords DEF SortInv
  <2> QED
    BY <1>1, <1>2, <2>1, <2>2, SameRecords DEF LoadingInv, LoadingTypeOK, sortVars, Records
<1>14. CASE nothingStored
  <2>1. /\ UNCHANGED <<sortVars, attempted, deployed, failed>> /\ load' = "empty"
        /\ success' = FALSE
    BY <1>14 DEF nothingStored
  <2>2. SortInv' /\ SortTypeOK' /\ Records' = Records /\ sorted' = sorted
    BY <2>1, SortInvStep DEF LoadingInv, sortVars, Records, SortInv
  <2> QED
    BY <1>1, <1>2, <2>1, <2>2 DEF LoadingInv, LoadingTypeOK
<1> QED
  BY <1>1, <1>4, <1>5, <1>6, <1>9, <1>10, <1>11, <1>12, <1>13, <1>14 DEF LoadingNext, Loads

LEMMA LoadingInvariant == LoadingSpec => [](LoadingInv /\ ProcessInv)
<1>1. LoadingInit => LoadingInv /\ ProcessInv
  BY LoadingInvInit, ProcessInvInit DEF LoadingInit
<1> QED
  BY <1>1, LoadingInvStep, PTL DEF LoadingSpec

\* Type correctness of the load, the sort and the compiler in it
THEOREM LoadingTypeCorrect == LoadingSpec => []LoadingTypeOK
<1>1. LoadingInv => LoadingTypeOK
  BY DEF LoadingInv
<1> QED
  BY <1>1, LoadingInvariant, PTL

\* Whatever is stored, a load that comes to its end leaves out no record that could
\* have been deployed, and reports whether it left out any.
THEOREM NoneLeftOutCorrect == LoadingSpec => []NoneLeftOut
<1>1. LoadingInv => NoneLeftOut
  <2> SUFFICES ASSUME LoadingInv, load = "done" PROVE NoneLeftOut
    BY DEF NoneLeftOut
  <2>1. LoadedSoFar /\ result = "sorted" /\ attempted = Len(sorted)
    BY DEF LoadingInv
  <2>2. sorted \in Seq(Records) /\ DOMAIN sorted = 1..attempted
    BY <2>1 DEF LoadingInv, SortInv, SortTypeOK
  <2>3. visited = Records
    BY <2>1 DEF LoadingInv, SortInv, Outcome, StackNames
  <2>4. Taken = Records
    BY <2>2, <2>3 DEF LoadingInv, SortInv, SortedNames, Taken
  <2> QED
    BY <2>1, <2>4 DEF LoadedSoFar, NoneLeftOut, LoadingInv, LoadingTypeOK
<1> QED
  BY <1>1, LoadingInvariant, PTL

\* In the composition as well: every compiler of a load is read to its end and waited for.
THEOREM CompilersWhole == LoadingSpec => []ReturnsWhole
BY LoadingInvariant, ReturnsWholeFollows, PTL

-----------------------------------------------------------------------------
(***************************************************************************)
(* Everything comes to its end: there is a measure that each step lowers,  *)
(* and while it is not over some step can be taken.                        *)
(***************************************************************************)

(* runProcess *)

\* The steps that are left of a run: those of the parent, those of the child, what is
\* still to be printed (and read), and what is in the pipe.
ParentLeft ==
  [idle |-> 0, forked |-> 3, reading |-> 2, waiting |-> 1, returned |-> 0, threw |-> 0]

ChildLeft == [none |-> 0, forked |-> 3, running |-> 2, zombie |-> 1]

RunLeft == ParentLeft[parent] + ChildLeft[child] + 2 * (MaxOutput - written) + inPipe

\* Parent and child never both wait for the other: a guard of one of them holds.
RunGoesOn ==
  \/ parent = "forked"
  \/ parent = "reading" /\ (inPipe > 0 \/ Writers = {} \/ child \in {"forked", "running"})
  \/ parent = "waiting" /\ child = "zombie"

WithinBound == written <= MaxOutput /\ (child = "forked" => written = 0)

LEMMA WithinBoundInit == ProcessInit => WithinBound
BY ProcessAssumption DEF ProcessInit, WithinBound

LEMMA WithinBoundStep ==
  ProcessInv /\ WithinBound /\ [ProcessNext]_processVars => WithinBound'
<1> SUFFICES ASSUME ProcessInv, WithinBound, [ProcessNext]_processVars PROVE WithinBound'
  OBVIOUS
<1> USE ProcessAssumption DEF ProcessInv, ProcessTypeOK, WithinBound, pipeVars
<1>1. CASE UNCHANGED processVars
  BY <1>1 DEF processVars
<1>2. CASE runProcess
  BY <1>2 DEF runProcess
<1>3. CASE Parent
  BY <1>3 DEF Parent, closeWriteEnd, read, readEnd, waitpid
<1>4. CASE Child
  BY <1>4 DEF Child, execvp, execvpFails, print, exit, Exits
<1> QED
  BY <1>1, <1>2, <1>3, <1>4 DEF ProcessNext

LEMMA RunMeasured ==
  ASSUME ProcessInv, WithinBound
  PROVE  /\ RunLeft \in Nat
         /\ parent \in {"forked", "reading", "waiting"} => RunGoesOn
<1>1. RunLeft \in Nat
  <2>1. ParentLeft[parent] \in Nat
    BY DEF ProcessInv, ProcessTypeOK, ParentLeft
  <2>2. ChildLeft[child] \in Nat
    BY DEF ProcessInv, ProcessTypeOK, ChildLeft
  <2>3. inPipe \in Nat /\ written \in Nat /\ written <= MaxOutput /\ MaxOutput \in Nat
    BY ProcessAssumption DEF ProcessInv, ProcessTypeOK, WithinBound
  <2> QED
    BY <2>1, <2>2, <2>3 DEF RunLeft
<1>2. ASSUME parent = "reading"
      PROVE  RunGoesOn
  <2>1. CASE child \in {"zombie", "none"}
    <3>1. ends["parent"] = {"read"} /\ ends["child"] = {}
      BY <1>2, <2>1 DEF ProcessInv, Ends
    <3>2. Writers = {}
      BY <3>1 DEF Writers
    <3> QED
      BY <1>2, <3>2 DEF RunGoesOn
  <2> QED
    BY <1>2, <2>1 DEF ProcessInv, ProcessTypeOK, RunGoesOn
<1>3. ASSUME parent = "waiting"
      PROVE  RunGoesOn
  BY <1>3 DEF ProcessInv, Order, RunGoesOn
<1> QED
  BY <1>1, <1>2, <1>3 DEF RunGoesOn

LEMMA RunStep ==
  ASSUME ProcessInv, WithinBound, Parent \/ Child
  PROVE  RunLeft' < RunLeft
<1>1. /\ inPipe \in Nat /\ written \in Nat /\ MaxOutput \in Nat
      /\ written <= MaxOutput
  BY ProcessAssumption DEF ProcessInv, ProcessTypeOK, WithinBound
<1>2. ParentLeft[parent] \in Nat /\ ChildLeft[child] \in Nat
  BY DEF ProcessInv, ProcessTypeOK, ParentLeft, ChildLeft
<1> DEFINE p == ParentLeft[parent]
           c == ChildLeft[child]
<1>3. ASSUME p' = p - 1, UNCHANGED <<child, inPipe, written>>
      PROVE  RunLeft' < RunLeft
  BY <1>1, <1>2, <1>3 DEF RunLeft
<1>4. ASSUME c' < c, c' \in Nat, UNCHANGED <<parent, inPipe, written>>
      PROVE  RunLeft' < RunLeft
  BY <1>1, <1>2, <1>4 DEF RunLeft
<1>5. CASE closeWriteEnd
  BY <1>3, <1>5 DEF closeWriteEnd, pipeVars, ParentLeft
<1>6. CASE read
  <2>1. PICK n \in 1..inPipe : inPipe' = inPipe - n
    BY <1>6 DEF read
  <2>2. UNCHANGED <<parent, child, written>>
    BY <1>6 DEF read
  <2> QED
    BY <1>1, <1>2, <2>1, <2>2 DEF RunLeft
<1>7. CASE readEnd
  BY <1>3, <1>7 DEF readEnd, pipeVars, ParentLeft
<1>8. CASE waitpid
  <2>1. p = 1 /\ p' = 0 /\ c = 1 /\ c' = 0 /\ UNCHANGED <<inPipe, written>>
    BY <1>8 DEF waitpid, pipeVars, ParentLeft, ChildLeft
  <2> QED
    BY <1>1, <2>1 DEF RunLeft
<1>9. CASE execvp
  BY <1>4, <1>9 DEF execvp, pipeVars, ChildLeft
<1>10. CASE execvpFails
  <2>1. /\ c = 3 /\ c' = 1 /\ p' = p
        /\ inPipe' = inPipe + 1 /\ written' = written + 1
    BY <1>10 DEF execvpFails, Exits, ChildLeft, ParentLeft
  <2> QED
    BY <1>1, <1>2, <2>1 DEF RunLeft
<1>11. CASE print
  <2>1. c' = c /\ p' = p /\ inPipe' = inPipe + 1 /\ written' = written + 1
    BY <1>11 DEF print, ChildLeft, ParentLeft
  <2> QED
    BY <1>1, <1>2, <2>1 DEF RunLeft
<1>12. CASE exit
  BY <1>4, <1>12 DEF exit, Exits, pipeVars, ChildLeft
<1> QED
  BY <1>5, <1>6, <1>7, <1>8, <1>9, <1>10, <1>11, <1>12 DEF Parent, Child

\* A run of a program that does not print for ever ends: neither a full pipe nor an
\* end of it that is held open lets parent and child wait for each other, and each
\* step of either brings the end nearer (runProcess).
THEOREM RunShortens ==
  ProcessSpec =>
    /\ [](/\ RunLeft \in Nat
          /\ parent \in {"forked", "reading", "waiting"} => RunGoesOn)
    /\ [][Parent \/ Child => RunLeft' < RunLeft]_processVars
<1>1. ProcessInit => ProcessInv /\ WithinBound
  BY ProcessInvInit, WithinBoundInit
<1>2. ProcessInv /\ WithinBound /\ [ProcessNext]_processVars => ProcessInv' /\ WithinBound'
  BY ProcessInvStep, WithinBoundStep
<1>3. ProcessInv /\ WithinBound =>
        /\ RunLeft \in Nat
        /\ parent \in {"forked", "reading", "waiting"} => RunGoesOn
  BY RunMeasured
<1>4. ProcessInv /\ WithinBound /\ [ProcessNext]_processVars =>
        [Parent \/ Child => RunLeft' < RunLeft]_processVars
  BY RunStep
<1> QED
  BY <1>1, <1>2, <1>3, <1>4, PTL DEF ProcessSpec

(* topologicalSort *)

\* The order of the dictionary
Lower(less, more) ==
  \E i \in DOMAIN more : less[i] < more[i] /\ \A j \in 1..(i - 1) : less[j] = more[j]

\* What is left of a sort: records that visit has not entered, names that the outer
\* loop has not come to, calls, and children of the call on top.
Unentered == Records \ (visited \cup on_stack)

ChildrenLeft ==
  IF stack # <<>> /\ Top.next \in DOMAIN TopChildren
  THEN Len(TopChildren) + 1 - Top.next ELSE 0

SortLeft ==
  <<IF result = "sorting" THEN 1 ELSE 0, Cardinality(Unentered), Cardinality(todo),
    Len(stack), ChildrenLeft>>

LEMMA SortFinite ==
  ASSUME IsFiniteSet(Names), SortTypeOK
  PROVE  /\ IsFiniteSet(Unentered) /\ Cardinality(Unentered) \in Nat
         /\ IsFiniteSet(todo) /\ Cardinality(todo) \in Nat
<1>1. Unentered \in SUBSET Names /\ todo \in SUBSET Names
  BY DEF SortTypeOK, Unentered
<1> QED
  BY <1>1, FS_Subset, FS_CardinalityType

LEMMA ChildrenCounted ==
  ASSUME SortInv
  PROVE  /\ ChildrenLeft \in Nat
         /\ stack # <<>> =>
              /\ Top \in Frame /\ Top.name \in Records /\ Top.next \in Nat
              /\ DOMAIN TopChildren = 1..Len(TopChildren) /\ Len(TopChildren) \in Nat
<1>1. ASSUME stack # <<>>
      PROVE  /\ Top \in Frame /\ Top.name \in Records /\ Top.next \in Nat
             /\ DOMAIN TopChildren = 1..Len(TopChildren) /\ Len(TopChildren) \in Nat
  <2>1. Top \in Frame /\ Top.name \in Records
    BY <1>1, FramesTyped DEF SortInv, Top
  <2>2. TopChildren \in Seq(Names \cup {NoName})
    BY <2>1, ChildrenTyped DEF SortInv, TopChildren
  <2> QED
    BY <2>1, <2>2 DEF Frame
<1> QED
  BY <1>1 DEF ChildrenLeft

LEMMA SortMeasured ==
  ASSUME IsFiniteSet(Names), SortInv
  PROVE  \A i \in 1..5 : SortLeft[i] \in Nat
<1>1. Len(stack) \in Nat
  BY DEF SortInv, SortTypeOK
<1> QED
  BY <1>1, SortFinite, ChildrenCounted DEF SortInv, SortLeft

\* The ways a step of the sort lowers what is left
LEMMA SortOver ==
  ASSUME result = "sorting", result' # "sorting"
  PROVE  Lower(SortLeft', SortLeft)
<1>1. SortLeft[1] = 1 /\ SortLeft'[1] = 0 /\ 1 \in DOMAIN SortLeft
  BY DEF SortLeft
<1> QED
  BY <1>1 DEF Lower

LEMMA RecordEntered ==
  ASSUME IsFiniteSet(Names), SortTypeOK, NEW node \in Unentered, result' = result,
         UNCHANGED <<children, visited>>, on_stack' = on_stack \cup {node}
  PROVE  Lower(SortLeft', SortLeft)
<1>1. Unentered' = Unentered \ {node}
  BY DEF Unentered, Records
<1>2. Cardinality(Unentered') < Cardinality(Unentered)
  <2>1. IsFiniteSet(Unentered) /\ Cardinality(Unentered) \in Nat
    BY SortFinite
  <2>2. Cardinality(Unentered \ {node}) = Cardinality(Unentered) - 1
    BY <2>1, FS_RemoveElement
  <2> QED
    BY <1>1, <2>1, <2>2
<1>3. /\ SortLeft'[1] = SortLeft[1] /\ SortLeft'[2] < SortLeft[2]
      /\ 2 \in DOMAIN SortLeft
  BY <1>2 DEF SortLeft
<1> QED
  BY <1>3 DEF Lower

LEMMA SortStep ==
  ASSUME IsFiniteSet(Names), SortInv, SortNext
  PROVE  Lower(SortLeft', SortLeft)
<1>1. SortTypeOK
  BY DEF SortInv
<1>2. CASE visitNext
  <2>1. PICK name \in todo : todo' = todo \ {name} /\ Enter(name, stack)
    BY <1>2 DEF visitNext
  <2>2. /\ UNCHANGED <<children, visited, sorted>> /\ result = "sorting" /\ stack = <<>>
        /\ name \in Records
    BY <1>1, <1>2 DEF visitNext, SortTypeOK
  <2>3. CASE name \in visited
    <3>1. UNCHANGED <<stack, on_stack, result>>
      BY <2>1, <2>3 DEF Enter
    <3>2. Unentered' = Unentered
      BY <2>2, <3>1 DEF Unentered, Records
    <3>3. Cardinality(todo') < Cardinality(todo)
      <4>1. IsFiniteSet(todo) /\ Cardinality(todo) \in Nat
        BY <1>1, SortFinite
      <4>2. Cardinality(todo \ {name}) = Cardinality(todo) - 1
        BY <4>1, FS_RemoveElement
      <4> QED
        BY <2>1, <4>1, <4>2
    <3>4. /\ SortLeft'[1] = SortLeft[1] /\ SortLeft'[2] = SortLeft[2]
          /\ SortLeft'[3] < SortLeft[3] /\ 3 \in DOMAIN SortLeft
      BY <3>1, <3>2, <3>3 DEF SortLeft
    <3> QED
      BY <3>4 DEF Lower
  <2>4. CASE name \notin visited /\ name \in on_stack
    BY <2>1, <2>2, <2>4, SortOver DEF Enter
  <2>5. CASE name \notin visited \cup on_stack
    <3>1. on_stack' = on_stack \cup {name} /\ result' = result /\ name \in Unentered
      BY <2>1, <2>2, <2>5 DEF Enter, Unentered
    <3> QED
      BY <1>1, <2>2, <3>1, RecordEntered
  <2> QED
    BY <2>3, <2>4, <2>5
<1>3. CASE visitChild
  <2> DEFINE node == TopChildren[Top.next]
  <2>1. /\ result = "sorting" /\ stack # <<>> /\ Top.next \in DOMAIN TopChildren
        /\ UNCHANGED <<children, todo, visited, sorted>>
    BY <1>3 DEF visitChild
  <2>2. ASSUME stack' = Advanced, UNCHANGED <<on_stack, result>>
        PROVE  Lower(SortLeft', SortLeft)
    <3>1. Unentered' = Unentered
      BY <2>1, <2>2 DEF Unentered, Records
    <3>2. /\ Len(stack') = Len(stack) /\ stack' # <<>>
          /\ Top'.name = Top.name /\ Top'.next = Top.next + 1
      BY <1>1, <2>1, <2>2, AdvancedShape, FramesTyped DEF SortInv, Top
    <3>3. TopChildren' = TopChildren
      BY <2>1, <3>2 DEF TopChildren
    <3>4. ChildrenLeft' < ChildrenLeft
      <4>1. /\ Top.next \in Nat /\ Len(TopChildren) \in Nat
            /\ DOMAIN TopChildren = 1..Len(TopChildren)
        BY <2>1, ChildrenCounted
      <4>2. ChildrenLeft = Len(TopChildren) + 1 - Top.next
        BY <2>1 DEF ChildrenLeft
      <4>3. ChildrenLeft' = IF Top.next + 1 \in DOMAIN TopChildren
                            THEN Len(TopChildren) + 1 - (Top.next + 1) ELSE 0
        BY <3>2, <3>3 DEF ChildrenLeft
      <4>4. \A n, m \in Nat : n \in 1..m =>
              (IF n + 1 \in 1..m THEN m + 1 - (n + 1) ELSE 0) < m + 1 - n
        OBVIOUS
      <4>5. (IF Top.next + 1 \in 1..Len(TopChildren)
             THEN Len(TopChildren) + 1 - (Top.next + 1) ELSE 0) < Len(TopChildren) + 1 - Top.next
        BY <2>1, <4>1, <4>4
      <4> QED
        BY <4>1, <4>2, <4>3, <4>5
    <3>5. /\ SortLeft'[1] = SortLeft[1] /\ SortLeft'[2] = SortLeft[2]
          /\ SortLeft'[3] = SortLeft[3] /\ SortLeft'[4] = SortLeft[4]
          /\ SortLeft'[5] < SortLeft[5] /\ 5 \in DOMAIN SortLeft
      BY <2>1, <2>2, <3>1, <3>2, <3>4 DEF SortLeft
    <3> QED
      BY <3>5 DEF Lower
  <2>3. CASE node = NoName
    BY <1>3, <2>2, <2>3 DEF visitChild
  <2>4. CASE node # NoName
    <3>1. Enter(node, Advanced)
      BY <1>3, <2>4 DEF visitChild
    <3>2. CASE node \in visited \/ (node \notin on_stack /\ node \notin Records)
      BY <1>1, <2>2, <3>1, <3>2 DEF Enter, SortTypeOK
    <3>3. CASE node \notin visited /\ node \in on_stack
      BY <2>1, <3>1, <3>3, SortOver DEF Enter
    <3>4. CASE node \notin visited \cup on_stack /\ node \in Records
      <4>1. on_stack' = on_stack \cup {node} /\ result' = result /\ node \in Unentered
        BY <3>1, <3>4 DEF Enter, Unentered
      <4> QED
        BY <1>1, <2>1, <4>1, RecordEntered
    <3> QED
      BY <3>2, <3>3, <3>4
  <2> QED
    BY <2>3, <2>4
<1>4. CASE visitReturns
  <2>1. /\ stack # <<>> /\ UNCHANGED <<children, todo, result>>
        /\ visited' = visited \cup {Top.name} /\ on_stack' = on_stack \ {Top.name}
        /\ stack' = SubSeq(stack, 1, Len(stack) - 1)
    BY <1>4 DEF visitReturns, Returns
  <2>2. Top.name \in on_stack
    BY <2>1, FramesTyped DEF SortInv, StackNames, Top
  <2>3. Unentered' = Unentered
    BY <2>1, <2>2 DEF Unentered, Records
  <2>4. Len(stack') < Len(stack)
    BY <1>1, <2>1, FramesTyped DEF SortInv, SortTypeOK
  <2>5. /\ SortLeft'[1] = SortLeft[1] /\ SortLeft'[2] = SortLeft[2]
        /\ SortLeft'[3] = SortLeft[3] /\ SortLeft'[4] < SortLeft[4] /\ 4 \in DOMAIN SortLeft
    BY <2>1, <2>3, <2>4 DEF SortLeft
  <2> QED
    BY <2>5 DEF Lower
<1>5. CASE sortReturns
  BY <1>5, SortOver DEF sortReturns
<1> QED
  BY <1>2, <1>3, <1>4, <1>5 DEF SortNext

\* The sort ends, on rings as well: every step of it enters a record, or leaves fewer
\* names, calls or children to be looked at (topologicalSort).
THEOREM SortShortens ==
  ASSUME IsFiniteSet(Names)
  PROVE  SortSpec =>
           /\ [](\A i \in 1..5 : SortLeft[i] \in Nat)
           /\ [][Lower(SortLeft', SortLeft)]_sortVars
<1>1. SortInv => \A i \in 1..5 : SortLeft[i] \in Nat
  BY SortMeasured
<1>2. SortInv /\ [SortNext]_sortVars => [Lower(SortLeft', SortLeft)]_sortVars
  BY SortStep
<1> QED
  BY <1>1, <1>2, SortInvariant, PTL DEF SortSpec

(* loadStoredFeatures *)

LoadPhase ==
  [sort |-> 2, next |-> 1, compile |-> 1, done |-> 0, empty |-> 0, threw |-> 0]

\* What is left of a load: of its sort, of the records, and of the compiler that runs.
LoadLeft ==
  <<LoadPhase[load], SortLeft[1], SortLeft[2], SortLeft[3], SortLeft[4], SortLeft[5],
    Len(sorted) - attempted, IF load = "next" THEN 1 ELSE 0, RunLeft>>

\* The loop has a record to take or is over; the compiler can go on or has returned.
\* (The guards of the sort leave no case out.)
LoadGoesOn ==
  /\ load = "next" => attempted <= Len(sorted)
  /\ load = "compile" => RunGoesOn \/ parent \in {"returned", "threw"}

\* A load that waits for a compiler has called it.
CompilerCalled == load = "compile" => parent # "idle"

LEMMA CompilerStep ==
  ASSUME LoadingInv, ProcessInv, CompilerCalled, [LoadingNext]_loadingVars
  PROVE  CompilerCalled'
<1> SUFFICES ASSUME load' = "compile", parent' = "idle" PROVE FALSE
  BY DEF CompilerCalled
<1>1. CASE UNCHANGED loadingVars
  BY <1>1 DEF loadingVars, loadVars, processVars, CompilerCalled
<1>2. CASE compile
  <2>1. load = "compile"
    BY <1>2 DEF compile
  <2> QED
    BY <1>2, <2>1
    DEF compile, Parent, Child, closeWriteEnd, read, readEnd, waitpid, execvp, execvpFails,
        print, exit, CompilerCalled
<1>3. CASE deployFeature
  BY <1>3 DEF deployFeature, Refused, runProcess
<1>4. CASE nothingStored \/ sort \/ sortDone \/ compileThrows \/ compiled \/ loaded
  BY <1>4 DEF nothingStored, sort, sortDone, compileThrows, compiled, Refused, loaded, loadVars
<1> QED
  BY <1>1, <1>2, <1>3, <1>4 DEF LoadingNext, Loads

LEMMA LoadMeasured ==
  ASSUME IsFiniteSet(Names), LoadingInv, ProcessInv, WithinBound, CompilerCalled
  PROVE  (\A i \in 1..9 : LoadLeft[i] \in Nat) /\ LoadGoesOn
<1>1. /\ LoadPhase[load] \in Nat
      /\ load \in {"sort", "next", "compile", "done", "empty", "threw"}
  BY DEF LoadingInv, LoadingTypeOK, LoadPhase
<1>2. \A i \in 1..5 : SortLeft[i] \in Nat
  BY SortMeasured DEF LoadingInv
<1>3. Len(sorted) \in Nat /\ attempted \in 0..Len(sorted)
  BY DEF LoadingInv, LoadingTypeOK, SortInv, SortTypeOK
<1>4. RunLeft \in Nat /\ (parent \in {"forked", "reading", "waiting"} => RunGoesOn)
  BY RunMeasured
<1>5. Len(sorted) - attempted \in Nat
  BY <1>3
<1>6. \A i \in 1..9 : LoadLeft[i] \in Nat
  <2>1. /\ LoadLeft[1] \in Nat /\ LoadLeft[7] \in Nat /\ LoadLeft[8] \in Nat /\ LoadLeft[9] \in Nat
        /\ \A i \in 2..6 : LoadLeft[i] = SortLeft[i - 1] /\ i - 1 \in 1..5
    BY <1>1, <1>4, <1>5 DEF LoadLeft
  <2>2. \A i \in 1..9 : i \in {1, 7, 8, 9} \/ i \in 2..6
    OBVIOUS
  <2> QED
    BY <1>2, <2>1, <2>2
<1>7. LoadGoesOn
  BY <1>3, <1>4 DEF LoadGoesOn, CompilerCalled, ProcessInv, ProcessTypeOK
<1> QED
  BY <1>6, <1>7

\* A later phase
LEMMA PhaseOver ==
  ASSUME LoadPhase[load]' < LoadPhase[load]
  PROVE  Lower(LoadLeft', LoadLeft)
<1>1. LoadLeft'[1] < LoadLeft[1] /\ 1 \in DOMAIN LoadLeft
  BY DEF LoadLeft
<1> QED
  BY <1>1 DEF Lower

LEMMA SamePhase ==
  ASSUME UNCHANGED sortVars, LoadPhase[load]' = LoadPhase[load]
  PROVE  \A i \in 1..6 : LoadLeft'[i] = LoadLeft[i]
<1>1. SortLeft' = SortLeft
  BY DEF sortVars, SortLeft, Unentered, Records, ChildrenLeft, Top, TopChildren
<1>2. /\ LoadLeft'[1] = LoadLeft[1]
      /\ \A i \in 2..6 : LoadLeft[i] = SortLeft[i - 1] /\ LoadLeft'[i] = SortLeft'[i - 1]
  BY DEF LoadLeft
<1>3. \A i \in 1..6 : i = 1 \/ i \in 2..6
  OBVIOUS
<1> QED
  BY <1>1, <1>2, <1>3

LEMMA LoadStep ==
  ASSUME IsFiniteSet(Names), LoadingInv, ProcessInv, WithinBound, LoadingNext
  PROVE  Lower(LoadLeft', LoadLeft)
<1>1. CASE nothingStored \/ sortDone \/ compileThrows \/ loaded
  <2>1. LoadPhase[load]' < LoadPhase[load]
    BY <1>1 DEF nothingStored, sortDone, compileThrows, loaded, LoadPhase
  <2> QED
    BY <2>1, PhaseOver
<1>2. CASE sort
  <2>1. SortNext /\ load' = load
    BY <1>2 DEF sort, loadVars
  <2>2. Lower(SortLeft', SortLeft)
    BY <2>1, SortStep DEF LoadingInv
  <2>3. PICK i \in 1..5 : SortLeft'[i] < SortLeft[i] /\ \A j \in 1..(i - 1) : SortLeft'[j] = SortLeft[j]
    BY <2>2 DEF Lower, SortLeft
  <2>4. /\ LoadLeft'[1] = LoadLeft[1]
        /\ \A j \in 1..5 : LoadLeft[j + 1] = SortLeft[j] /\ LoadLeft'[j + 1] = SortLeft'[j]
    BY <2>1 DEF LoadLeft
  <2>5. \A j \in 1..i : LoadLeft'[j] = LoadLeft[j]
    <3> SUFFICES ASSUME NEW j \in 1..i PROVE LoadLeft'[j] = LoadLeft[j]
      OBVIOUS
    <3>1. j = 1 \/ (j - 1 \in 1..(i - 1) /\ j - 1 \in 1..5 /\ j = (j - 1) + 1)
      OBVIOUS
    <3> QED
      BY <2>3, <2>4, <3>1
  <2>6. LoadLeft'[i + 1] < LoadLeft[i + 1] /\ i + 1 \in DOMAIN LoadLeft
    BY <2>3, <2>4 DEF LoadLeft
  <2> QED
    BY <2>5, <2>6 DEF Lower
<1>3. ASSUME load \in {"next", "compile"}, load' = "next", attempted' = attempted + 1,
             UNCHANGED sortVars
      PROVE  Lower(LoadLeft', LoadLeft)
  <2>1. \A i \in 1..6 : LoadLeft'[i] = LoadLeft[i]
    BY <1>3, SamePhase DEF LoadPhase
  <2>2. Len(sorted) \in Nat /\ attempted \in Nat /\ sorted' = sorted
    BY <1>3 DEF LoadingInv, LoadingTypeOK, SortInv, SortTypeOK, sortVars
  <2>3. LoadLeft'[7] < LoadLeft[7] /\ 7 \in DOMAIN LoadLeft
    BY <1>3, <2>2 DEF LoadLeft
  <2> QED
    BY <2>1, <2>3 DEF Lower
<1>4. CASE deployFeature
  <2>1. load = "next" /\ UNCHANGED sortVars
    BY <1>4 DEF deployFeature
  <2>2. CASE Refused(Record)
    BY <1>3, <2>1, <2>2 DEF Refused
  <2>3. CASE load' = "threw"
    BY <2>1, <2>3, PhaseOver DEF LoadPhase
  <2>4. CASE load' = "compile" /\ attempted' = attempted
    <3>1. \A i \in 1..6 : LoadLeft'[i] = LoadLeft[i]
      BY <2>1, <2>4, SamePhase DEF LoadPhase
    <3>2. LoadLeft'[7] = LoadLeft[7] /\ LoadLeft'[8] < LoadLeft[8] /\ 8 \in DOMAIN LoadLeft
      BY <2>1, <2>4 DEF LoadLeft, sortVars
    <3> QED
      BY <3>1, <3>2 DEF Lower
  <2> QED
    BY <1>4, <2>2, <2>3, <2>4 DEF deployFeature
<1>5. CASE compile
  <2>1. load' = load /\ attempted' = attempted /\ UNCHANGED sortVars /\ load = "compile"
    BY <1>5 DEF compile, loadVars
  <2>2. RunLeft' < RunLeft
    BY <1>5, RunStep DEF compile
  <2>3. \A i \in 1..6 : LoadLeft'[i] = LoadLeft[i]
    BY <2>1, SamePhase
  <2>4. /\ LoadLeft'[7] = LoadLeft[7] /\ LoadLeft'[8] = LoadLeft[8]
        /\ LoadLeft'[9] < LoadLeft[9] /\ 9 \in DOMAIN LoadLeft
    BY <2>1, <2>2 DEF LoadLeft, sortVars
  <2> QED
    BY <2>3, <2>4 DEF Lower
<1>6. CASE compiled
  BY <1>3, <1>6 DEF compiled, Refused
<1> QED
  BY <1>1, <1>2, <1>4, <1>5, <1>6 DEF LoadingNext, Loads

\* The load ends, whatever is stored and however its compilers fare: every step of
\* the sort, of the loop and of a compiler lowers what is left of it, and while it is
\* not over one of them can go on (loadStoredFeatures).
THEOREM LoadShortens ==
  ASSUME IsFiniteSet(Names)
  PROVE  LoadingSpec =>
           /\ []((\A i \in 1..9 : LoadLeft[i] \in Nat) /\ LoadGoesOn)
           /\ [][Lower(LoadLeft', LoadLeft)]_loadingVars
<1> DEFINE Inv == LoadingInv /\ ProcessInv /\ WithinBound /\ CompilerCalled
<1>1. LoadingInit => Inv
  BY LoadingInvInit, ProcessInvInit, WithinBoundInit
  DEF LoadingInit, CompilerCalled
<1>2. Inv /\ [LoadingNext]_loadingVars => Inv'
  <2> SUFFICES ASSUME Inv, [LoadingNext]_loadingVars PROVE Inv'
    OBVIOUS
  <2>1. [ProcessNext]_processVars
    BY DEF LoadingNext, Loads, nothingStored, sort, sortDone, deployFeature, compile,
           compileThrows, compiled, loaded, loadingVars, ProcessNext
  <2> QED
    BY <2>1, LoadingInvStep, WithinBoundStep, CompilerStep
<1>3. Inv => (\A i \in 1..9 : LoadLeft[i] \in Nat) /\ LoadGoesOn
  BY LoadMeasured
<1>4. Inv /\ [LoadingNext]_loadingVars => [Lower(LoadLeft', LoadLeft)]_loadingVars
  BY LoadStep
<1> QED
  BY <1>1, <1>2, <1>3, <1>4, PTL DEF LoadingSpec
=============================================================================
