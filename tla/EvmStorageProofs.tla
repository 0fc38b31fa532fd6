-------------------------- MODULE EvmStorageProofs --------------------------
(* Theorems about EvmStorage, for every set of addresses and every depth.   *)
EXTENDS EvmStorage, SequenceTheorems, TLAPS

\* What a push and a pop do to a stack.
LEMMA PushIsSeq ==
  ASSUME NEW S, NEW s \in Seq(S), NEW e \in S
  PROVE  /\ Append(s, e) \in Seq(S)
         /\ Len(Append(s, e)) = Len(s) + 1
         /\ Last(Append(s, e)) = e
         /\ \A i \in 1..Len(s) : Append(s, e)[i] = s[i]
         /\ Append(s, e)[Len(s) + 1] = e
  BY DEF Last

LEMMA PopIsSeq ==
  ASSUME NEW S, NEW s \in Seq(S), s # <<>>
  PROVE  /\ Front(s) \in Seq(S)
         /\ Len(Front(s)) = Len(s) - 1
         /\ Last(s) \in S
         /\ Last(s) = s[Len(s)] /\ Len(s) \in 1..Len(s)
         /\ \A i \in 1..Len(Front(s)) : i \in 1..Len(s) /\ Front(s)[i] = s[i]
<1>1. Len(s) \in Nat \ {0}
  <2>1. Len(s) \in Nat /\ (Len(s) = 0 => s = <<>>)
    OBVIOUS
  <2> QED
    BY <2>1
<1>2. Len(s) \in 1..Len(s) /\ Last(s) = s[Len(s)] /\ Last(s) \in S
  BY <1>1 DEF Last
<1>3. /\ SubSeq(s, 1, Len(s) - 1) \in Seq(S)
      /\ Len(SubSeq(s, 1, Len(s) - 1)) = Len(s) - 1
      /\ \A i \in 1..(Len(s) - 1) : SubSeq(s, 1, Len(s) - 1)[i] = s[i]
  <2> DEFINE n == Len(s) - 1
  <2>1. n \in Nat /\ \A i \in 1..n : s[i] \in S
    BY <1>1
  <2> HIDE DEF n
  <2>2. /\ SubSeq(s, 1, n) \in Seq(S)
        /\ Len(SubSeq(s, 1, n)) = IF 1 <= n THEN n - 1 + 1 ELSE 0
        /\ \A i \in 1..(n - 1 + 1) : SubSeq(s, 1, n)[i] = s[1 + i - 1]
    BY <2>1, SubSeqProperties, SMT
  <2>3. Len(SubSeq(s, 1, n)) = n /\ \A i \in 1..n : SubSeq(s, 1, n)[i] = s[i]
    BY <2>1, <2>2
  <2> QED
    BY <2>2, <2>3 DEF n
<1> QED
  BY <1>1, <1>2, <1>3 DEF Front

-----------------------------------------------------------------------------
(* Every step is one of these: an account is added for an owner or for the  *)
(* contract that writes its storage; a call; a creation; a return.          *)

AddStep ==
  \E a \in Addresses :
    /\ a \in Owners \/ (frames # <<>> /\ a = Top.recipient)
    /\ accounts' = Added(a)
    /\ UNCHANGED <<createNonce, senderStack, frames>>

CallStep == \E sender \in Addresses, recipient \in Addresses : call(sender, recipient)

CreateStep == \E sender \in Addresses : create(sender)

Create2Step == \E sender \in Addresses, code \in Codes : create2(sender, code)

ReturnStep ==
  /\ frames # <<>>
  /\ Return /\ UNCHANGED createNonce
  /\ \/ UNCHANGED accounts
     \/ accounts' = [accounts EXCEPT ![Top.recipient] = NoAccount]
     \/ /\ Top.kind # "call"
        /\ \E coded \in BOOLEAN :
             accounts' = [accounts EXCEPT ![Top.recipient] = deploy_contract(Top, coded)]

LEMMA StepCases ==
  ASSUME EvmTypeOK, [EvmNext]_evmVars
  PROVE  AddStep \/ CallStep \/ CreateStep \/ Create2Step \/ ReturnStep \/ UNCHANGED evmVars
<1>1. frames # <<>> => Top \in Frame
  BY PopIsSeq DEF EvmTypeOK, Top
<1>2. frames # <<>> => Top.recipient \in Addresses /\ Top.sender \in Addresses
  BY <1>1 DEF Frame
<1>3. CASE addAccount
  <2>1. PICK a \in Owners : accounts' = Added(a)
    BY <1>3 DEF addAccount
  <2>2. a \in Addresses
    BY EvmAssumption
  <2> QED
    BY <1>3, <2>1, <2>2 DEF addAccount, AddStep
<1>4. CASE deploy
  BY <1>4, EvmAssumption DEF deploy, Create2Step
<1>5. CASE execute
  BY <1>5, EvmAssumption DEF execute, CallStep
<1>6. CASE set_storage
  BY <1>6, <1>2 DEF set_storage, AddStep
<1>7. CASE CallNested
  BY <1>7, <1>2 DEF CallNested, CallStep
<1>8. CASE DelegateNested
  BY <1>8, <1>2 DEF DelegateNested, CallStep
<1>9. CASE CreateNested
  BY <1>9, <1>2 DEF CreateNested, CreateStep, Create2Step
<1>10. CASE Succeed
  BY <1>10 DEF Succeed, ReturnStep
<1>11. CASE Fail
  BY <1>11 DEF Fail, ReturnStep
<1>12. CASE selfdestruct
  BY <1>12 DEF selfdestruct, ReturnStep
<1> QED
  BY <1>3, <1>4, <1>5, <1>6, <1>7, <1>8, <1>9, <1>10, <1>11, <1>12 DEF EvmNext

-----------------------------------------------------------------------------
(* Types *)

LEMMA FreshIsAccount == Fresh \in Account
  BY EvmAssumption DEF Fresh, Account

LEMMA AddedIsTyped ==
  ASSUME EvmTypeOK, NEW a \in Addresses
  PROVE  /\ Added(a) \in [Addresses -> Account \cup {NoAccount}]
         /\ \A b \in Addresses :
              Added(a)[b] = IF b = a /\ accounts[b] = NoAccount THEN Fresh ELSE accounts[b]
  BY FreshIsAccount DEF EvmTypeOK, Added

LEMMA ActualIsAddress ==
  ASSUME EvmTypeOK, NEW sender \in Addresses
  PROVE  actual_sender(sender) \in Addresses
  BY PopIsSeq DEF EvmTypeOK, actual_sender

\* The frame that a call adds.
FrameOf(kind, sender, recipient) ==
  [kind |-> kind, recipient |-> recipient, sender |-> sender,
   actual |-> actual_sender(sender)]

\* What the push and the new frame of a call do to the two stacks.
LEMMA EntryIsTyped ==
  ASSUME EvmTypeOK, NEW sender \in Addresses, NEW recipient \in Addresses,
         NEW kind \in {"call", "create", "create2"}
  PROVE  /\ Pushed(sender) \in Seq(Addresses)
         /\ Len(Pushed(sender)) = Len(senderStack) + 1
         /\ Opened(kind, sender, recipient) \in Seq(Frame)
         /\ Len(Opened(kind, sender, recipient)) = Len(frames) + 1
         /\ \A i \in 1..Len(frames) : Opened(kind, sender, recipient)[i] = frames[i]
         /\ Last(Opened(kind, sender, recipient)) = FrameOf(kind, sender, recipient)
         /\ Opened(kind, sender, recipient)[Len(frames) + 1] = FrameOf(kind, sender, recipient)
<1> DEFINE frame == FrameOf(kind, sender, recipient)
<1>1. actual_sender(sender) \in Addresses
  BY ActualIsAddress
<1>2. frame \in Frame
  BY <1>1 DEF Frame, FrameOf
<1>3. Opened(kind, sender, recipient) = Append(frames, frame)
  BY DEF Opened, FrameOf
<1> HIDE DEF frame
<1>4. senderStack \in Seq(Addresses) /\ frames \in Seq(Frame)
  BY DEF EvmTypeOK
<1>5. /\ Pushed(sender) \in Seq(Addresses)
      /\ Len(Pushed(sender)) = Len(senderStack) + 1
  BY <1>1, <1>4, PushIsSeq DEF Pushed
<1>6. /\ Append(frames, frame) \in Seq(Frame)
      /\ Len(Append(frames, frame)) = Len(frames) + 1
      /\ Last(Append(frames, frame)) = frame
      /\ \A i \in 1..Len(frames) : Append(frames, frame)[i] = frames[i]
      /\ Append(frames, frame)[Len(frames) + 1] = frame
  BY <1>2, <1>4, PushIsSeq
<1> QED
  BY <1>3, <1>5, <1>6 DEF frame

LEMMA ReturnIsTyped ==
  ASSUME EvmTypeOK, SendersCoverFrames, frames # <<>>, Return
  PROVE  /\ senderStack' \in Seq(Addresses) /\ Len(senderStack') = Len(senderStack) - 1
         /\ frames' \in Seq(Frame) /\ Len(frames') = Len(frames) - 1
         /\ \A i \in 1..Len(frames') : i \in 1..Len(frames) /\ frames'[i] = frames[i]
         /\ Top \in Frame /\ Len(frames) \in 1..Len(frames) /\ Top = frames[Len(frames)]
<1>1. senderStack \in Seq(Addresses) /\ frames \in Seq(Frame)
  BY DEF EvmTypeOK
<1>2. Len(frames) \in Nat \ {0} /\ Len(senderStack) \in Nat
  BY <1>1
<1>3. senderStack # <<>>
  BY <1>1, <1>2 DEF SendersCoverFrames
<1> QED
  BY <1>1, <1>3, PopIsSeq DEF Return, Top

\* The types and the sender stack are inductive together: a pop of an empty stack
\* would leave no stack behind.
LEMMA TypeStep ==
  ASSUME EvmTypeOK, SendersCoverFrames, [EvmNext]_evmVars
  PROVE  EvmTypeOK' /\ SendersCoverFrames'
<1>0. /\ Len(frames) \in Nat /\ Len(senderStack) \in Nat
      /\ createNonce \in [Addresses -> Nonces]
      /\ accounts \in [Addresses -> Account \cup {NoAccount}]
      /\ Len(senderStack) >= Len(frames)
  BY DEF EvmTypeOK, SendersCoverFrames
<1>1. CASE AddStep
  BY <1>1, AddedIsTyped DEF AddStep, EvmTypeOK, SendersCoverFrames
<1>2. CASE CallStep
  <2> PICK sender \in Addresses, recipient \in Addresses : call(sender, recipient)
    BY <1>2 DEF CallStep
  <2>1. CASE CallFails(sender, recipient)
    <3>1. Pushed(sender) \in Seq(Addresses) /\ Len(Pushed(sender)) = Len(senderStack) + 1
      BY EntryIsTyped
    <3> QED
      BY <1>0, <2>1, <3>1 DEF CallFails, EvmTypeOK, SendersCoverFrames
  <2>2. CASE CallRuns(sender, recipient)
    <3> DEFINE e == Opened("call", sender, recipient)
    <3>1. /\ Pushed(sender) \in Seq(Addresses) /\ Len(Pushed(sender)) = Len(senderStack) + 1
          /\ e \in Seq(Frame) /\ Len(e) = Len(frames) + 1
      BY EntryIsTyped
    <3> QED
      BY <1>0, <2>2, <3>1 DEF CallRuns, EvmTypeOK, SendersCoverFrames
  <2> QED
    BY <2>1, <2>2 DEF call
<1>3. CASE CreateStep
  <2> PICK sender \in Addresses : create(sender)
    BY <1>3 DEF CreateStep
  <2>1. actual_sender(sender) \in Addresses
    BY ActualIsAddress
  <2>2. createNonce' \in [Addresses -> Nonces]
    BY <1>0, <2>1, EvmAssumption DEF create, NextNonce, Nonces
  <2>3. PICK a \in Addresses : accounts' = Added(a) /\ frames' = Opened("create", sender, a)
    BY DEF create
  <2> QED
    <3> DEFINE e == Opened("create", sender, a)
    <3>1. /\ Pushed(sender) \in Seq(Addresses) /\ Len(Pushed(sender)) = Len(senderStack) + 1
          /\ e \in Seq(Frame) /\ Len(e) = Len(frames) + 1
      BY EntryIsTyped
    <3>2. accounts' \in [Addresses -> Account \cup {NoAccount}]
      BY <2>3, AddedIsTyped
    <3>3. senderStack' = Pushed(sender) /\ frames' = e
      BY <2>3 DEF create
    <3> QED
      BY <1>0, <2>2, <3>1, <3>2, <3>3 DEF EvmTypeOK, SendersCoverFrames
<1>4. CASE Create2Step
  <2> PICK sender \in Addresses, code \in Codes : create2(sender, code)
    BY <1>4 DEF Create2Step
  <2>1. PICK a \in Addresses : accounts' = Added(a) /\ frames' = Opened("create2", sender, a)
    BY DEF create2
  <2> QED
    <3> DEFINE e == Opened("create2", sender, a)
    <3>1. /\ Pushed(sender) \in Seq(Addresses) /\ Len(Pushed(sender)) = Len(senderStack) + 1
          /\ e \in Seq(Frame) /\ Len(e) = Len(frames) + 1
      BY EntryIsTyped
    <3>2. accounts' \in [Addresses -> Account \cup {NoAccount}]
      BY <2>1, AddedIsTyped
    <3>3. senderStack' = Pushed(sender) /\ frames' = e /\ createNonce' = createNonce
      BY <2>1 DEF create2
    <3> QED
      BY <1>0, <3>1, <3>2, <3>3 DEF EvmTypeOK, SendersCoverFrames
<1>5. CASE ReturnStep
  <2>1. /\ senderStack' \in Seq(Addresses) /\ Len(senderStack') = Len(senderStack) - 1
        /\ frames' \in Seq(Frame) /\ Len(frames') = Len(frames) - 1
        /\ Top \in Frame
    BY <1>5, ReturnIsTyped DEF ReturnStep
  <2>2. ASSUME NEW coded \in BOOLEAN PROVE deploy_contract(Top, coded) \in Account
    BY <2>1 DEF deploy_contract, Account, Frame
  <2>3. accounts' \in [Addresses -> Account \cup {NoAccount}]
    BY <1>0, <1>5, <2>2 DEF ReturnStep
  <2> QED
    BY <1>0, <1>5, <2>1, <2>3 DEF ReturnStep, EvmTypeOK, SendersCoverFrames
<1>6. CASE UNCHANGED evmVars
  BY <1>6 DEF evmVars, EvmTypeOK, SendersCoverFrames
<1> QED
  BY <1>1, <1>2, <1>3, <1>4, <1>5, <1>6, StepCases

LEMMA TypeInit == EvmInit => EvmTypeOK /\ SendersCoverFrames
  BY EvmAssumption DEF EvmInit, EvmTypeOK, SendersCoverFrames, Nonces

LEMMA StackInvariant == EvmSpec => [](EvmTypeOK /\ SendersCoverFrames)
  BY TypeInit, TypeStep, PTL DEF EvmSpec

\* Accounts, nonces, senders and frames have their types in every state.
THEOREM EvmTypeCorrect == EvmSpec => []EvmTypeOK
  BY StackInvariant, PTL

\* However deep calls nest and whichever fail, EVMStorage::call never pops an
\* empty sender stack.
THEOREM SendersCoverCorrect == EvmSpec => []SendersCoverFrames
  BY StackInvariant, PTL

-----------------------------------------------------------------------------
(* Addresses of creations *)

\* A nonce that its creator has not used yet gives an address that nobody has: not
\* an account, and not a call in progress, which might still become one.
Unspent ==
  \A s \in Addresses, n \in Nonces :
    n >= createNonce[s] =>
      /\ Create(s, n) \in Addresses => accounts[Create(s, n)] = NoAccount
      /\ \A i \in 1..Len(frames) : frames[i].recipient # Create(s, n)

CreateInv == EvmTypeOK /\ SendersCoverFrames /\ Unspent

LEMMA UnspentInit == EvmInit => Unspent
<1> SUFFICES ASSUME EvmInit PROVE Unspent
  OBVIOUS
<1>1. Len(frames) = 0
  BY DEF EvmInit
<1> QED
  BY <1>1 DEF EvmInit, Unspent

\* An account that is added at an address that no unused nonce gives.
LEMMA AddedUnspent ==
  ASSUME EvmTypeOK, Unspent, NEW a \in Addresses, accounts' = Added(a),
         NEW s \in Addresses, NEW n \in Nonces, n >= createNonce[s],
         Create(s, n) \in Addresses, a # Create(s, n)
  PROVE  accounts'[Create(s, n)] = NoAccount
  BY AddedIsTyped DEF Unspent

LEMMA UnspentStep ==
  ASSUME CreateInv, [EvmNext]_evmVars
  PROVE  Unspent'
<1> USE DEF CreateInv
<1>0. /\ Len(frames) \in Nat
      /\ createNonce \in [Addresses -> Nonces]
      /\ accounts \in [Addresses -> Account \cup {NoAccount}]
  BY DEF EvmTypeOK
<1>1. CASE AddStep
  <2> PICK a \in Addresses :
        /\ a \in Owners \/ (frames # <<>> /\ a = Top.recipient)
        /\ accounts' = Added(a)
        /\ UNCHANGED <<createNonce, senderStack, frames>>
    BY <1>1 DEF AddStep
  <2>1. ASSUME NEW s \in Addresses, NEW n \in Nonces, n >= createNonce[s]
        PROVE  a # Create(s, n)
    <3>1. CASE a \in Owners
      BY <3>1, DerivationAssumption
    <3>2. CASE frames # <<>> /\ a = Top.recipient
      <4>1. Len(frames) \in 1..Len(frames) /\ Top = frames[Len(frames)]
        BY <3>2, PopIsSeq DEF EvmTypeOK, Top
      <4> QED
        BY <2>1, <3>2, <4>1 DEF Unspent
    <3> QED
      BY <3>1, <3>2
  <2>2. ASSUME NEW s \in Addresses, NEW n \in Nonces, n >= createNonce[s],
               Create(s, n) \in Addresses
        PROVE  accounts'[Create(s, n)] = NoAccount
    BY <2>1, <2>2, AddedUnspent
  <2> QED
    BY <2>2 DEF Unspent
<1>2. CASE CallStep
  <2> PICK sender \in Addresses, recipient \in Addresses : call(sender, recipient)
    BY <1>2 DEF CallStep
  <2>1. CASE CallFails(sender, recipient)
    BY <2>1 DEF CallFails, Unspent
  <2>2. CASE CallRuns(sender, recipient)
    <3> DEFINE e == Opened("call", sender, recipient)
    <3>1. /\ Len(e) = Len(frames) + 1
          /\ \A i \in 1..Len(frames) : e[i] = frames[i]
          /\ e[Len(frames) + 1].recipient = recipient
      <4>1. EvmTypeOK
        OBVIOUS
      <4>2. /\ Len(e) = Len(frames) + 1
            /\ \A i \in 1..Len(frames) : e[i] = frames[i]
            /\ e[Len(frames) + 1] = FrameOf("call", sender, recipient)
        BY <4>1, EntryIsTyped
      <4> QED
        BY <4>2 DEF FrameOf
    <3>2. accounts[recipient] # NoAccount
      BY <2>2 DEF CallRuns, Runnable, account_exists
    <3>3. frames' = e /\ UNCHANGED <<accounts, createNonce>>
      BY <2>2 DEF CallRuns
    <3> HIDE DEF e
    <3>4. ASSUME NEW s \in Addresses, NEW n \in Nonces, n >= createNonce[s],
                 NEW i \in 1..Len(e)
          PROVE  e[i].recipient # Create(s, n)
      <4>1. CASE i = Len(frames) + 1
        BY <3>1, <3>2, <3>4, <4>1 DEF Unspent
      <4>2. CASE i \in 1..Len(frames)
        BY <3>1, <3>4, <4>2 DEF Unspent
      <4> QED
        BY <1>0, <3>1, <4>1, <4>2
    <3> QED
      BY <3>3, <3>4 DEF Unspent
  <2> QED
    BY <2>1, <2>2 DEF call
<1>3. ASSUME NEW sender \in Addresses, NEW a \in Addresses, NEW kind \in {"create", "create2"},
             accounts' = Added(a), frames' = Opened(kind, sender, a),
             createNonce' \in [Addresses -> Nonces],
             \A s \in Addresses : createNonce'[s] >= createNonce[s],
             \A s \in Addresses, n \in Nonces : n >= createNonce'[s] => a # Create(s, n)
      PROVE  Unspent'
  <2>1. /\ Len(frames') = Len(frames) + 1
        /\ \A i \in 1..Len(frames) : frames'[i] = frames[i]
        /\ frames'[Len(frames) + 1].recipient = a
    <3> DEFINE e == Opened(kind, sender, a)
    <3>1. kind = "create" \/ kind = "create2"
      OBVIOUS
    <3>2. /\ Len(e) = Len(frames) + 1
          /\ \A i \in 1..Len(frames) : e[i] = frames[i]
          /\ e[Len(frames) + 1].recipient = a
      <4>1. /\ Len(e) = Len(frames) + 1
            /\ \A i \in 1..Len(frames) : e[i] = frames[i]
            /\ e[Len(frames) + 1] = FrameOf(kind, sender, a)
        BY <3>1, EntryIsTyped
      <4> QED
        BY <4>1 DEF FrameOf
    <3> QED
      BY <1>3, <3>2
  <2>2. ASSUME NEW s \in Addresses, NEW n \in Nonces, n >= createNonce'[s]
        PROVE  n >= createNonce[s]
    BY <1>0, <1>3, <2>2, EvmAssumption DEF Nonces
  <2>3. ASSUME NEW s \in Addresses, NEW n \in Nonces, n >= createNonce'[s],
               Create(s, n) \in Addresses
        PROVE  accounts'[Create(s, n)] = NoAccount
    BY <1>3, <2>2, <2>3, AddedUnspent
  <2>4. ASSUME NEW s \in Addresses, NEW n \in Nonces, n >= createNonce'[s],
               NEW i \in 1..Len(frames')
        PROVE  frames'[i].recipient # Create(s, n)
    <3>1. CASE i = Len(frames) + 1
      BY <1>3, <2>1, <2>4, <3>1
    <3>2. CASE i \in 1..Len(frames)
      BY <2>1, <2>2, <2>4, <3>2 DEF Unspent
    <3> QED
      BY <1>0, <2>1, <3>1, <3>2
  <2> QED
    BY <2>3, <2>4 DEF Unspent
<1>4. CASE CreateStep
  <2> PICK sender \in Addresses : create(sender)
    BY <1>4 DEF CreateStep
  <2> DEFINE c == actual_sender(sender)
             a == Create(c, createNonce[c])
  <2>1. c \in Addresses
    BY ActualIsAddress
  <2>2. /\ a \in Addresses /\ accounts' = Added(a) /\ frames' = Opened("create", sender, a)
        /\ createNonce' = [createNonce EXCEPT ![c] = @ + 1]
        /\ createNonce[c] < MaxNonce
    BY DEF create, NextNonce
  <2> HIDE DEF c
  <2>3. createNonce' \in [Addresses -> Nonces]
    BY <1>0, <2>1, <2>2, EvmAssumption DEF Nonces
  <2>4. \A s \in Addresses : createNonce'[s] >= createNonce[s]
    BY <1>0, <2>1, <2>2, EvmAssumption DEF Nonces
  <2>5. ASSUME NEW s \in Addresses, NEW n \in Nonces, n >= createNonce'[s]
        PROVE  a # Create(s, n)
    <3>1. createNonce[c] \in Nonces /\ createNonce'[c] = createNonce[c] + 1
      BY <1>0, <2>1, <2>2
    <3>2. CASE s = c /\ n = createNonce[c]
      BY <2>5, <3>1, <3>2, EvmAssumption DEF Nonces
    <3>3. CASE ~(s = c /\ n = createNonce[c])
      BY <2>1, <3>1, <3>3, DerivationAssumption
    <3> QED
      BY <3>2, <3>3
  <2> HIDE DEF a
  <2> QED
    BY <1>3, <2>2, <2>3, <2>4, <2>5
<1>5. CASE Create2Step
  <2> PICK sender \in Addresses, code \in Codes : create2(sender, code)
    BY <1>5 DEF Create2Step
  <2> DEFINE a == Create2(actual_sender(sender), code)
  <2>1. /\ a \in Addresses /\ accounts' = Added(a) /\ frames' = Opened("create2", sender, a)
        /\ createNonce' = createNonce
    BY DEF create2
  <2>2. ASSUME NEW s \in Addresses, NEW n \in Nonces PROVE a # Create(s, n)
    BY ActualIsAddress, DerivationAssumption
  <2>3. \A s \in Addresses : createNonce'[s] >= createNonce[s]
    BY <1>0, <2>1, EvmAssumption DEF Nonces
  <2> HIDE DEF a
  <2> QED
    BY <1>0, <1>3, <2>1, <2>2, <2>3
<1>6. CASE ReturnStep
  <2>1. /\ Len(frames') \in Nat
        /\ \A i \in 1..Len(frames') : i \in 1..Len(frames) /\ frames'[i] = frames[i]
        /\ Top \in Frame /\ Len(frames) \in 1..Len(frames) /\ Top = frames[Len(frames)]
        /\ createNonce' = createNonce
    BY <1>0, <1>6, ReturnIsTyped DEF ReturnStep
  <2>2. ASSUME NEW s \in Addresses, NEW n \in Nonces, n >= createNonce[s],
               Create(s, n) \in Addresses
        PROVE  accounts'[Create(s, n)] = NoAccount
    <3>1. Top.recipient # Create(s, n) /\ accounts[Create(s, n)] = NoAccount
      BY <2>1, <2>2 DEF Unspent
    <3> QED
      BY <1>0, <1>6, <2>2, <3>1 DEF ReturnStep
  <2>3. ASSUME NEW s \in Addresses, NEW n \in Nonces, n >= createNonce[s],
               NEW i \in 1..Len(frames')
        PROVE  frames'[i].recipient # Create(s, n)
    BY <2>1, <2>3 DEF Unspent
  <2> QED
    BY <2>1, <2>2, <2>3 DEF Unspent
<1>7. CASE UNCHANGED evmVars
  BY <1>7 DEF evmVars, Unspent
<1> QED
  BY <1>1, <1>2, <1>4, <1>5, <1>6, <1>7, StepCases

LEMMA CreateInvariant == EvmSpec => []CreateInv
<1>1. EvmInit => CreateInv
  BY TypeInit, UnspentInit DEF CreateInv
<1>2. CreateInv /\ [EvmNext]_evmVars => CreateInv'
  BY TypeStep, UnspentStep DEF CreateInv
<1> QED
  BY <1>1, <1>2, PTL DEF EvmSpec

\* A step that pushes the frame of a CREATE finds no account at its address.
LEMMA FreshStep ==
  ASSUME CreateInv, [EvmNext]_evmVars,
         Len(frames') > Len(frames), Last(frames').kind = "create"
  PROVE  accounts[Last(frames').recipient] = NoAccount
<1> USE DEF CreateInv
<1>0. Len(frames) \in Nat /\ createNonce \in [Addresses -> Nonces]
  BY DEF EvmTypeOK
<1>1. CASE AddStep
  BY <1>0, <1>1 DEF AddStep
<1>2. CASE CallStep
  <2> PICK sender \in Addresses, recipient \in Addresses : call(sender, recipient)
    BY <1>2 DEF CallStep
  <2>1. Last(Opened("call", sender, recipient)).kind = "call"
    <3>1. Last(Opened("call", sender, recipient)) = FrameOf("call", sender, recipient)
      BY EntryIsTyped
    <3> QED
      BY <3>1 DEF FrameOf
  <2> QED
    BY <1>0, <2>1 DEF call, CallFails, CallRuns
<1>3. CASE CreateStep
  <2> PICK sender \in Addresses : create(sender)
    BY <1>3 DEF CreateStep
  <2> DEFINE c == actual_sender(sender)
             a == Create(c, createNonce[c])
  <2>1. c \in Addresses /\ createNonce[c] \in Nonces
    BY <1>0, ActualIsAddress
  <2>2. a \in Addresses /\ frames' = Opened("create", sender, a)
    BY DEF create
  <2>3. createNonce[c] >= createNonce[c]
    BY <2>1, EvmAssumption DEF Nonces
  <2>4. accounts[a] = NoAccount
    BY <2>1, <2>2, <2>3 DEF Unspent
  <2> HIDE DEF a
  <2>5. Last(Opened("create", sender, a)).recipient = a
    <3>1. EvmTypeOK
      BY DEF CreateInv
    <3>2. Last(Opened("create", sender, a)) = FrameOf("create", sender, a)
      BY <2>2, <3>1, EntryIsTyped
    <3> QED
      BY <3>2 DEF FrameOf
  <2> QED
    BY <2>2, <2>4, <2>5
<1>4. CASE Create2Step
  <2> PICK sender \in Addresses, code \in Codes : create2(sender, code)
    BY <1>4 DEF Create2Step
  <2>1. PICK a \in Addresses : frames' = Opened("create2", sender, a)
    BY DEF create2
  <2>2. Last(Opened("create2", sender, a)).kind = "create2"
    <3>1. Last(Opened("create2", sender, a)) = FrameOf("create2", sender, a)
      BY EntryIsTyped
    <3> QED
      BY <3>1 DEF FrameOf
  <2> QED
    BY <2>1, <2>2
<1>5. CASE ReturnStep
  BY <1>0, <1>5, ReturnIsTyped DEF ReturnStep
<1>6. CASE UNCHANGED evmVars
  BY <1>0, <1>6 DEF evmVars
<1> QED
  BY <1>1, <1>2, <1>3, <1>4, <1>5, <1>6, StepCases

\* A CREATE never runs on an account that exists, whatever nests in it.
THEOREM CreateFresh == EvmSpec => CreateIsFresh
<1> DEFINE Fresher == Len(frames') > Len(frames) /\ Last(frames').kind = "create" =>
                        accounts[Last(frames').recipient] = NoAccount
<1>2. CreateInv /\ [EvmNext]_evmVars => [Fresher]_evmVars
  BY FreshStep
<1> QED
  BY <1>2, CreateInvariant, PTL DEF EvmSpec, CreateIsFresh

-----------------------------------------------------------------------------
(* Creators *)

\* The address is derived from the creator's, by a nonce it has used or by CREATE2.
DerivedFrom(nonces, s, a) ==
  \/ \E n \in Nonces : n < nonces[s] /\ a = Create(s, n)
  \/ \E c \in Codes : a = Create2(s, c)

\* So it is for every contract, and for the creations in progress.
CreatorInv ==
  /\ EvmTypeOK /\ SendersCoverFrames
  /\ \A a \in Addresses :
       accounts[a] # NoAccount /\ accounts[a].coded => DerivedFrom(createNonce, accounts[a].creator, a)
  /\ \A i \in 1..Len(frames) :
       frames[i].kind # "call" => DerivedFrom(createNonce, frames[i].actual, frames[i].recipient)

LEMMA CreatorStep ==
  ASSUME CreatorInv, [EvmNext]_evmVars
  PROVE  CreatorInv'
<1> USE DEF CreatorInv
<1>0. /\ EvmTypeOK
      /\ Len(frames) \in Nat
      /\ createNonce \in [Addresses -> Nonces]
      /\ accounts \in [Addresses -> Account \cup {NoAccount}]
      /\ frames \in Seq(Frame)
  BY DEF EvmTypeOK
<1>1. EvmTypeOK' /\ SendersCoverFrames'
  BY TypeStep
\* Nonces only grow, so what was derived stays derived.
<1>2. ASSUME NEW s \in Addresses, NEW a \in Addresses, DerivedFrom(createNonce, s, a),
             createNonce'[s] >= createNonce[s], createNonce' \in [Addresses -> Nonces]
      PROVE  DerivedFrom(createNonce', s, a)
  <2>1. createNonce[s] \in Nat /\ createNonce'[s] \in Nat
    BY <1>0, <1>2, EvmAssumption DEF Nonces
  <2>2. ASSUME NEW n \in Nonces, n < createNonce[s] PROVE n < createNonce'[s]
    BY <1>2, <2>1, <2>2, EvmAssumption DEF Nonces
  <2> QED
    BY <1>2, <2>2 DEF DerivedFrom
\* Two things remain to be shown of a step: of the accounts it changes, and of the
\* frame it adds.
<1>3. ASSUME \A s \in Addresses : createNonce'[s] >= createNonce[s],
             \A a \in Addresses :
               accounts'[a] # NoAccount /\ accounts'[a].coded =>
                 \/ accounts'[a] = accounts[a]
                 \/ accounts'[a].creator \in Addresses /\ DerivedFrom(createNonce', accounts'[a].creator, a),
             \A i \in 1..Len(frames') :
               \/ i \in 1..Len(frames) /\ frames'[i] = frames[i]
               \/ frames'[i].kind # "call" =>
                    DerivedFrom(createNonce', frames'[i].actual, frames'[i].recipient)
      PROVE  CreatorInv'
  <2>0. createNonce' \in [Addresses -> Nonces]
    BY <1>1 DEF EvmTypeOK
  <2>1. ASSUME NEW a \in Addresses, accounts'[a] # NoAccount, accounts'[a].coded
        PROVE  DerivedFrom(createNonce', accounts'[a].creator, a)
    <3>1. CASE accounts'[a] = accounts[a]
      <4>1. accounts[a].creator \in Addresses /\ DerivedFrom(createNonce, accounts[a].creator, a)
        BY <1>0, <2>1, <3>1 DEF Account
      <4> QED
        BY <1>2, <1>3, <2>0, <3>1, <4>1
    <3> QED
      BY <1>3, <2>1, <3>1
  <2>2. ASSUME NEW i \in 1..Len(frames'), frames'[i].kind # "call"
        PROVE  DerivedFrom(createNonce', frames'[i].actual, frames'[i].recipient)
    <3>1. CASE i \in 1..Len(frames) /\ frames'[i] = frames[i]
      <4>1. frames[i] \in Frame
        BY <1>0, <3>1
      <4>2. /\ frames[i].actual \in Addresses /\ frames[i].recipient \in Addresses
            /\ DerivedFrom(createNonce, frames[i].actual, frames[i].recipient)
        BY <2>2, <3>1, <4>1 DEF Frame
      <4> QED
        BY <1>2, <1>3, <2>0, <3>1, <4>2
    <3> QED
      BY <1>3, <2>2, <3>1
  <2> QED
    BY <1>1, <2>1, <2>2
\* An account that is added has no code.
<1>4. ASSUME NEW b \in Addresses, accounts' = Added(b)
      PROVE  \A a \in Addresses :
               accounts'[a] # NoAccount /\ accounts'[a].coded => accounts'[a] = accounts[a]
  BY <1>0, <1>4, AddedIsTyped DEF Fresh
<1>5. UNCHANGED createNonce => \A s \in Addresses : createNonce'[s] >= createNonce[s]
  BY <1>0, EvmAssumption DEF Nonces
<1>6. ASSUME UNCHANGED frames
      PROVE  \A i \in 1..Len(frames') : i \in 1..Len(frames) /\ frames'[i] = frames[i]
  BY <1>6
<1>7. CASE AddStep
  BY <1>3, <1>4, <1>5, <1>6, <1>7 DEF AddStep
<1>8. CASE CallStep
  <2> PICK sender \in Addresses, recipient \in Addresses : call(sender, recipient)
    BY <1>8 DEF CallStep
  <2>1. CASE CallFails(sender, recipient)
    BY <1>3, <1>5, <1>6, <2>1 DEF CallFails
  <2>2. CASE CallRuns(sender, recipient)
    <3> DEFINE e == Opened("call", sender, recipient)
    <3>1. /\ Len(e) = Len(frames) + 1
          /\ \A i \in 1..Len(frames) : e[i] = frames[i]
          /\ e[Len(frames) + 1].kind = "call"
      <4>1. /\ Len(e) = Len(frames) + 1
            /\ \A i \in 1..Len(frames) : e[i] = frames[i]
            /\ e[Len(frames) + 1] = FrameOf("call", sender, recipient)
        BY <1>0, EntryIsTyped
      <4> QED
        BY <4>1 DEF FrameOf
    <3>2. frames' = e /\ UNCHANGED <<accounts, createNonce>>
      BY <2>2 DEF CallRuns
    <3> HIDE DEF e
    <3>3. ASSUME NEW i \in 1..Len(frames')
          PROVE  \/ i \in 1..Len(frames) /\ frames'[i] = frames[i]
                 \/ frames'[i].kind = "call"
      <4>1. i \in 1..Len(frames) \/ i = Len(frames) + 1
        BY <1>0, <3>1, <3>2
      <4> QED
        BY <3>1, <3>2, <4>1
    <3> QED
      BY <1>3, <1>5, <3>2, <3>3
  <2> QED
    BY <2>1, <2>2 DEF call
<1>9. ASSUME NEW sender \in Addresses, NEW b \in Addresses,
             accounts' = Added(b),
             frames' = Opened("create", sender, b) \/ frames' = Opened("create2", sender, b),
             DerivedFrom(createNonce', actual_sender(sender), b),
             \A s \in Addresses : createNonce'[s] >= createNonce[s]
      PROVE  CreatorInv'
  <2>1. /\ Len(frames') = Len(frames) + 1
        /\ \A i \in 1..Len(frames) : frames'[i] = frames[i]
        /\ frames'[Len(frames) + 1].recipient = b
        /\ frames'[Len(frames) + 1].actual = actual_sender(sender)
    <3>1. PICK kind \in {"call", "create", "create2"} : frames' = Opened(kind, sender, b)
      BY <1>9
    <3>2. /\ Len(frames') = Len(frames) + 1
          /\ \A i \in 1..Len(frames) : frames'[i] = frames[i]
          /\ frames'[Len(frames) + 1] = FrameOf(kind, sender, b)
      <4> DEFINE e == Opened(kind, sender, b)
      <4>1. /\ Len(e) = Len(frames) + 1
            /\ \A i \in 1..Len(frames) : e[i] = frames[i]
            /\ e[Len(frames) + 1] = FrameOf(kind, sender, b)
        BY <1>0, <3>1, EntryIsTyped
      <4>2. frames' = e
        BY <3>1
      <4> QED
        BY <4>1, <4>2
    <3> QED
      BY <3>2 DEF FrameOf
  <2>2. ASSUME NEW i \in 1..Len(frames')
        PROVE  \/ i \in 1..Len(frames) /\ frames'[i] = frames[i]
               \/ i = Len(frames) + 1
    BY <1>0, <2>1
  <2> QED
    BY <1>3, <1>4, <1>9, <2>1, <2>2
<1>10. CASE CreateStep
  <2> PICK sender \in Addresses : create(sender)
    BY <1>10 DEF CreateStep
  <2> DEFINE s == actual_sender(sender)
             b == Create(s, createNonce[s])
  <2>1. s \in Addresses
    BY <1>0, ActualIsAddress
  <2>2. /\ b \in Addresses /\ createNonce[s] < MaxNonce
        /\ createNonce' = [createNonce EXCEPT ![s] = @ + 1]
        /\ accounts' = Added(b) /\ frames' = Opened("create", sender, b)
    BY DEF create, NextNonce
  <2> HIDE DEF s
  <2>3. createNonce[s] \in Nonces /\ createNonce[s] \in Nat
    BY <1>0, <2>1, EvmAssumption DEF Nonces
  <2>4. createNonce'[s] = createNonce[s] + 1
    BY <1>0, <2>1, <2>2
  <2>5. DerivedFrom(createNonce', s, b)
    <3>1. createNonce[s] < createNonce'[s]
      BY <2>3, <2>4
    <3> QED
      BY <2>3, <3>1 DEF DerivedFrom
  <2>6. \A t \in Addresses : createNonce'[t] >= createNonce[t]
    BY <1>0, <2>1, <2>2, <2>3, EvmAssumption DEF Nonces
  <2>7. frames' = Opened("create", sender, b)
    BY <2>2
  <2>8. DerivedFrom(createNonce', actual_sender(sender), b)
    BY <2>5 DEF s
  <2> HIDE DEF b
  <2> QED
    BY <1>9, <2>2, <2>6, <2>7, <2>8
<1>11. CASE Create2Step
  <2> PICK sender \in Addresses, code \in Codes : create2(sender, code)
    BY <1>11 DEF Create2Step
  <2> DEFINE b == Create2(actual_sender(sender), code)
  <2>1. /\ b \in Addresses /\ createNonce' = createNonce
        /\ accounts' = Added(b) /\ frames' = Opened("create2", sender, b)
    BY DEF create2
  <2>2. DerivedFrom(createNonce', actual_sender(sender), b)
    BY DEF DerivedFrom
  <2> HIDE DEF b
  <2> QED
    BY <1>5, <1>9, <2>1, <2>2
<1>12. CASE ReturnStep
  <2>1. /\ \A i \in 1..Len(frames') : i \in 1..Len(frames) /\ frames'[i] = frames[i]
        /\ Top \in Frame /\ Len(frames) \in 1..Len(frames) /\ Top = frames[Len(frames)]
    BY <1>0, <1>12, ReturnIsTyped DEF ReturnStep
  <2>2. createNonce' = createNonce
    BY <1>12 DEF ReturnStep
  <2>3. Top.actual \in Addresses /\ Top.recipient \in Addresses
    BY <2>1 DEF Frame
  <2>4. ASSUME NEW a \in Addresses, accounts'[a] # NoAccount, accounts'[a].coded
        PROVE  \/ accounts'[a] = accounts[a]
               \/ accounts'[a].creator \in Addresses /\ DerivedFrom(createNonce', accounts'[a].creator, a)
    <3>1. CASE UNCHANGED accounts
      BY <3>1
    <3>2. CASE accounts' = [accounts EXCEPT ![Top.recipient] = NoAccount]
      BY <1>0, <2>3, <2>4, <3>2
    <3>3. ASSUME Top.kind # "call", NEW coded \in BOOLEAN,
                 accounts' = [accounts EXCEPT ![Top.recipient] = deploy_contract(Top, coded)]
          PROVE  \/ accounts'[a] = accounts[a]
                 \/ accounts'[a].creator \in Addresses
                    /\ DerivedFrom(createNonce', accounts'[a].creator, a)
      <4>1. DerivedFrom(createNonce, Top.actual, Top.recipient)
        BY <2>1, <3>3
      <4>2. DerivedFrom(createNonce', Top.actual, Top.recipient)
        BY <2>2, <4>1
      <4>3. a = Top.recipient => accounts'[a].creator = Top.actual
        BY <1>0, <2>3, <3>3 DEF deploy_contract
      <4>4. a # Top.recipient => accounts'[a] = accounts[a]
        BY <1>0, <2>3, <3>3
      <4> QED
        BY <2>3, <4>2, <4>3, <4>4
    <3> QED
      BY <1>12, <3>1, <3>2, <3>3 DEF ReturnStep
  <2> QED
    BY <1>3, <1>5, <2>1, <2>2, <2>4
<1>13. CASE UNCHANGED evmVars
  BY <1>3, <1>5, <1>6, <1>13 DEF evmVars
<1> QED
  BY <1>7, <1>8, <1>10, <1>11, <1>12, <1>13, StepCases

LEMMA CreatorInvariant == EvmSpec => []CreatorInv
<1>1. EvmInit => CreatorInv
  BY TypeInit DEF EvmInit, CreatorInv
<1>2. CreatorInv /\ [EvmNext]_evmVars => CreatorInv'
  BY CreatorStep
<1> QED
  BY <1>1, <1>2, PTL DEF EvmSpec

\* The deployment metadata of every contract names the account its address was
\* derived from, whatever constructors called, created or destroyed on the way.
THEOREM CreatorCorrect == EvmSpec => []CreatorDerivesAddress
<1>1. CreatorInv => CreatorDerivesAddress
  BY DEF CreatorInv, CreatorDerivesAddress, Runnable, account_exists, DerivedFrom
<1> QED
  BY <1>1, CreatorInvariant, PTL
=============================================================================
