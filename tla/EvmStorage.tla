----------------------------- MODULE EvmStorage -----------------------------
(***************************************************************************)
(* The accounts of the embedded EVM (EVMStorage, the evmc host) and the    *)
(* calls that nest in it.  EVM::deploy and EVM::execute hand a message to  *)
(* EVMStorage::call; evmone runs the code of the recipient and comes back  *)
(* to the host for storage, calls, creations and selfdestruct, so call is  *)
(* entered again before it has returned.                                   *)
(*                                                                         *)
(* What contracts do is not the server's choice: the frame on top may do   *)
(* anything evmone lets a contract do.  Values in storage, gas and         *)
(* balances decide nothing here and are left out.                          *)
(***************************************************************************)
EXTENDS Naturals, Sequences, SequencesExt

CONSTANTS
  Addresses,          \* all addresses
  Owners,             \* accounts of users, and the genesis account: they deploy
  Callers,            \* senders of execute: users, and the PT registry or zero
  Zero,               \* the zero address
  Codes,              \* init codes
  Create(_, _),       \* derive_create_address(sender, nonce)
  Create2(_, _),      \* derive_create2_address(sender, salt, code), one salt
  FirstNonce,         \* 100
  MaxNonce,           \* bound: the last nonce of a creator
  MaxDepth,           \* bound: frames (1024 in evmone)
  MaxLeft,            \* bound: entries of the sender stack
  NoAccount

Nonces == FirstNonce..MaxNonce

\* Hashes do not collide, and none is zero.
ASSUME DerivationAssumption ==
  /\ \A s, t \in Addresses : \A m, n \in Nonces :
       Create(s, m) = Create(t, n) => s = t /\ m = n
  /\ \A s, t \in Addresses : \A m \in Nonces : \A c \in Codes :
       Create(s, m) # Create2(t, c)
  /\ \A s \in Addresses : \A m \in Nonces : Create(s, m) \notin Owners \cup {Zero}
  /\ \A s \in Addresses : \A c \in Codes : Create2(s, c) \notin Owners \cup {Zero}

ASSUME EvmAssumption ==
  /\ FirstNonce \in Nat /\ MaxNonce \in Nat /\ FirstNonce <= MaxNonce
  /\ MaxDepth \in Nat /\ MaxLeft \in Nat
  /\ Owners \subseteq Addresses \ {Zero} /\ Zero \in Addresses
  /\ Callers \subseteq Addresses

\* `coded': the account has code; `creator': of its deployment metadata.
Account == [coded : BOOLEAN, creator : Addresses]

ASSUME NoAccountAssumption == NoAccount \notin Account

\* A call of EVMStorage::call that has not returned: what it runs, for whom, and
\* who it takes for the sender.
Frame == [kind : {"call", "create", "create2"}, recipient : Addresses, sender : Addresses,
          actual : Addresses]

VARIABLES
  accounts,      \* _accounts
  createNonce,   \* _create_nonce; a missing entry becomes 100 before it is used
  senderStack,   \* _sender_stack
  frames         \* the C++ stack: calls in progress, the innermost last

evmVars == <<accounts, createNonce, senderStack, frames>>

\* The constructor of EVM makes the coroutines that would add the genesis and the
\* console account and drops them: they never run.
EvmInit ==
  /\ accounts = [a \in Addresses |-> NoAccount]
  /\ createNonce = [a \in Addresses |-> FirstNonce]
  /\ senderStack = <<>>
  /\ frames = <<>>

account_exists(a) == accounts[a] # NoAccount

\* (mutant) an account without its deployment metadata
Bare == [coded |-> FALSE]

Fresh == [coded |-> FALSE, creator |-> Zero]

Added(a) == [accounts EXCEPT ![a] = IF @ = NoAccount THEN Fresh ELSE @]

\* The account that deployFeature and deployTransformation add for an owner.
addAccount ==
  /\ frames = <<>>
  /\ \E a \in Owners : ~account_exists(a) /\ accounts' = Added(a)
  /\ UNCHANGED <<createNonce, senderStack, frames>>

-----------------------------------------------------------------------------
(* EVMStorage::call *)

actual_sender(sender) ==
  IF sender = Zero /\ senderStack # <<>> THEN Last(senderStack) ELSE sender

Pushed(sender) == Append(senderStack, actual_sender(sender))

Opened(kind, sender, recipient) ==
  Append(frames, [kind |-> kind, recipient |-> recipient, sender |-> sender,
                  actual |-> actual_sender(sender)])

Runnable(a) == IF account_exists(a) THEN accounts[a].coded ELSE FALSE

\* (mutant) the early return pops, but the push comes after it
CallFailsAndPops(sender, recipient) ==
  /\ ~Runnable(recipient)
  /\ senderStack' = IF senderStack = <<>> THEN <<>> ELSE Front(senderStack)
  /\ UNCHANGED <<accounts, createNonce, frames>>

\* An early return: no account or no code.  The sender stays on the stack.
CallFails(sender, recipient) ==
  /\ ~Runnable(recipient)
  /\ senderStack' = Pushed(sender)
  /\ UNCHANGED <<accounts, createNonce, frames>>

CallRuns(sender, recipient) ==
  /\ Runnable(recipient)
  /\ senderStack' = Pushed(sender)
  /\ frames' = Opened("call", sender, recipient)
  /\ UNCHANGED <<accounts, createNonce>>

call(sender, recipient) == CallFails(sender, recipient) \/ CallRuns(sender, recipient)

\* (mutant) the nonce is not counted up
SameNonce(s) == createNonce

NextNonce(s) == [createNonce EXCEPT ![s] = @ + 1]

create(sender) ==
  LET s == actual_sender(sender)  new_address == Create(s, createNonce[s]) IN
  /\ createNonce[s] < MaxNonce /\ new_address \in Addresses
  /\ createNonce' = NextNonce(s)
  /\ senderStack' = Pushed(sender)
  /\ accounts' = Added(new_address)
  /\ frames' = Opened("create", sender, new_address)

\* The address may have an account, and code, already.
create2(sender, code) ==
  LET new_address == Create2(actual_sender(sender), code) IN
  /\ new_address \in Addresses
  /\ senderStack' = Pushed(sender)
  /\ accounts' = Added(new_address)
  /\ frames' = Opened("create2", sender, new_address)
  /\ UNCHANGED createNonce

\* (mutant) the creator is looked up when its entry has been popped
creatorOnTop(f, coded) ==
  [coded |-> coded,
   creator |-> IF Len(senderStack) > 1 THEN Last(Front(senderStack)) ELSE Zero]

\* deploy_contract: the constructor may return no code.
deploy_contract(f, coded) == [coded |-> coded, creator |-> f.actual]

\* What both returns after _vm.execute do.
Return == senderStack' = Front(senderStack) /\ frames' = Front(frames)

-----------------------------------------------------------------------------
(* From outside, when no call is in progress *)

Bounded == Len(frames) < MaxDepth /\ Len(senderStack) < MaxLeft

\* EVM::deploy refuses what is no bytecode before it gets to the host.
deploy ==
  /\ frames = <<>> /\ Bounded
  /\ \E sender \in Owners, code \in Codes : create2(sender, code)

\* EVM::execute: GET_execute calls for a user, fetchOwner and the GET handlers for
\* the PT registry, whose address is zero while it is not deployed.
execute ==
  /\ frames = <<>> /\ Bounded
  /\ \E sender \in Callers, recipient \in Addresses \ {Zero} : call(sender, recipient)

-----------------------------------------------------------------------------
(* From the contract that runs *)

Top == Last(frames)

set_storage ==
  /\ frames # <<>>
  /\ accounts' = Added(Top.recipient)
  /\ UNCHANGED <<createNonce, senderStack, frames>>

CallNested ==
  /\ frames # <<>> /\ Bounded
  /\ \E recipient \in Addresses : call(Top.recipient, recipient)

\* The code that runs is that of the recipient, which is the caller itself.
DelegateNested ==
  /\ frames # <<>> /\ Bounded
  /\ call(Top.sender, Top.recipient)

CreateNested ==
  /\ frames # <<>> /\ Bounded
  /\ create(Top.recipient) \/ \E code \in Codes : create2(Top.recipient, code)

Succeed ==
  /\ frames # <<>>
  /\ IF Top.kind # "call" /\ account_exists(Top.recipient)
     THEN \E coded \in BOOLEAN :
            accounts' = [accounts EXCEPT ![Top.recipient] = deploy_contract(Top, coded)]
     ELSE UNCHANGED accounts
  /\ Return
  /\ UNCHANGED createNonce

\* A revert, or no gas: what the frame has written stays.
Fail ==
  /\ frames # <<>>
  /\ Return
  /\ UNCHANGED <<accounts, createNonce>>

\* The account is erased and the frame ends with success.
selfdestruct ==
  /\ frames # <<>>
  /\ accounts' = [accounts EXCEPT ![Top.recipient] = NoAccount]
  /\ Return
  /\ UNCHANGED createNonce

EvmNext ==
  \/ addAccount \/ deploy \/ execute
  \/ set_storage \/ CallNested \/ DelegateNested \/ CreateNested
  \/ Succeed \/ Fail \/ selfdestruct

EvmSpec == EvmInit /\ [][EvmNext]_evmVars

-----------------------------------------------------------------------------
\* The type invariant
EvmTypeOK ==
  /\ accounts \in [Addresses -> Account \cup {NoAccount}]
  /\ createNonce \in [Addresses -> Nonces]
  /\ senderStack \in Seq(Addresses)
  /\ frames \in Seq(Frame)

\* However calls nest and fail, the sender stack has an entry for every call in
\* progress: pop() is never asked of an empty std::stack (EVMStorage::call pushes
\* at its head and pops on two of its five ways out).
SendersCoverFrames == Len(senderStack) >= Len(frames)

\* A CREATE never runs on an account that exists, also when the creator is
\* entered again from the constructor it runs, was destroyed, or created by
\* CREATE2 as well (_create_nonce).
CreateIsFresh ==
  [][Len(frames') > Len(frames) /\ Last(frames').kind = "create" =>
       accounts[Last(frames').recipient] = NoAccount]_evmVars

\* The deployment metadata names the account whose address the contract's own
\* address was derived from, whatever the constructor called or created.
CreatorDerivesAddress ==
  \A a \in Addresses :
    Runnable(a) =>
      LET s == accounts[a].creator IN
      \/ \E n \in Nonces : n < createNonce[s] /\ a = Create(s, n)
      \/ \E c \in Codes : a = Create2(s, c)

\* evm_storage.cpp:97 takes a sender stack that is not empty for `we are in a
\* nested context': at rest it is empty.
NestedWhenNotEmpty == senderStack # <<>> => frames # <<>>
=============================================================================
