---------------------------- MODULE MCEvmStorage ----------------------------
(* Instances of EvmStorage: an address is its owner or its derivation.     *)
EXTENDS EvmStorage

CONSTANTS o1, c1

MCOwners == {o1}
MCCallers == {o1, Zero}
MCCodes == {c1}

MCCreate(sender, nonce) == [by |-> sender, nonce |-> nonce]
MCCreate2(sender, code) == [by |-> sender, code |-> code]

Contract == MCCreate2(o1, c1)

MCAddresses ==
  {Zero, o1, Contract}
  \cup {MCCreate(Contract, n) : n \in FirstNonce..MaxNonce}
  \cup {MCCreate2(Contract, c1)}
=============================================================================
