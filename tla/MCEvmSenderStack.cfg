SPECIFICATION EvmSpec
CONSTANTS
  o1 = o1
  c1 = c1
  Zero = Zero
  NoAccount = NoAccount
  Addresses <- MCAddresses
  Owners <- MCOwners
  Callers <- MCCallers
  Codes <- MCCodes
  Create <- MCCreate
  Create2 <- MCCreate2
  FirstNonce = 100
  MaxNonce = 102
  MaxDepth = 4
  MaxLeft = 4
INVARIANT
  NestedWhenNotEmpty
