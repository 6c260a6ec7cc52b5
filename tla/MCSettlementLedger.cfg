SPECIFICATION Spec
CONSTANTS
  s1 = s1
  s2 = s2
  Seller = {s1}
  Facilitator = Facilitator
  None = None
  Handler = {h1, h2, h3}
  Request <- LedgerRequests
  Fee = {1}
  TopUp = 1
  InitCredit = 1
  Gas = {1}
  MaxNonce = 2
  MaxClaimed = 2
  AllowTraps = FALSE
INVARIANT
  TopUpBacked
PROPERTY
  ImplementsPayment
SYMMETRY Symmetry
CHECK_DEADLOCK FALSE
