SPECIFICATION Spec
CONSTANTS
  s1 = s1
  s2 = s2
  Seller = {s1, s2}
  Facilitator = Facilitator
  None = None
  Handler = {h1, h2}
  Request <- ExactRequests
  Fee = {1, 2}
  TopUp = 0
  InitCredit = 2
  Gas = {1}
  MaxNonce = 2
  MaxClaimed = 0
  AllowTraps = TRUE
INVARIANTS
  CreditConservation
  NonceUnique
PROPERTIES
  FeeKeptAfterBroadcast
SYMMETRY Symmetry
