SPECIFICATION Spec
CONSTANTS
  s1 = s1
  s2 = s2
  Seller = {s1}
  Facilitator = Facilitator
  None = None
  Handler = {h1, h2}
  Request <- SettleRequests
  Fee = {1}
  TopUp = 0
  InitCredit = 2
  Gas = {1}
  MaxNonce = 2
  MaxClaimed = 2
  AllowTraps = FALSE
INVARIANTS
  SellerSerial
SYMMETRY Symmetry
CHECK_DEADLOCK FALSE
