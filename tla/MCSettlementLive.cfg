SPECIFICATION FairSpec
CONSTANTS
  s1 = s1
  s2 = s2
  Seller = {s1}
  Facilitator = Facilitator
  None = None
  Handler = {h1, h2}
  Request <- OneSellerRequests
  Fee = {1}
  TopUp = 0
  InitCredit = 2
  Gas = {1}
  MaxNonce = 2
  MaxClaimed = 0
  AllowTraps = FALSE
PROPERTIES
  PendingResolves
  LockReleased
