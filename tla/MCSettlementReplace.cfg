SPECIFICATION Spec
CONSTANTS
  s1 = s1
  s2 = s2
  Seller = {s1}
  Facilitator = Facilitator
  None = None
  Handler = {h1, h2, h3}
  Request <- OneSellerRequests
  Fee = {1, 2}
  TopUp = 0
  InitCredit = 2
  Gas = {1, 2}
  MaxNonce = 2
  MaxClaimed = 0
  AllowTraps = FALSE
INVARIANTS
  TypeOK
  OneNoncePerKey
  RecordsAgreeWithChain
  NoOrphanLock
  NoNonceGap
  LockHeldWhileOpen
PROPERTIES
  RefundOnlyUnsent
  ImplementsPayment
SYMMETRY Symmetry
