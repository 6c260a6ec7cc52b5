SPECIFICATION Spec
CONSTANTS
  c1 = c1
  c2 = c2
  a1 = a1
  a2 = a2
  a3 = a3
  payer = payer
  seller = seller
  other = other
  local = local
  jpyc = jpyc
  None = None
  Channel <- MCChannel
  Kept <- MCKept
  Config <- MCConfig
  Local = local
  Zero = Zero
  Token = jpyc
  Delay = {900, 1000}
  Version = 1
  MaxClaims = 2
  Seller = {seller}
  Writer = {w1}
  Controller = Controller
  CreditPayTo = other
  CreditTimeout = 60
  Session = {s1}
  Vouchers <- MCVouchers
  Balance = {0, 2}
  Claimed = {0, 1}
  RuntimeDelay = 900
  MaxStored = 1
  MaxRevision = 3
  Offered <- MCOffered
  Asked <- MCAsked
  Charges = {0, 1}
  Docs = {"draft", "v1"}
  DraftDocs = {"draft"}
  DefaultDocs = "draft"
  NoDocs = "none"
  Floor = 2
  Fees = {1, 2}
  KindFees <- MCKindFees
  Schedules <- MCSchedules
  NotAccepted = NotAccepted
  Lifetime = 1
  MaxTime = 2
  MaxSigned = 2
  Key = {1, 2, 3, 4}
  Payee <- MCPayee
  NoRecord = NoRecord
  NoCursor = NoCursor
  Limit = 1
  LastSecond = 1
INVARIANTS
  TypeOK
  VerifiedChargeable
  PricesHonoured
  
  IndexMatches
  PagesComplete
  EncoderFed
  CallAuthorised
  SellerConsented
PROPERTIES
  SawItsRow
  DisabledFrozen
  DepositStaysSettleable
SYMMETRY Symmetry
