SPECIFICATION Spec
CONSTANTS
  Channel = {c1, c2}
  None = None
  Manual = Manual
  Threshold = 1
  MaxOutstanding = 1
  MaxCollections = 2
  Concurrency = 1
  Fee = 1
  InitCredit = 2
  Events = {"nonce", "lock"}
  MaxCharged = 1
  MaxSequence = 1
  MaxNonce = 1
INVARIANTS
  JournalAgrees
  NonceUnique
SYMMETRY Symmetry
