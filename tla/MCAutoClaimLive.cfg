SPECIFICATION FairSpec
CONSTANTS
  Channel = {c1}
  None = None
  Manual = Manual
  Threshold = 2
  MaxOutstanding = 2
  MaxCollections = 1
  Concurrency = 1
  Fee = 1
  InitCredit = 2
  Events = {"withdraw", "revert", "stale"}
  MaxCharged = 2
  MaxSequence = 2
  MaxNonce = 1
PROPERTIES
  DebtCollected
  AutoLockReleased
