SPECIFICATION Spec
CONSTANTS
  Channel = {c1}
  None = None
  Manual = Manual
  Threshold = 2
  MaxOutstanding = 2
  MaxCollections = 1
  Concurrency = 1
  Fee = 1
  InitCredit = 2
  Events = {"error", "trap", "elsewhere", "revert", "delete", "stale"}
  MaxCharged = 3
  MaxSequence = 2
  MaxNonce = 1
INVARIANTS
  TypeOK
  FeeConserved
  JournalAgrees
  AttemptCovered
  DebtCounted
  NoSleepingDebt
  BacklogBounded
PROPERTIES
  NotAbandoned
  JournalKept
