SPECIFICATION Spec
CONSTANTS
  LastProducer = 1
  MaxTime = 2
  MaxCaptures = 4
  MaxCalls = 3
  RingSize = 2
  IngestLimit = 1
  PendingLimit = 1
  Fates = {"good"}
  Calls = {"add", "done", "flush", "close"}
  MayFail = FALSE
  MayRescue = FALSE
INVARIANTS AlwaysLegal Conserved PendingBudget
PROPERTY MergeSpec
CHECK_DEADLOCK FALSE
