SPECIFICATION FairSpec
CONSTANTS
  LastProducer = 1
  MaxTime = 0
  MaxCaptures = 2
  MaxCalls = 1
  RingSize = 1
  IngestLimit = 1
  PendingLimit = 0
  Fates = {"good", "panic"}
  Calls = {"add", "flush", "control", "stats", "close", "drop"}
  MayFail = TRUE
  MayRescue = TRUE
PROPERTIES MergeSpec CapturesEnd CallsReturn OwnerLeaves RescueReturns
CHECK_DEADLOCK FALSE
