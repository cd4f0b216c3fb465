SPECIFICATION FairSpec
CONSTANTS
  LastProducer = 0
  MaxTime = 1
  MaxCaptures = 2
  MaxCalls = 1
  RingSize = 2
  IngestLimit = 2
  PendingLimit = 1
  Fates = {"good", "rejected"}
  Calls = {}
  MayFail = FALSE
  MayRescue = TRUE
PROPERTY RescueSeals
CHECK_DEADLOCK FALSE
