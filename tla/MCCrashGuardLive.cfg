SPECIFICATION FairSpec
CONSTANTS
  Threads = {t1, t2}
  Workers = {}
  Inline = {t2}
  SlotCount = 1
  MaxWatches = 1
  Faulty = {}
  Kinds = {"stop", "exit"}
  None = None
  Guard = Guard
  Reserved = Reserved
PROPERTY RescueEnds
CHECK_DEADLOCK FALSE
