SPECIFICATION Spec
CONSTANTS
  Threads = {t1, t2}
  Workers = {}
  Inline = {}
  SlotCount = 2
  MaxWatches = 1
  Faulty = {}
  Kinds = {"stop"}
  None = None
  Guard = Guard
  Reserved = Reserved
INVARIANT ExclusiveRescue
CHECK_DEADLOCK FALSE
