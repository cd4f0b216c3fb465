SPECIFICATION Spec
CONSTANTS
  Threads = {t1, t2}
  Workers = {}
  Inline = {}
  SlotCount = 2
  MaxWatches = 1
  Faulty = {t1}
  Kinds = {"stop"}
  None = None
  Guard = Guard
  Reserved = Reserved
INVARIANTS ExclusiveUnlessDisowned NoFreedBox NobodyMissed
PROPERTY AskedThreadStops
CHECK_DEADLOCK FALSE
