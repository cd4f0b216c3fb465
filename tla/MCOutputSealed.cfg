SPECIFICATION Spec
CONSTANTS
  Encoders = {e1}
  MaxJobs = 1
  MaxBytes = 2
  Sizes = {1}
  MaxSections = 2
  MaxParts = 1
  Faults = {"directory"}
INVARIANT SealedReopens
CHECK_DEADLOCK FALSE
