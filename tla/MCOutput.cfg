SPECIFICATION MCSpec
CONSTANTS
  Encoders = {e1, e2}
  MaxJobs = 2
  MaxBytes = 7
  Sizes = {2, 5, 9}
  MaxSections = 5
  MaxParts = 1
  Faults = {"section", "flush", "directory"}
  Limit = 5
  Threshold = 3
  Lengths = {0, 2, 3, 6}
  MaxTakes = 4
INVARIANTS Accounted WithinBudget SealReadable Retained NothingForgotten
PROPERTIES OutputSpec CallsEnd
CHECK_DEADLOCK FALSE
