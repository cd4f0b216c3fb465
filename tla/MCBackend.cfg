SPECIFICATION Spec
CONSTANTS
  PageRows = 2
  SeparateLogs = TRUE
  p1 = p1
  p2 = p2
  Producers = {p1, p2}
  BlockRecords = 3
  SeparateClocks = FALSE
  Slots = 1
  Menus <- MCMenus
  MaxId = 3
INVARIANTS PrefixesValid OwnersOutliveRecords QueriesExact OneAuthor
           CyclesExact SummariesExact
PROPERTY LedgerSpec
CHECK_DEADLOCK FALSE
