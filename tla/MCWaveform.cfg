SPECIFICATION Spec
CONSTANTS
  GroupSize = 2
  Declared <- MCDeclared
  MaxTime = 3
  MaxEmits = 3
  MaxOthers = 1
  RecordLimit = 2
  AliasSize = 1
INVARIANTS BlocksValid ChangesReadBack ValuesReadBack ActivityExact
CHECK_DEADLOCK FALSE
