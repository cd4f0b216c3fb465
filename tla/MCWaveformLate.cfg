SPECIFICATION Spec
CONSTANTS
  GroupSize = 2
  Declared <- MCDeclared
  MaxTime = 2
  MaxEmits = 3
  MaxOthers = 1
  RecordLimit = 2
  AliasSize = 1
INVARIANT LateSignalReads
CHECK_DEADLOCK FALSE
