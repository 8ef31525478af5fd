SPECIFICATION Spec
CONSTANTS
  Key = {1, 2, 3}
  NoKey = 0
  Scenarios <- WritesAfterCopy
  Workers = 1
INVARIANTS RefusalIsForeign
CHECK_DEADLOCK FALSE
