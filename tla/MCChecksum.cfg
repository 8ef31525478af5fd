SPECIFICATION Spec
CONSTANTS
  Keys = {1, 2, 3}
  Scenarios <- Passes
  MaxWrites = 2
  Attempts = 2
  RecopyAttempts = 2
INVARIANTS PassIsSound DivergenceIsReal
PROPERTIES PassEnds
CHECK_DEADLOCK FALSE
