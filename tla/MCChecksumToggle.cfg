SPECIFICATION Spec
CONSTANTS
  Keys = {1, 2, 3}
  Scenarios <- Toggling
  MaxWrites = 3
  Attempts = 2
  RecopyAttempts = 2
INVARIANTS DivergenceIsReal
CHECK_DEADLOCK FALSE
