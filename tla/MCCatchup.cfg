SPECIFICATION Spec
CONSTANTS
  Key = {1, 2, 3}
  NoKey = 0
  Scenarios <- WritesAndRestarts
  Workers = 1
INVARIANTS TypeOK InSync ConfirmedBelowUnapplied NoProtocolError BufferCoherent
PROPERTIES FlushOnlyLanded MeetsContract
CHECK_DEADLOCK FALSE
