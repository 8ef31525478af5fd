SPECIFICATION Spec
CONSTANTS
    Engine = {e1, e2}
    None = none
    Reaper = reaper
    LastPart = 1
    Statement = {alter}
    BaseShape = base
    Kinds = {"live"}
    Restarts = {FALSE}
    ReplaceDone = FALSE
    KeepOlds = {FALSE}
    LockAttempts = 1
    MaxWrites = 1
    MaxOID = 2
    MaxMishaps = 2
    MaxLosses = 1
INVARIANTS LiveTableHoldsEveryWrite
