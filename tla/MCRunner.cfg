SPECIFICATION Spec
CONSTANTS
    Engine = {e1}
    None = none
    Reaper = reaper
    LastPart = 2
    Statement = {alter, other}
    BaseShape = base
    Kinds = {"live", "quiesced"}
    Restarts = {FALSE, TRUE}
    ReplaceDone = TRUE
    KeepOlds = {FALSE, TRUE}
    LockAttempts = 1
    MaxWrites = 1
    MaxOID = 3
    MaxMishaps = 2
    MaxLosses = 1
SYMMETRY StatementSymmetry
INVARIANTS LiveTableHoldsEveryWrite VerifyFindsNothing SwapIsRecorded RowIsHonest DoneIsWhatWasAsked
PROPERTIES ReaperSparesLiveSlots
