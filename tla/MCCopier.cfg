SPECIFICATION FairSpec
CONSTANTS
    w1 = w1
    w2 = w2
    Workers <- MCWorkers
    MinInt64 = 1
    MaxInt64 = 3
    BatchRows = 1
    Limits <- MCLimits
INVARIANTS LandedIsCovered NeverRefuses NoStaleRow SavedIsPresent
PROPERTIES MeetsContract RunReturns
CHECK_DEADLOCK FALSE
