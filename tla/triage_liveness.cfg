CONSTANTS
    Loops = {w1, w2}
    Operator = op
    NoOne = none
    MaxAttempts = 1
    MaxFaults = 2
    MayStall = FALSE
    MayResume = TRUE
SPECIFICATION FairSpec

PROPERTY SessionsSettle
CHECK_DEADLOCK FALSE
