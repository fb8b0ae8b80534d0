CONSTANTS
    Loops = {w1, w2}
    Operator = op
    NoOne = none
    MaxAttempts = 2
    MaxFaults = 1
    MayStall = FALSE
    MayResume = TRUE
SPECIFICATION Spec
SYMMETRY LoopSymmetry
INVARIANTS
    TypeOK
    OneActiveAttempt
    OneRetainedSession
    BlockedCaseHasCause
    
PROPERTY NoCreateBehindOpenAttempt
CHECK_DEADLOCK FALSE
