CONSTANTS
    Loops = {w1, w2}
    Operator = op
    NoOne = none
    MaxAttempts = 1
    MaxFaults = 2
    MayStall = TRUE
    MayResume = FALSE
SPECIFICATION Spec
SYMMETRY LoopSymmetry
INVARIANTS
    OneCreatePerKey
    FreshCreates
    ApprovalRestsOnOutput
PROPERTY OnlyLegalMoves
CHECK_DEADLOCK FALSE
