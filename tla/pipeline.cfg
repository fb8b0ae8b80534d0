SPECIFICATION Spec
CONSTANTS
    Loops = {l1, l2}
    Checks = {c1}
    required_checks = {c1}
    max_attempts_per_kind = 2
    MaxHeads = 2
    MaxSnapshots = 2
    MaxRuns = 3
    MaxFaults = 0
    MaxCrashes = 0
    MaxLapses = 1
    MaxOperator = 2
INVARIANTS TypeOK PassedIsEarned OneVerifiedPR HeadVerdictStands
SYMMETRY LoopSymmetry
CHECK_DEADLOCK FALSE
