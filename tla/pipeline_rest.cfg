SPECIFICATION FairSpec
CONSTANTS
    Loops = {l1}
    Checks = {c1, c2}
    required_checks = {}
    max_attempts_per_kind = 2
    MaxHeads = 1
    MaxSnapshots = 2
    MaxRuns = 9
    MaxFaults = 2
    MaxCrashes = 1
    MaxLapses = 0
    MaxOperator = 2
INVARIANTS SpendIsAuthorised HeadVerdictStands
PROPERTIES ComesToRest
CHECK_DEADLOCK FALSE
