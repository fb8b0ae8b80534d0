SPECIFICATION Spec
CONSTANTS
    Loops = {l1, l2}
    worker_id <- OneProcess
    MaxRounds = 2
    MaxTokens = 2
    MaxEvents = 1
    outbox_max_attempts = 2
    MayRefuse = TRUE
    MaxCrashes = 1
    MaxFaults = 0
    MaxLapses = 0
    MaxOperator = 2
    MaxHuman = 0
SYMMETRY LoopSymmetry
INVARIANTS TypeOK GrantHasDelivery WritesOnce ButtonsWork
PROPERTIES KeepsItsPromise
CHECK_DEADLOCK FALSE
