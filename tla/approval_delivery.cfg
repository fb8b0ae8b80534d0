SPECIFICATION FairSpec
CONSTANTS
    Loops = {l1, l2}
    worker_id <- OneProcess
    MaxRounds = 1
    MaxTokens = 2
    MaxEvents = 2
    outbox_max_attempts = 2
    MayRefuse = TRUE
    MaxCrashes = 0
    MaxFaults = 1
    MaxLapses = 1
    MaxOperator = 0
    MaxHuman = 1
PROPERTIES ApprovalTakesEffect
CHECK_DEADLOCK FALSE
