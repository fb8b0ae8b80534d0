SPECIFICATION FairSpec
CONSTANTS
    Loops = {l1, l2}
    worker_id <- OneProcess
    MaxRounds = 1
    MaxTokens = 2
    MaxEvents = 1
    outbox_max_attempts = 2
    MayRefuse = FALSE
    MaxCrashes = 1
    MaxFaults = 0
    MaxLapses = 0
    MaxOperator = 0
    MaxHuman = 0
PROPERTIES ApprovalTakesEffect
CHECK_DEADLOCK FALSE
