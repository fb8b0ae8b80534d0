SPECIFICATION FairSpec
CONSTANTS
    None = None
    Deliveries = {d1, d2}
    Loops = {l1, l2}
    event_max_attempts = 2
    MaxFaults = 2
INVARIANTS TypeOK EvaluatedOnce
PROPERTIES SettledStaysSettled NoIssueLost DeliveriesSettle
CHECK_DEADLOCK FALSE
