CONSTANTS
    c1 = c1
    c2 = c2
    c3 = c3
    k1 = k1
    k2 = k2
    r1 = r1
    r2 = r2
    Cases = {c1, c2}
    ResourceKey = {k1}
    resource_keys <- SharedKey
    Repository <- SameRepository
    Limit <- Limits1
    PerRepository = 1
    Entry = "RECEIVED"
    Approvals = TRUE
    Lapsing = {"event", "idle", "terminating"}
    MaxFaults = 1
SPECIFICATION FairSpec
PROPERTIES
    TriageAdmitted
    LeasesComeBack
CHECK_DEADLOCK FALSE
