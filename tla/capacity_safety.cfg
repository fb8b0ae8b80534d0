CONSTANTS
    c1 = c1
    c2 = c2
    c3 = c3
    k1 = k1
    k2 = k2
    r1 = r1
    r2 = r2
    Cases = {c1, c2, c3}
    ResourceKey = {k1}
    resource_keys <- OneShared
    Repository <- TwoRepositories
    Limit <- Limits2
    PerRepository = 1
    Entry = "PROBE_VALIDATING_BASE"
    Approvals = FALSE
    Lapsing = {}
    MaxFaults = 1
SPECIFICATION Spec
INVARIANTS
    TypeOK
    SessionsWithinLimit
    ExclusiveKeys
CHECK_DEADLOCK FALSE
