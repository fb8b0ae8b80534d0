SPECIFICATION FairSpec
CONSTANTS
    None = None
    Cases = {k1}
    MaxHandlers = 3
    MaxRetries = 1
    MaxFaults = 2
INVARIANTS TypeOK VerdictsAreGenuine NothingOutlivesItsRun RunsOnce BusyIsNoVerdict
PROPERTIES EveryProbeSettles
CHECK_DEADLOCK FALSE
