SPECIFICATION FairSpec
CONSTANTS
    r1 = r1
    r2 = r2
    r3 = r3
    k1 = k1
    Requests <- TwoRequests
    Keys <- OneKey
    Batches <- LastingBatches
    Permits = 1
    Limit <- TwoPerWindow
    Width = 1
    Fallbacks = 0
    FallbackOnFinality = FALSE
    OpenRpcEnabled = TRUE
    HealthTtl = 1
    ProbeTimeout = 1
    SyncStates = {TRUE}
    MaxTime = 0
    MaxRestarts = 1
    Signals = TRUE
INVARIANT PermitsAccounted
PROPERTIES
    EveryRequestAnswered
    ShutdownEnds
CHECK_DEADLOCK FALSE
