SPECIFICATION Spec
CONSTANTS
    r1 = r1
    r2 = r2
    r3 = r3
    k1 = k1
    Requests <- TwoRequests
    Keys <- OneKey
    Batches <- UnseenBatches
    Permits = 1
    Limit <- Unlimited
    Width = 2
    Fallbacks = 2
    FallbackOnFinality = TRUE
    OpenRpcEnabled = FALSE
    HealthTtl = 2
    ProbeTimeout = 1
    SyncStates = {TRUE, FALSE}
    MaxTime = 2
    MaxRestarts = 0
    Signals = FALSE
PROPERTY EveryFinalityBacked
CHECK_DEADLOCK FALSE
