SPECIFICATION Spec
CONSTANTS
    r1 = r1
    r2 = r2
    r3 = r3
    k1 = k1
    Requests <- ThreeRequests
    Keys <- OneKey
    Batches <- GateBatches
    Permits = 1
    Limit <- TwoPerWindow
    Width = 1
    Fallbacks = 0
    FallbackOnFinality = FALSE
    OpenRpcEnabled = TRUE
    HealthTtl = 1
    ProbeTimeout = 1
    SyncStates = {FALSE}
    MaxTime = 1
    MaxRestarts = 1
    Signals = TRUE
SYMMETRY RequestSymmetry
INVARIANTS
    PermitsAccounted
    RevokedStayOut
PROPERTY GateSpec
CHECK_DEADLOCK FALSE
