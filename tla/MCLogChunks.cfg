SPECIFICATION FairSpec
CONSTANTS
    primary = primary
    fallback = fallback
    Queries <- AllQueries
    LogBlocks <- SomeLogs
    Heads <- TwoHeads
    Upstreams <- TwoUpstreams
    Step = 2
    MaxParallel = 2
    MaxUserRange = 5
    MaxLogs = 2
INVARIANTS
    TypeOK
    CompleteAnswer
    ParallelBound
    MemoryBound
    WindowsFit
    NeverStalled
PROPERTIES
    PromiseSpec
    EverythingSettles
CHECK_DEADLOCK FALSE
