SPECIFICATION FairSpec
CONSTANTS
    free = free
    cycle1 = cycle1
    cycle2 = cycle2
    Keys <- OneKey
    Cycles <- TwoCycles
    MonthlyQuota <- OneFree
    LastMonth = 1
    MaxUsage = 3
    MaxFaults = 2
INVARIANTS
    TypeOK
    NeverOverbilled
PROPERTIES
    BackOnlyIfOvertaken
    EventuallyBilled
CHECK_DEADLOCK FALSE
