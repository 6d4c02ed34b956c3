SPECIFICATION Spec
CONSTANTS
    c1 = c1
    c2 = c2
    c3 = c3
    tight = tight
    roomy = roomy
    Callers <- TwoCallers
    Keys <- OneKey
    Limit <- PlanLimits
    Width = 2
    MaxTime = 2
    MaxCalls = 4
INVARIANT WindowQuota
CHECK_DEADLOCK FALSE
