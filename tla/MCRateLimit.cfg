SPECIFICATION Spec
CONSTANTS
    c1 = c1
    c2 = c2
    c3 = c3
    tight = tight
    roomy = roomy
    Callers <- ThreeCallers
    Keys <- BothKeys
    Limit <- PlanLimits
    Width = 2
    MaxTime = 4
    MaxCalls = 5
SYMMETRY CallerSymmetry
INVARIANTS
    TypeOK
    QuotaPerLateWrite
    NoSpuriousRefusal
CHECK_DEADLOCK FALSE
