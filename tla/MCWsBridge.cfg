SPECIFICATION FairSpec
CONSTANTS
    c1 = c1
    c2 = c2
    c3 = c3
    Conns <- ThreeConns
INVARIANTS
    TypeOK
    GaugeHonest
    NoHalfBridge
PROPERTY EndsTogether
CHECK_DEADLOCK FALSE
