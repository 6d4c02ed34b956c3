SPECIFICATION Spec
CONSTANTS
    c1 = c1
    c2 = c2
    c3 = c3
    Conns <- ThreeConns
INVARIANT OnlyActiveCounted
CHECK_DEADLOCK FALSE
