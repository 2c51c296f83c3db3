SPECIFICATION Spec
CONSTANTS
    d1 = d1
    d2 = d2
    d3 = d3
    o1 = o1
    o2 = o2
    p1 = p1
    p2 = p2
    p3 = p3
    Daemon <- MCDaemon
    Operator <- MCOperator
    Pid <- MCPid
    NoPid = NoPid
    NoLock = NoLock
    OtherRoot = OtherRoot
    MaxOthers = 1
CHECK_DEADLOCK FALSE
SYMMETRY Symmetry
INVARIANTS
    ExclusiveUntilMisfire
    NoLeakedLock
    StaleVerdictSound
