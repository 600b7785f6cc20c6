SPECIFICATION Spec
CONSTANTS
    i1 = i1
    i2 = i2
    s1 = s1
    s2 = s2
    p1 = p1
    None = None
    Blank = Blank
    Codex = Codex
    Instances <- MCInstances
    Sessions <- MCSessions
    Others <- MCOthers
    MaxLeases = 4
SYMMETRY Symmetric
CHECK_DEADLOCK FALSE
INVARIANTS
    RoutingIsCurrent
    ServedByOwner
