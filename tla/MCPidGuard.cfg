SPECIFICATION Spec
CONSTANTS
    p1 = p1
    p2 = p2
    p3 = p3
    i1 = i1
    i2 = i2
    i3 = i3
    Pids <- MCPids
    Inodes <- MCInodes
SYMMETRY Symmetry
INVARIANTS
    TypeOK
    ExclusionUnlessBreached
    PidFileReleased
    LoneInstanceAccepted
PROPERTY
    NoMutualRefusal
