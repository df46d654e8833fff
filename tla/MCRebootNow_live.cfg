SPECIFICATION FairSpec
CONSTANTS
    app = app
    maint = maint
    quoted = quoted
    cyclic = cyclic
    Causes <- LiveCauses
    CyclicCause = cyclic
    Maintenance <- NoCauses
    ReadBack <- LiveReadBack
    Threshold = 1
    MaxFaults = 1
PROPERTY
    HaltEnds
