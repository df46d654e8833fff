SPECIFICATION Spec
CONSTANTS
    app = app
    maint = maint
    quoted = quoted
    cyclic = cyclic
    Causes <- MCCauses
    CyclicCause = cyclic
    Maintenance <- MCMaintenance
    ReadBack <- MCReadBack
    Threshold = 5
    MaxFaults = 0
INVARIANT
    StormBoundEveryCause
