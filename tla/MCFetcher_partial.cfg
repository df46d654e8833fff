SPECIFICATION Spec
CONSTANTS
    f1 = f1
    f2 = f2
    c1 = c1
    c2 = c2
    Instances <- MCInstances
    Causes <- MCCauses
    MaxBoots = 1
SYMMETRY Symmetry
INVARIANT
    NoPartialRecord
