SPECIFICATION Spec
CONSTANTS
    MaxRequests = 3
    HalRequests = {2}
    MaxBoots = 4
    MaxMishaps = 1
INVARIANTS
    TypeOK
    
    
    ToldOnce
CHECK_DEADLOCK FALSE
