SPECIFICATION Spec
CONSTANTS
    Registers <- MCRegisters
    Sources <- MCSources
    MaxRuns = 2
INVARIANTS
    TypeOK
    NeverBlank
    
    
    
    
