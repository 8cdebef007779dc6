SPECIFICATION Spec
CONSTANTS
    Names = {1}
    Runs = {1, 2}
    Options <- MCOptions
    SrcInit <- MCSources
    DstInit <- MCTargets
    SrcTypes = {"none", "file", "dir", "link"}
    MaxPasses = 2
    MaxClock = 2
    Faults = {"crash", "expire", "ioerror"}
    MaxFaults = 1
INVARIANTS
    TypeOK
    NoFalseClean
    MirroredWhenClean
PROPERTIES
    
    IdempotentPass
    DryRunWritesNothing
CHECK_DEADLOCK FALSE
