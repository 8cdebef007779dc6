SPECIFICATION Spec
CONSTANTS
    Names = {1}
    Runs = {1, 2}
    Options <- MCDefault
    SrcInit <- MCFile
    DstInit <- MCNone
    SrcTypes = {"none", "file", "dir", "link"}
    MaxPasses = 2
    MaxClock = 1
    Faults = {"crash"}
    MaxFaults = 1
INVARIANTS
    TornRecopied
CHECK_DEADLOCK FALSE
