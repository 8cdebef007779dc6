SPECIFICATION Spec
CONSTANTS
    s1 = s1
    s2 = s2
    Shards = {s1, s2}
    WorkerCounts = {1, 2}
    SegMax = 1
    Faults = {"timeout", "drop", "kill", "torn", "power", "syncfail"}
    MaxSeq = 3
SYMMETRY Symm
INVARIANTS
    TypeOK
    
CHECK_DEADLOCK FALSE
