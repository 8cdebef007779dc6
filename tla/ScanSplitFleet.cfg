SPECIFICATION Spec
CONSTANTS
    a1 = a1
    a2 = a2
    d1 = d1
    d2 = d2
    f1 = f1
    Agents = {a1, a2}
    Dirs <- MCEntries
    Files = {f1}
    Budgets = {1, 2}
    SplitBatch = 1
    SplitWindow = 1
    Faults = {"expire", "timeout", "drop", "crash", "reap", "error", "drift"}
    MaxRuns = 2
SYMMETRY Symm
CONSTRAINT NumberedAlike
INVARIANTS
    TypeOK
    NoLostSubtree
    QueuedOnce
CHECK_DEADLOCK FALSE
