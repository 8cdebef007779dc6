SPECIFICATION FairSpec
CONSTANTS
    a1 = a1
    a2 = a2
    c1 = c1
    c2 = c2
    Agents <- MCOne
    Calls <- MCCall
    Ops = {"start", "trigger", "delete", "pause", "resume", "cancel", "park"}
    Schedule = "manual"
    MaxPasses = 3
    ConvergeWhen = TRUE
    DryRun = FALSE
    VerifyOn = TRUE
    Discoveries <- MCWalkAll
    PassBound = 2
    CrashBound = 1
INVARIANTS
    
    CompleteIsDrained
PROPERTIES
    JobSettles
CHECK_DEADLOCK FALSE
