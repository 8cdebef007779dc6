SPECIFICATION Spec
CONSTANTS
    a1 = a1
    a2 = a2
    c1 = c1
    c2 = c2
    Agents <- MCTwo
    Calls <- MCCall
    Ops = {"start", "park", "retry", "drop", "agents"}
    Schedule = "auto"
    MaxPasses = 2
    ConvergeWhen = TRUE
    DryRun = FALSE
    VerifyOn = FALSE
    Discoveries <- MCWalkOnce
    PassBound = 2
    CrashBound = 1
INVARIANTS
    TypeOK
    RootWithheld
    WalkedBeforeDirfix
SYMMETRY Symm
CHECK_DEADLOCK FALSE
