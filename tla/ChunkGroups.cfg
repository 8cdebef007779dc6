SPECIFICATION Spec
CONSTANTS
    Scopes <- MCScopes
    MaxVersion = 2
INVARIANTS
    TypeOK
    InstalledIsWhole
    FinalizeAfterAll
    DrainedIsSettled
CHECK_DEADLOCK FALSE
