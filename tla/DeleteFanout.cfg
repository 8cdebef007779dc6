SPECIFICATION Spec
CONSTANTS
    NoDir = NoDir
    Dirs <- MCDirs
    Files <- MCFiles
    Ancestors <- MCAncestors
    Scopes <- MCScopes
INVARIANTS
    TypeOK
    
    SparesLive
    RmdirsEmpty
CHECK_DEADLOCK FALSE
