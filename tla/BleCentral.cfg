SPECIFICATION CSpec
CONSTANTS
    NoName = NoName
    NoContext = NoContext
    CountLimit = 3
INVARIANTS
    CTypeOK
    ContextsSound
    
CHECK_DEADLOCK FALSE
