CONSTANTS
    c1 = c1
    c2 = c2
    None = None
    Clients = {c1}
    MaxChunks = 4
    RingCap = 2
    SubCap = 2
SPECIFICATION FairSpec
INVARIANTS
    
    
    NewsIsState
PROPERTIES
    StreamSpec
    ExitedIsFinal
    
    
CHECK_DEADLOCK FALSE
