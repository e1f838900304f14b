CONSTANTS
    p = p
    q = q
    Nobody = Nobody
    Procs <- TwoProcs
    InitProc = p
    NINODES = 5
    Blocks <- DataBlocks
    BSIZE = 4
    NDIRECT = 1
    Files <- OneFile
    NFILE = 2
    NOFILE = 2
    Menu <- MenuTree
    MaxCalls <- CallsTree
    MaxCrash = 1
    MAXCHUNK = 4
    NDEV = 2
SPECIFICATION Spec
INVARIANTS
    RefsExact
    BlocksExact
    LinksExact
    OrphansFreed
    
    DirTree
    
    NoCircularWait
CHECK_DEADLOCK FALSE
