CONSTANTS
    p = p
    q = q
    Nobody = Nobody
    Procs <- TwoProcs
    InitProc = p
    NINODES = 5
    Blocks <- DataBlocks
    BSIZE = 4
    NDIRECT = 1
    Files <- OneFile
    NFILE = 2
    NOFILE = 2
    Menu <- MenuOrphan
    MaxCalls <- CallsOrphan
    MaxCrash = 0
    MAXCHUNK = 4
    NDEV = 2
SPECIFICATION Spec
INVARIANT FreedWithLastRef
CHECK_DEADLOCK FALSE
