\* Two processes, calls that write fewer blocks than begin_op reserves, and the
\* log size mkfs gives (LOGSIZE blocks with the header).  No symmetry.
SPECIFICATION LiveSpec
CONSTANTS
    p1 = p1  p2 = p2
    b1 = b1  b2 = b2  b3 = b3
    Procs <- TwoProcs
    InitProc = p1
    Blocks <- ThreeBlocks
    Data = {0, 1}
    Zero = 0
    NotCached = NotCached
    MAXOPBLOCKS = 2
    LOGSIZE = 4
    nlog = 4
    OpBlocks = 1
INVARIANTS LogInv NoPanic
PROPERTIES WriteAhead AtomicCommit SleepersWake
