CONSTANTS
    p = p
    q = q
    Procs <- TwoProcs
    InitProc = p
    NPAGES = 13
    PGSIZE = 4
    NPTE = 4
    LEVELS = 2
    WRAP = 128
    JUNK = 99
    First <- FirstWords
    Programs <- AllPrograms
    USERSTACK = 1
    ALIGN = 2
    MAXARG = 2
    Menu <- MenuMem
    MaxCalls <- CallsMem
SPECIFICATION Spec
INVARIANTS
    PagesExact
    NoPanic
PROPERTY
    IsAddressSpace
CHECK_DEADLOCK FALSE
