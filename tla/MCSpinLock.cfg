\* Two harts, two processes that migrate between them, two ranked locks.
CONSTANTS
    c1 = c1
    c2 = c2
    p1 = p1
    p2 = p2
    Free = Free
    CPUs <- TwoCPUs
    Procs <- TwoProcs
    Shared = {1, 2}
SPECIFICATION LockSpec
SYMMETRY Symmetry
INVARIANTS
    MutualExclusion
    NoSelfDeadlock
PROPERTIES
    InterruptsRestored
