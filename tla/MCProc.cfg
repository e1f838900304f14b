\* Three slots, so that a child can be orphaned; pids 2 and 3 can be used and
\* slots are freed and taken again; two harts.
CONSTANTS
    c1 = c1
    c2 = c2
    NoCpu = NoCpu
    CPUs <- TwoCPUs
    NPROC = 3
    MaxPid = 3
    MaxKilled = 1
    Traps = {"alloc", "wait", "exit", "kill", "fault"}
SPECIFICATION Spec
SYMMETRY Symmetry
INVARIANTS
    OneCpuPerProcess
    SwitchHoldsOneLock
    ParentIsAlive
    NoZombieUnnoticed
PROPERTIES
    ReapedByParent
