\* Two processes and two pins on three buffers: one too few.
SPECIFICATION Spec
CONSTANTS
    p1 = p1  p2 = p2
    k1 = k1  k2 = k2  k3 = k3  k4 = k4
    Procs <- TwoProcs
    Blocks <- FourBlocks
    NBUF = 3
    MaxPins = 2
    Nobody = Nobody
    Data = {0, 1}
SYMMETRY Symmetry
INVARIANTS RefcntExact LockSleepersHaveHolder
 
