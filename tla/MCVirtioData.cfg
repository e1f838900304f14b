\* Eight descriptors, as in virtio.h; indices that wrap after two rounds.
SPECIFICATION Spec
CONSTANTS
    p1 = p1  p2 = p2  p3 = p3
    b1 = b1  b2 = b2  b3 = b3
    Procs <- TwoProcs
    Bufs <- TwoBufs
    Nobody = Nobody
    NUM = 8
    WRAP = 16
    Data = {0, 1}
SYMMETRY Symmetry
PROPERTIES ServedOnce
