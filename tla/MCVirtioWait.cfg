\* One chain at a time and three processes: two of them wait for descriptors.
SPECIFICATION LiveSpec
CONSTANTS
    p1 = p1  p2 = p2  p3 = p3
    b1 = b1  b2 = b2  b3 = b3
    Procs <- ThreeProcs
    Bufs <- ThreeBufs
    Nobody = Nobody
    NUM = 4
    WRAP = 8
    Data = {0}
INVARIANTS DescriptorsConserved
PROPERTIES RequestsReturn
