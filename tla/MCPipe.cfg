\* One reader and two writers, a ring of two bytes, counters that wrap at 4,
\* writes that meet a full ring half way.  The pipe comes to rest when all have closed it.
CONSTANTS
    r1 = r1
    w1 = w1
    w2 = w2
    Nobody = Nobody
    Readers <- OneReader
    Writers <- TwoWriters
    PIPESIZE = 2
    WRAP = 4
    Bytes = {0, 1}
    MaxN = 2
    MaxKilled = 1
SPECIFICATION LiveSpec
INVARIANTS
    NoUseAfterFree
PROPERTIES
    IsByteQueue
    CallsReturn
CHECK_DEADLOCK FALSE
