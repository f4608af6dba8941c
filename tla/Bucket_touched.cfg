\* Two threads and the blocks of 1 and 2 slots.
CONSTANTS
    Threads = {t1, t2}
    U32 = 32
    MaxInserts = 4
    MaxBlocks = 6
    MaxCounter = 10
    NoThread = NoThread
SPECIFICATION Spec
INVARIANTS
    TouchedIsLowerBound
