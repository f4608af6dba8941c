\* Debug and release builds; three threads fill the blocks of 1, 2, 4 and 8 slots,
\* the largest, and ask for more, and call capacity again and again.
CONSTANTS
    Threads = {t1, t2, t3}
    U32 = 16
    MaxInserts = 18
    MaxBlocks = 6
    MaxCounter = 10
    NoThread = NoThread
SPECIFICATION FairSpec
CHECK_DEADLOCK FALSE
INVARIANTS
    SlowPathFinds
    HandedExactly
    OvershootBounded
    AllocatedIsLowerBound
PROPERTIES
    NeverHandedTwice
    CallsReturn
