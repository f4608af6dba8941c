\* Two threads, two elements one after the other, no self-blocking callers.
CONSTANTS
    Threads = {t1, t2}
    RESERVED_ID = 2
    MAX_CONCURRENT_READS = 2
    MaxGuards = 1
    Upgrades = FALSE
    NoElement = NoElement
    NoThread = NoThread
SPECIFICATION MemSpec
SYMMETRY Symmetry
CHECK_DEADLOCK FALSE
INVARIANTS
    AccessesPublished
    ReuseAfterRemoval
