\* The orderings the header asks for do not order the accesses of lock holders.
CONSTANTS
    Threads = {t1, t2}
    RESERVED_ID = 2
    MAX_CONCURRENT_READS = 2
    MaxGuards = 1
    Upgrades = FALSE
    NoElement = NoElement
    NoThread = NoThread
SPECIFICATION MemSpec
SYMMETRY Symmetry
CHECK_DEADLOCK FALSE
INVARIANTS
    DataRaceFree
