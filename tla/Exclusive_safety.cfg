\* Two threads with up to two read guards each, which they may leak, and fields
\* of two bits: three elements one after the other, two readers.
CONSTANTS
    Threads = {t1, t2}
    RESERVED_ID = 3
    MAX_CONCURRENT_READS = 2
    ID_BITS = 2
    READER_BITS = 2
    MaxGuards = 2
    Upgrades = TRUE
    NoElement = NoElement
    NoThread = NoThread
SPECIFICATION ExclusiveSpec
SYMMETRY Symmetry
CHECK_DEADLOCK FALSE
INVARIANTS
    ElementsLeaveOnce
    ReadersBalanced
    SafeWithLeaks
    ReentrantReadNeverBlocks
    PredicatesAgree
PROPERTIES
    ImplementsWord
