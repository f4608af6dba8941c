\* One thread, two buckets, up to five elements: blocks of 1, 2 and 4 slots.
CONSTANTS
    Threads = {t1}
    U32 = 64
    BUCKET_COUNT = 2
    RESERVED_ID = 3
    Elements = {e1}
    MaxInserts = 5
    NoElement = NoElement
    NoSlot = NoSlot
SPECIFICATION FairIterSpec
CHECK_DEADLOCK FALSE
INVARIANTS
    IterationExact
    DroppedOnce
    SizeHintIsUpperBound
PROPERTIES
    ImplementsIterMap
    NextReturns
