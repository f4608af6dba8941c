\* Two threads, two buckets, and slots that take two elements each.
CONSTANTS
    Threads = {t1, t2}
    U32 = 64
    BUCKET_COUNT = 2
    RESERVED_ID = 2
    Elements = {e1, e2}
    MaxInserts = 4
    NoElement = NoElement
    NoSlot = NoSlot
SPECIFICATION Spec
SYMMETRY Symmetry
INVARIANTS
    SlotsConserved
    MatchMeansOccupied
PROPERTIES
    ImplementsMap
    CapacityWithinCall
