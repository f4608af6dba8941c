\* Two threads and slots whose ordinals do not run out.
CONSTANTS
    Threads = {t1, t2}
    U32 = 64
    BUCKET_COUNT = 2
    RESERVED_ID = 9
    Elements = {e1}
    MaxInserts = 3
    NoElement = NoElement
    NoSlot = NoSlot
SPECIFICATION Spec
INVARIANTS
    TouchedIsPeak
