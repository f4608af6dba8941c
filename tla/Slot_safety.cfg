\* Three threads, two generations of the slot's ordinal, every timeout, and
\* callers that may deadlock themselves by upgrading a lock they hold.
CONSTANTS
    Threads = {t1, t2, t3}
    RESERVED_ID = 2
    MAX_CONCURRENT_READS = 2
    MaxGuards = 1
    Upgrades = TRUE
    NoElement = NoElement
    NoThread = NoThread
SPECIFICATION Spec
SYMMETRY Symmetry
CHECK_DEADLOCK FALSE
INVARIANTS
    TypeOK
    ExclusiveAccess
    GuardsKeepElement
    DebugAsserts
    NoLostWakeup
    SlotAccounting
PROPERTIES
    ImplementsLock
    IdsNeverReused
    NoneMeansRemoved
    TimeoutsHonoured
