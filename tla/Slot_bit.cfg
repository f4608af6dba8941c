\* One element, two threads: a waiter that gives up.
CONSTANTS
    Threads = {t1, t2}
    RESERVED_ID = 1
    MAX_CONCURRENT_READS = 3
    MaxGuards = 2
    Upgrades = FALSE
    NoElement = NoElement
    NoThread = NoThread
SPECIFICATION Spec
CHECK_DEADLOCK FALSE
INVARIANTS
    NotificationBitExact
