\* Three threads, so that two may be queued when the element becomes free.  They
\* do not wait without limit for what their own guards exclude.
CONSTANTS
    Threads = {t1, t2, t3}
    RESERVED_ID = 1
    MAX_CONCURRENT_READS = 2
    MaxGuards = 1
    Upgrades = FALSE
    NoElement = NoElement
    NoThread = NoThread
SPECIFICATION FairSpec
CHECK_DEADLOCK FALSE
PROPERTIES
    NoForgottenWaiter
    TimedCallsReturn
    Settles
