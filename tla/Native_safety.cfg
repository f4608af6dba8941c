\* Three stores one after or beside another, in memory for two slots that take
\* two elements each.
CONSTANTS
    Stores = {s1, s2}
    Addresses = {a1, a2}
    RESERVED_ID = 2
    MaxStores = 3
    NoStore = NoStore
SPECIFICATION Spec
SYMMETRY Symmetry
CHECK_DEADLOCK FALSE
INVARIANTS
    NativeIdsResolve
    QueuesOwnSlots
PROPERTIES
    IdsUnique
