----------------------------- MODULE ElementLock -----------------------------
(***************************************************************************)
(* What a slot promises to the users of a store: a sequence of elements,   *)
(* each under an ordinal of its own, each guarded by a read-write lock     *)
(* that is taken and released atomically, and each removed only when no    *)
(* one else holds a lock on it.                                            *)
(***************************************************************************)
EXTENDS Naturals

CONSTANTS RESERVED_ID, MAX_CONCURRENT_READS, Threads, MaxGuards, NoElement

VARIABLES
    element,      \* the ordinal of the element that is present, or NoElement
    spent,        \* how many ordinals are used up: they never come back
    read_locks,   \* the live read guards
    write_locks   \* the live write guards

vars == <<element, spent, read_locks, write_locks>>

ReadLock(t) == [owner : {t}, n : 1 .. MaxGuards, id : {element}]

Init ==
    /\ element = NoElement
    /\ spent = 0
    /\ read_locks = {}
    /\ write_locks = {}

\* An element appears under the next ordinal; the last one is reserved.
Insert ==
    /\ element = NoElement
    /\ spent < RESERVED_ID
    /\ element' = spent
    /\ spent' = spent + 1
    /\ UNCHANGED <<read_locks, write_locks>>

\* A reader joins the readers of a present element that no writer holds.
AcquireRead(t) ==
    /\ element # NoElement
    /\ write_locks = {}
    /\ \E g \in ReadLock(t) \ read_locks :
           /\ \A h \in read_locks : h.owner = t => h.n # g.n
           /\ read_locks' = read_locks \cup {g}
    /\ UNCHANGED <<element, spent, write_locks>>

ReleaseRead(t) ==
    /\ \E g \in read_locks : g.owner = t /\ read_locks' = read_locks \ {g}
    /\ UNCHANGED <<element, spent, write_locks>>

\* A writer takes a present element that no one holds.
AcquireWrite(t) ==
    /\ element # NoElement
    /\ read_locks = {}
    /\ write_locks = {}
    /\ write_locks' = {[owner |-> t, id |-> element]}
    /\ UNCHANGED <<element, spent, read_locks>>

ReleaseWrite(t) ==
    /\ \E w \in write_locks : w.owner = t /\ write_locks' = write_locks \ {w}
    /\ UNCHANGED <<element, spent, read_locks>>

\* The element is removed by a thread when no one holds it, or by its writer.
Remove(t) ==
    /\ element # NoElement
    /\ read_locks = {}
    /\ write_locks \subseteq {[owner |-> t, id |-> element]}
    /\ element' = NoElement
    /\ write_locks' = {}
    /\ UNCHANGED <<spent, read_locks>>

Next ==
    \/ Insert
    \/ \E t \in Threads :
           \/ AcquireRead(t) \/ ReleaseRead(t)
           \/ AcquireWrite(t) \/ ReleaseWrite(t)
           \/ Remove(t)

Spec == Init /\ [][Next]_vars
=============================================================================
