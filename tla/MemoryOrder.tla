---------------------------- MODULE MemoryOrder -----------------------------
(***************************************************************************)
(* Happens-before in a slot.  Slot interleaves the accesses to the header  *)
(* word; the element's memory is accessed without atomics, and which of    *)
(* those accesses are ordered is decided by the orderings the header's     *)
(* operations ask for (src/src/header.rs, src/src/util/sync/atomic.rs).    *)
(* This module adds that order to the steps of Slot.                       *)
(*                                                                         *)
(* It keeps, for every thread and for everything that passes order from    *)
(* one thread to another, the accesses to the element that are NOT known   *)
(* to have happened before: an access is new to everyone but its thread,   *)
(* and synchronising with someone means to know what he knows.  Only the   *)
(* last write and each thread's last read since count, as an access        *)
(* ordered after those is ordered after all.                               *)
(*                                                                         *)
(* The word is changed by read-modify-writes only while it is shared, so   *)
(* what was released to it once stays released: they continue each other's *)
(* release sequences.                                                      *)
(***************************************************************************)
EXTENDS Slot

VARIABLES
    unseen,    \* the accesses each place does not know of
    emptied    \* the operation that emptied the slot, and its thread

memVars == <<vars, unseen, emptied>>

\* The last write, or a thread's last read.
Accesses == {"write"} \cup Threads

\* A thread; the header word; the mutex of the parking lot's bucket; the queue
\* of erased slots; the way a caller passes an Id on to other threads.
Places == Threads \cup {"word", "mutex", "queue", "id"}

ASSUME PlacesAssumption ==
    Threads \cap {"write", "word", "mutex", "queue", "id"} = {}

Nothing == [op |-> "none", by |-> NoThread]

MemInit ==
    /\ Init
    /\ unseen = [p \in Places |-> {}]
    /\ emptied = Nothing

-----------------------------------------------------------------------------
\* How knowledge travels; u is a value of unseen.

\* What from knows is known to to as well.
Tell(u, from, to) == [u EXCEPT ![to] = @ \cap u[from]]

Release(u, t) == Tell(u, t, "word")
Acquire(u, t) == Tell(u, "word", t)

\* Fault variant: the exchange that unlocks is Relaxed.
compare_exchange_relaxed(u, t) == u

\* A successful compare_exchange or compare_exchange_weak: Ordering::Release.
compare_exchange(u, t) == Release(u, t)

\* Fault variant: the swap is Release only.
swap_release(u, t) == Release(u, t)

\* swap and fetch_or are called with Ordering::AcqRel.
swap(u, t) == Release(Acquire(u, t), t)

fetch_or(u, t) == Release(Acquire(u, t), t)

\* Accesses to the element's memory.
Read(t) ==
    unseen' = [p \in Places |-> IF p = t THEN unseen[p] \ {t}
                                         ELSE unseen[p] \cup {t}]

Write(t) == unseen' = [p \in Places |-> IF p = t THEN {} ELSE {"write"}]

-----------------------------------------------------------------------------
\* The steps of Slot with the order they bring about.

\* Did t's compare-exchange succeed?  mark may write the value it found.
Exchanged(t) == state' # state \/ t \in parked' \ parked

\* A compare-exchange, Relaxed when it fails; t may let go of the mutex after.
Exchange(t) ==
    LET u == IF Exchanged(t) THEN compare_exchange(unseen, t) ELSE unseen
    IN  unseen' = IF queue_lock = t /\ queue_lock' # t THEN Tell(u, t, "mutex")
                                                       ELSE u

\* The queue hands a slot over from push to pop.
InsertM(t) ==
    /\ Insert(t)
    /\ unseen' = [Tell(unseen, "queue", t) EXCEPT !["queue"] = {}]

push(u, t) == [u EXCEPT !["queue"] = u[t]]

\* The inserter learns the history of the slot and passes the Id on.
occupyM(t) ==
    /\ occupy(t)
    /\ LET u == fetch_or(unseen, t)
       IN  unseen' = [u EXCEPT !["id"] = u[t]]
    /\ emptied' = Nothing

\* An Id reaches other threads by something that orders, a channel or a join.
\* The Ids of earlier elements say nothing about the present one.
CallM(t, op, id, timeout) ==
    /\ Call(t, op, id, timeout)
    /\ unseen' = IF \A i \in issued : i <= id THEN Tell(unseen, "id", t)
                                              ELSE unseen

\* unpark takes the mutex and wakes the queued threads.
unparkM(t) ==
    /\ unpark(t)
    /\ LET u == Tell(Tell(unseen, "mutex", t), t, "mutex")
       IN  unseen' = [p \in Places |-> IF p \in parked THEN u[p] \cap u[t]
                                                       ELSE u[p]]

\* The steps that leave the slot occupied or filled as it is.
Keep(t) ==
    \/ InsertM(t)
    \/ Fill(t) /\ Write(t)
    \/ \E op \in {"read", "write", "remove"}, id \in Ordinals, d \in Timeouts :
           CallM(t, op, id, d)
    \/ lock_read(t) /\ UNCHANGED unseen
    \/ (read_cas(t) \/ transition(t) \/ eval(t) \/ mark(t)) /\ Exchange(t)
    \/ park(t) /\ unseen' = Tell(unseen, "mutex", t)
    \/ TimeOut(t) /\ unseen' = Tell(Tell(unseen, "mutex", t), t, "mutex")
    \/ unparkM(t)
    \/ DropRead(t) /\ UNCHANGED unseen
    \/ unlock_read(t) /\ Exchange(t)
    \/ DropWrite(t) /\ unseen' = swap(unseen, t)
    \/ RemoveLocked(t) /\ Read(t)
    \/ push_erasure(t) /\ unseen' = push(unseen, t)

\* The steps that empty it.
Empty(t) ==
    /\ \/ take(t) /\ Read(t)
       \/ remove_locked(t) /\ unseen' = swap(unseen, t)
    /\ emptied' = [op |-> call[t].op, by |-> t]

\* Deref and DerefMut of a guard, any number of times while it lives.
Deref(t) ==
    /\ pc[t] = "idle"
    /\ GuardsOf(t) # {}
    /\ Read(t)

DerefMut(t) ==
    /\ pc[t] = "idle"
    /\ \E w \in write_locks : w.owner = t
    /\ Write(t)

MemNext ==
    \E t \in Threads :
        \/ Keep(t) /\ UNCHANGED emptied
        \/ Empty(t) \/ occupyM(t)
        \/ (Deref(t) \/ DerefMut(t)) /\ UNCHANGED <<vars, emptied>>

MemSpec == MemInit /\ [][MemNext]_memVars

-----------------------------------------------------------------------------
\* Everything that was done to the element under a guard that is gone, and its
\* insertion, has been released to the header word: what is missing belongs to
\* guards that live.  So a thread that acquires the word when it takes a lock
\* sees all earlier accesses (unlock_read, unlock_write, occupy).
AccessesPublished ==
    is_occupied(state) =>
        unseen["word"] \subseteq
            {g.owner : g \in read_locks \cup write_locks}
            \cup (IF write_locks = {} THEN {} ELSE {"write"})

\* An insertion that reuses a slot overwrites the memory after the removal that
\* emptied it has read it, and if that was remove_locked, whose swap acquires,
\* after everything else that was done to the removed element.
ReuseAfterRemoval ==
    \A t \in Threads :
        pc[t] = "fill" => /\ emptied.by \notin unseen[t]
                          /\ emptied.op = "remove_locked" => unseen[t] = {}

\* "a read-write lock": whoever holds the element for reading has every write
\* before him, and whoever holds it for writing, inserts it or moves it out has
\* every conflicting access before him, so that no two accesses race.
DataRaceFree ==
    /\ \A g \in read_locks : "write" \notin unseen[g.owner]
    /\ \A w \in write_locks : unseen[w.owner] = {}
    /\ \A t \in Threads :
           /\ pc[t] = "fill" => unseen[t] = {}
           /\ pc[t] = "take" => "write" \notin unseen[t]
=============================================================================
