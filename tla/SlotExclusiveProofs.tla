-------------------------- MODULE SlotExclusiveProofs --------------------------
(***************************************************************************)
(* The whole life of a slot for every number of threads, of ordinals and   *)
(* of guards: what SlotProofs shows of its shared life survives guards     *)
(* that are leaked, and leads over to its consumption and its drop.        *)
(***************************************************************************)
EXTENDS SlotExclusive, SlotProofs

\* The element an occupied header names, and the one a removal is about to
\* read, was inserted.
LiveInv ==
    /\ is_occupied(state) => state.id \in issued
    /\ \A t \in Threads : pc[t] = "take" => call[t].id \in issued

\* The elements that have left are those that were inserted and are not in the
\* cell.
GoneInv ==
    /\ gone \in [Ordinals -> {0, 1}]
    /\ \A id \in Ordinals : gone[id] = 1 <=> id \in issued /\ cell # id

\* The store is shared: the invariant of the protocol, and as long as no guard
\* is leaked the exact count of the guards.
SharedInv ==
    /\ Inv
    /\ LiveInv
    /\ ~leaked => GuardsCounted

\* The store was consumed or dropped: nothing is left in the slot.
EndedInv ==
    /\ Exclusive
    /\ parked = {}
    /\ cell = NoElement
    /\ phase = "consumed" => ~is_occupied(state)
    /\ ~leaked => state.readers = 0

ExclusiveInv ==
    /\ phase \in {"shared", "consumed", "dropped"}
    /\ leaked \in BOOLEAN
    /\ GoneInv
    /\ phase = "shared" => SharedInv
    /\ phase # "shared" => EndedInv

-----------------------------------------------------------------------------
\* Every header that is occupied after a step was occupied before with the same
\* ordinal, or the step is the insertion that gives the ordinal out.
LEMMA OccupiedStep ==
  ASSUME Inv, [Next]_vars
  PROVE  /\ issued \subseteq issued'
         /\ is_occupied(state') => \/ is_occupied(state) /\ state'.id = state.id
                                   \/ state'.id \in issued'
<1> DEFINE Goal == /\ issued \subseteq issued'
                   /\ is_occupied(state') =>
                          \/ is_occupied(state) /\ state'.id = state.id
                          \/ state'.id \in issued'
<1>1. state \in States
  BY DEF Inv, TypeOK
<1>2. ASSUME UNCHANGED <<state, issued>> PROVE Goal
  BY <1>2
<1>3. ASSUME UNCHANGED issued, is_occupied(state), state'.id = state.id PROVE Goal
  BY <1>3
<1>4. ASSUME UNCHANGED issued, ~is_occupied(state') PROVE Goal
  BY <1>4
<1>5. ASSUME NEW t \in Threads, occupy(t) PROVE Goal
  BY <1>1, <1>5, StateFields DEF occupy
<1>6. ASSUME NEW t \in Threads, read_cas(t) PROVE Goal
  <2>1. CASE state = current[t] /\ state' = increment_readers(current[t])
    <3>1. state.id \in issued
      BY <1>6, <2>1 DEF Inv, CallInv, read_cas
    <3> QED BY <1>1, <1>3, <1>6, <2>1, <3>1, IssuedIds, StateFields
            DEF read_cas, slotVars
  <2> QED BY <1>2, <1>6, <2>1 DEF read_cas, slotVars
<1>7. ASSUME NEW t \in Threads, unlock_read(t) PROVE Goal
  <2>1. CASE state = current[t] /\ state' = read_unlocked(current[t])
    <3>1. state.readers > 0 /\ is_occupied(state)
      BY <1>7, <2>1, LockedHeader, ReadsAssumption DEF Inv, CallInv, unlock_read
    <3>2. decrement_readers(state) \in States
      BY <1>1, <3>1, StateWords
    <3>3. state'.id = state.id
      BY <1>1, <2>1, <3>2, StateFields DEF read_unlocked
    <3> QED BY <1>3, <1>7, <3>1, <3>3 DEF unlock_read, slotVars
  <2> QED BY <1>2, <1>7, <2>1 DEF unlock_read, slotVars
<1>8. ASSUME NEW t \in Threads, transition(t) \/ eval(t) PROVE Goal
  <2>1. CASE state = expected(t) /\ Transitioned(t)
    <3>1. call[t].id \in issued
      BY <1>8 DEF transition, eval, Inv, CallInv
    <3>2. call[t].id \in Ordinals /\ call[t].id + 1 \in Ordinals
      BY <3>1, IssuedIds
    <3>3. is_occupied(state) /\ state.id = call[t].id /\ UNCHANGED issued
      BY <1>8, <2>1, <3>2, StateFields DEF expected, transition, eval, slotVars
    <3>4. CASE call[t].op = "write"
      BY <1>3, <2>1, <3>2, <3>3, <3>4, StateFields DEF Transitioned, new
    <3>5. CASE call[t].op # "write"
      BY <1>4, <2>1, <3>2, <3>3, <3>5, StateFields DEF Transitioned, new
    <3> QED BY <3>4, <3>5
  <2> QED BY <1>2, <1>8, <2>1 DEF transition, eval, EvalRead, EvalTransition, slotVars
<1>9. ASSUME NEW t \in Threads, DropWrite(t) PROVE Goal
  <2>1. PICK w \in write_locks : state' = occupied_unlocked_bits(w.id)
    BY <1>9 DEF DropWrite
  <2> QED BY <1>3, <1>9, <2>1, WriteGuard, StateFields DEF DropWrite, slotVars
<1>10. ASSUME NEW t \in Threads, remove_locked(t) PROVE Goal
  <2>1. [owner |-> t, id |-> call[t].id] \in write_locks
    BY <1>10 DEF remove_locked, Inv, CallInv
  <2>2. call[t].id + 1 \in Ordinals
    BY <2>1, WriteGuard
  <2> QED BY <1>4, <1>10, <2>2, StateFields DEF remove_locked, slotVars
<1>11. ASSUME NEW t \in Threads, mark(t) PROVE Goal
  <2>1. CASE state = current[t] /\ state' = mark_thread_blocking(current[t])
    <3>1. is_occupied(state)
      BY <1>11, <2>1, LockedHeader DEF Inv, CallInv, mark
    <3> QED BY <1>1, <1>3, <1>11, <2>1, <3>1, StateFields DEF mark, slotVars
  <2> QED BY <1>2, <1>11, <2>1 DEF mark, slotVars
<1>12. ASSUME NEW t \in Threads,
              \/ Fill(t) \/ lock_read(t) \/ take(t) \/ push_erasure(t)
              \/ park(t) \/ TimeOut(t) \/ unpark(t) \/ NewCall(t) \/ DropRead(t)
       PROVE  UNCHANGED <<state, issued>>
  BY <1>12 DEF Fill, lock_read, take, push_erasure, park, TimeOut, unpark,
     NewCall, Insert, RemoveLocked, Call, DropRead, slotVars
<1>13. UNCHANGED vars => UNCHANGED <<state, issued>>
  BY DEF vars
<1> QED BY <1>2, <1>5, <1>6, <1>7, <1>8, <1>9, <1>10, <1>11, <1>12, <1>13
        DEF Next, Step, Drop

\* A thread comes to read an element out only with an Id in circulation.
LEMMA TakerStep ==
  ASSUME Inv, [Next]_vars, NEW u \in Threads, pc'[u] = "take"
  PROVE  \/ pc[u] = "take" /\ call'[u] = call[u]
         \/ call'[u].id \in issued
<1> DEFINE Goal == \/ pc[u] = "take" /\ call'[u] = call[u]
                   \/ call'[u].id \in issued
<1>1. pc \in [Threads -> PCs] /\ call \in [Threads -> Calls]
  BY DEF Inv, TypeOK
<1>2. ASSUME NEW t \in Threads, NEW r, Return(t, r) PROVE Goal
  BY <1>1, <1>2 DEF Return
<1>3. ASSUME NEW t \in Threads, NEW p, NEW c, GoWith(t, p, c), p # "take" PROVE Goal
  BY <1>1, <1>3 DEF GoWith
<1>4. ASSUME NEW t \in Threads, NEW p, Go(t, p), p # "take" PROVE Goal
  BY <1>3, <1>4 DEF Go
<1>5. ASSUME NEW t \in Threads, NEW op, NEW id, NEW d, NEW p,
             Begin(t, op, id, d, p), p # "take"
      PROVE  Goal
  BY <1>1, <1>5 DEF Begin
<1>6. ASSUME UNCHANGED <<pc, call>> PROVE Goal
  BY <1>6
<1>7. ASSUME NEW t \in Threads, Slow(t) PROVE Goal
  BY <1>2, <1>4, <1>7 DEF Slow
<1>8. ASSUME NEW t \in Threads, NEW c, Increment(t, c) PROVE Goal
  BY <1>2, <1>3, <1>8 DEF Increment
<1>9. ASSUME NEW t \in Threads, lock_read_with_current(t, state) PROVE Goal
  BY <1>2, <1>7, <1>8, <1>9 DEF lock_read_with_current
<1>10. ASSUME NEW t \in Threads, transition(t) \/ eval(t) PROVE Goal
  <2>1. call[t].id \in issued
    BY <1>10 DEF transition, eval, Inv, CallInv
  <2>2. CASE Transitioned(t)
    <3>1. CASE Return(t, "ok")
      BY <1>2, <3>1
    <3>2. CASE Go(t, "take")
      BY <1>1, <2>1, <3>2 DEF Go, GoWith
    <3> QED BY <2>2, <3>1, <3>2 DEF Transitioned
  <2> QED BY <1>2, <1>3, <1>4, <1>7, <1>8, <1>10, <2>2
          DEF transition, eval, EvalRead, EvalTransition
<1>11. ASSUME NEW t \in Threads, lock_read(t) \/ read_cas(t) PROVE Goal
  BY <1>2, <1>9, <1>11 DEF lock_read, read_cas
<1>12. ASSUME NEW t \in Threads, NewCall(t) \/ Drop(t) PROVE Goal
  BY <1>5, <1>6, <1>12
     DEF NewCall, Drop, Insert, RemoveLocked, Call, DropRead, DropWrite
<1>13. ASSUME NEW t \in Threads, unpark(t) PROVE Goal
  BY <1>1, <1>13 DEF unpark
<1>14. ASSUME NEW t \in Threads,
              \/ Fill(t) \/ occupy(t) \/ unlock_read(t) \/ take(t)
              \/ push_erasure(t) \/ remove_locked(t) \/ park(t) \/ mark(t)
              \/ TimeOut(t)
       PROVE  Goal
  BY <1>2, <1>3, <1>4, <1>14 DEF Fill, occupy, unlock_read, take, push_erasure,
     remove_locked, park, mark, TimeOut
<1>15. UNCHANGED vars => Goal
  BY <1>6 DEF vars
<1> QED BY <1>10, <1>11, <1>12, <1>13, <1>14, <1>15 DEF Next, Step

\* The two together.
LEMMA LiveStep ==
  ASSUME Inv, LiveInv, [Next]_vars
  PROVE  LiveInv'
  BY OccupiedStep, TakerStep DEF LiveInv

\* An element comes into the empty cell with an ordinal that is not in
\* circulation, gets into circulation while it is there, and leaves it after.
LEMMA CellStep ==
  ASSUME Inv, LiveInv, [Next]_vars
  PROVE  \/ UNCHANGED <<cell, issued>>
         \/ cell = NoElement /\ cell' \in Ordinals \ issued /\ UNCHANGED issued
         \/ cell \in Ordinals /\ issued' = issued \cup {cell} /\ UNCHANGED cell
         \/ cell \in issued /\ cell' = NoElement /\ UNCHANGED issued
<1> DEFINE Goal ==
        \/ UNCHANGED <<cell, issued>>
        \/ cell = NoElement /\ cell' \in Ordinals \ issued /\ UNCHANGED issued
        \/ cell \in Ordinals /\ issued' = issued \cup {cell} /\ UNCHANGED cell
        \/ cell \in issued /\ cell' = NoElement /\ UNCHANGED issued
<1>1. state \in States /\ state.id \in Ordinals
  BY DEF Inv, TypeOK, States
<1>2. ASSUME NEW t \in Threads, Fill(t) PROVE Goal
  <2>1. ~is_occupied(state) /\ \A u \in Threads : Holder(u) => u = t
    BY <1>2 DEF Fill, Inv, OwnInv, Holder
  <2>2. cell = NoElement
    BY <1>2, <2>1 DEF Fill, Inv, CellInv, Holder
  <2>3. state.id \notin issued
    BY <2>1 DEF Inv, IdInv
  <2> QED BY <1>1, <1>2, <2>2, <2>3 DEF Fill
<1>3. ASSUME NEW t \in Threads, occupy(t) PROVE Goal
  BY <1>1, <1>3 DEF occupy, Inv, CellInv
<1>4. ASSUME NEW t \in Threads, take(t) PROVE Goal
  BY <1>4 DEF take, Inv, CellInv, LiveInv
<1>5. ASSUME NEW t \in Threads, RemoveLocked(t) PROVE Goal
  <2>1. PICK w \in write_locks : w.owner = t /\ pc[t] = "idle"
    BY <1>5 DEF RemoveLocked, Begin
  <2>2. cell = w.id
    BY <2>1, ElementFromInv DEF GuardsKeepElement
  <2>3. w.id \in issued
    BY WriteGuard DEF LiveInv
  <2> QED BY <1>5, <2>2, <2>3 DEF RemoveLocked
<1>6. ASSUME NEW t \in Threads,
             \/ lock_read(t) \/ read_cas(t) \/ unlock_read(t) \/ transition(t)
             \/ push_erasure(t) \/ remove_locked(t) \/ park(t) \/ eval(t)
             \/ mark(t) \/ TimeOut(t) \/ unpark(t) \/ Insert(t) \/ Drop(t)
             \/ (\E op \in {"read", "write", "remove"}, id \in Ordinals, d \in Timeouts :
                    Call(t, op, id, d))
      PROVE  Goal
  BY <1>6 DEF lock_read, read_cas, unlock_read, transition, push_erasure,
     remove_locked, park, eval, mark, TimeOut, unpark, Insert, Drop, DropRead,
     DropWrite, Call, slotVars
<1>7. UNCHANGED vars => Goal
  BY DEF vars
<1> QED BY <1>2, <1>3, <1>4, <1>5, <1>6, <1>7 DEF Next, Step, NewCall

\* A step of the shared store counts the element it moves out.
LEMMA GoneStep ==
  ASSUME Inv, LiveInv, GoneInv, Shared
  PROVE  GoneInv'
<1> USE NoElementAssumption
<1>1. issued \subseteq Ordinals
  BY DEF Inv, TypeOK
<1>2. [Next]_vars
  BY DEF Shared
<1>3. CASE UNCHANGED <<cell, issued>>
  BY <1>3 DEF Shared, GoneInv
<1>4. CASE cell = NoElement /\ cell' \in Ordinals \ issued /\ UNCHANGED issued
  BY <1>1, <1>4 DEF Shared, GoneInv
<1>5. CASE cell \in Ordinals /\ issued' = issued \cup {cell} /\ UNCHANGED cell
  BY <1>1, <1>5 DEF Shared, GoneInv
<1>6. CASE cell \in issued /\ cell' = NoElement /\ UNCHANGED issued
  <2>1. gone' = [gone EXCEPT ![cell] = gone[cell] + 1] /\ gone[cell] = 0
    BY <1>1, <1>6 DEF Shared, GoneInv
  <2>2. gone' = [gone EXCEPT ![cell] = 1]
    BY <2>1
  <2> QED BY <1>1, <1>6, <2>2 DEF GoneInv
<1> QED BY <1>2, <1>3, <1>4, <1>5, <1>6, CellStep

\* A leaked guard leaves the header as it is, locked for one guard more than
\* there are: the invariant of the shared store allows for that.
LEMMA LeakStep ==
  ASSUME Inv, LiveInv, GoneInv, NEW t \in Threads, Leak(t)
  PROVE  Inv' /\ LiveInv' /\ GoneInv'
<1>1. PICK g \in GuardsOf(t) : /\ read_locks' = read_locks \ {g}
                               /\ write_locks' = write_locks \ {g}
  BY DEF Leak
<1>2. g.owner = t /\ pc[t] = "idle"
  BY DEF GuardsOf, Leak
<1>3. /\ read_locks' \subseteq read_locks /\ write_locks' \subseteq write_locks
      /\ \A h \in read_locks : h.owner # t => h \in read_locks'
      /\ \A h \in write_locks : h.owner # t => h \in write_locks'
  BY <1>1, <1>2
<1> USE DEF Leak, slotVars, parkVars
<1>4. TypeOK'
  BY <1>3 DEF Inv, TypeOK
<1>5. LockInv' /\ IdInv'
  BY <1>3 DEF Inv, LockInv, IdInv
<1>6. CountInv'
  <2>1. /\ IsFiniteSet(read_locks) /\ Cardinality(read_locks) <= state.readers
        /\ state.readers \in Nat
    BY LockedHeader DEF Inv, CountInv
  <2>2. /\ IsFiniteSet(read_locks')
        /\ Cardinality(read_locks') <= Cardinality(read_locks)
    BY <1>3, <2>1, FS_Subset
  <2>3. Cardinality(read_locks) \in Nat /\ Cardinality(read_locks') \in Nat
    BY <2>1, <2>2, FS_CardinalityType
  <2> QED BY <1>3, <2>1, <2>2, <2>3 DEF Inv, CountInv
<1>7. OwnInv' /\ CellInv' /\ ParkInv' /\ NoLostWakeup'
  BY DEF Inv, OwnInv, Holder, CellInv, ParkInv, NoLostWakeup
<1>8. CallInv'
  <2>1. ASSUME NEW u \in Threads, pc[u] = "unlock_cas"
        PROVE  \E h \in read_locks' : h.owner = u /\ h.id = call[u].id
    <3>1. PICK h \in read_locks : h.owner = u /\ h.id = call[u].id
      BY <2>1 DEF Inv, CallInv
    <3> QED BY <1>2, <1>3, <2>1, <3>1
  <2>2. ASSUME NEW u \in Threads, pc[u] = "swap"
        PROVE  [owner |-> u, id |-> call[u].id] \in write_locks'
    <3>1. [owner |-> u, id |-> call[u].id] \in write_locks
      BY <2>2 DEF Inv, CallInv
    <3> QED BY <1>2, <1>3, <2>2, <3>1
  <2> QED BY <2>1, <2>2 DEF Inv, CallInv
<1>9. ReentrantReadNeverBlocks'
  BY <1>3 DEF Inv, ReentrantReadNeverBlocks
<1>10. LiveInv' /\ GoneInv'
  BY DEF LiveInv, GoneInv
<1> QED BY <1>4, <1>5, <1>6, <1>7, <1>8, <1>9, <1>10 DEF Inv

-----------------------------------------------------------------------------
\* What the owner finds when the last borrow has ended: no waiter, no readers
\* but leaked ones, and in the cell the header's element or none.
LEMMA OwnerFinds ==
  ASSUME SharedInv, GoneInv, Exclusive
  PROVE  /\ parked = {}
         /\ is_occupied(state) => /\ cell = state.id /\ state.id \in issued
                                  /\ state.id \in Ordinals /\ gone[state.id] = 0
         /\ ~is_occupied(state) => cell = NoElement
         /\ ~leaked => state.readers = 0
<1>1. parked = {}
  BY DEF SharedInv, Inv, TypeOK, ParkInv, Exclusive, Quiescent
<1>2. SlotAccounting
  BY AccountingFromInv DEF SharedInv
<1>3. ~is_occupied(state) => cell = NoElement
  BY <1>2 DEF SlotAccounting, Exclusive
<1>4. ASSUME is_occupied(state)
      PROVE  /\ cell = state.id /\ state.id \in issued
             /\ state.id \in Ordinals /\ gone[state.id] = 0
  <2>1. cell = state.id
    BY <1>2, <1>4 DEF SlotAccounting, Exclusive
  <2>2. state.id \in issued /\ state.id \in Ordinals
    BY <1>4 DEF SharedInv, LiveInv, Inv, TypeOK
  <2> QED BY <2>1, <2>2 DEF GoneInv
<1>5. ~leaked => state.readers = 0
  BY FS_EmptySet DEF SharedInv, GuardsCounted, Exclusive
<1> QED BY <1>1, <1>3, <1>4, <1>5

\* The element that leaves with the owner is counted, and the cell is empty.
LEMMA OwnerTakes ==
  ASSUME GoneInv, UNCHANGED issued, cell' = NoElement,
         \/ cell = NoElement /\ UNCHANGED gone
         \/ /\ cell \in issued /\ cell \in Ordinals /\ gone[cell] = 0
            /\ gone' = [gone EXCEPT ![cell] = gone[cell] + 1]
  PROVE  GoneInv'
<1> USE NoElementAssumption
<1>1. CASE cell = NoElement /\ UNCHANGED gone
  BY <1>1 DEF GoneInv
<1>2. CASE /\ cell \in issued /\ cell \in Ordinals
           /\ gone' = [gone EXCEPT ![cell] = 1]
  BY <1>2 DEF GoneInv
<1> QED BY <1>1, <1>2

\* into_iter leaves an unoccupied header and an empty cell behind.
LEMMA Block_takeStep ==
  ASSUME ExclusiveInv, Block_take
  PROVE  ExclusiveInv'
<1> USE DEF Block_take, parkVars, guardVars
<1>1. SharedInv /\ GoneInv /\ Exclusive /\ phase' = "consumed"
  BY DEF ExclusiveInv
<1>2. GoneInv' /\ cell' = NoElement
  <2>1. CASE is_occupied(state)
    BY <1>1, <2>1, OwnerFinds, OwnerTakes
  <2>2. CASE ~is_occupied(state)
    BY <1>1, <2>2, OwnerFinds, OwnerTakes
  <2> QED BY <2>1, <2>2
<1>3. ~is_occupied(state') /\ (~leaked' => state'.readers = 0)
  <2>1. state.id \in Ordinals
    BY <1>1 DEF SharedInv, Inv, TypeOK, States
  <2> QED BY <1>1, <2>1, OwnerFinds, StateFields DEF reset
<1>4. Exclusive' /\ parked' = {}
  BY <1>1, OwnerFinds DEF Exclusive, Quiescent
<1>5. EndedInv'
  BY <1>2, <1>3, <1>4 DEF EndedInv
<1> QED BY <1>1, <1>2, <1>5 DEF ExclusiveInv

\* Dropping the slot drops the element of an occupied header and no other.
LEMMA Slot_dropStep ==
  ASSUME ExclusiveInv, Slot_drop
  PROVE  ExclusiveInv'
<1> USE DEF Slot_drop, parkVars, guardVars
<1>1. GoneInv /\ Exclusive /\ phase' = "dropped"
  BY DEF ExclusiveInv
<1>2. CASE phase = "shared"
  <2>1. SharedInv
    BY <1>2 DEF ExclusiveInv
  <2>2. GoneInv' /\ cell' = NoElement
    <3>1. CASE is_occupied(state)
      BY <1>1, <2>1, <3>1, OwnerFinds, OwnerTakes
    <3>2. CASE ~is_occupied(state)
      BY <1>1, <2>1, <3>2, OwnerFinds, OwnerTakes
    <3> QED BY <3>1, <3>2
  <2>3. EndedInv'
    BY <1>1, <2>1, <2>2, OwnerFinds DEF EndedInv, Exclusive, Quiescent
  <2> QED BY <1>1, <2>2, <2>3 DEF ExclusiveInv
<1>3. CASE phase = "consumed"
  <2>1. EndedInv
    BY <1>3 DEF ExclusiveInv
  <2>2. UNCHANGED <<gone, cell>>
    BY <1>3, <2>1 DEF EndedInv
  <2>3. GoneInv' /\ EndedInv'
    BY <1>1, <2>1, <2>2 DEF GoneInv, EndedInv, Exclusive, Quiescent
  <2> QED BY <1>1, <2>3 DEF ExclusiveInv
<1> QED BY <1>2, <1>3

\* Every step of the slot's life preserves the invariant.
LEMMA ExclusiveStep == ExclusiveInv /\ [ExclusiveNext]_exclusiveVars => ExclusiveInv'
<1> SUFFICES ASSUME ExclusiveInv, [ExclusiveNext]_exclusiveVars
             PROVE  ExclusiveInv'
  OBVIOUS
<1>1. CASE Shared
  <2>1. SharedInv /\ GoneInv /\ [Next]_vars
    BY <1>1 DEF Shared, ExclusiveInv
  <2>2. Inv' /\ LiveInv' /\ GoneInv'
    BY <1>1, <2>1, NextInv, LiveStep, GoneStep DEF SharedInv
  <2>3. ~leaked' => GuardsCounted'
    BY <1>1, <2>1, CountedStep DEF SharedInv, Shared
  <2> QED BY <1>1, <2>2, <2>3 DEF ExclusiveInv, SharedInv, Shared
<1>2. CASE \E t \in Threads : Leak(t)
  <2>1. SharedInv /\ GoneInv /\ phase' = "shared" /\ leaked' = TRUE
    BY <1>2 DEF Leak, ExclusiveInv
  <2>2. Inv' /\ LiveInv' /\ GoneInv'
    BY <1>2, <2>1, LeakStep DEF SharedInv
  <2> QED BY <2>1, <2>2 DEF ExclusiveInv, SharedInv
<1>3. CASE UNCHANGED exclusiveVars
  <2>1. UNCHANGED vars /\ UNCHANGED <<phase, leaked, gone>>
    BY <1>3 DEF exclusiveVars
  <2>2. GoneInv'
    BY <2>1 DEF ExclusiveInv, GoneInv, vars
  <2>3. phase' = "shared" => SharedInv'
    BY <2>1, NextInv, LiveStep, CountedStep DEF ExclusiveInv, SharedInv
  <2>4. phase' # "shared" => EndedInv'
    BY <2>1 DEF ExclusiveInv, EndedInv, Exclusive, Quiescent, vars
  <2> QED BY <2>1, <2>2, <2>3, <2>4 DEF ExclusiveInv
<1> QED BY <1>1, <1>2, <1>3, Block_takeStep, Slot_dropStep DEF ExclusiveNext

\* A new slot is shared, empty and unlocked.
LEMMA ExclusiveInitInv == ExclusiveInit => ExclusiveInv
<1> SUFFICES ASSUME ExclusiveInit PROVE ExclusiveInv
  OBVIOUS
<1>1. Inv
  BY InitInv DEF ExclusiveInit
<1>2. ~is_occupied(state) /\ state.readers = 0
  BY DEF ExclusiveInit, Init, unoccupied_bits, is_occupied
<1>3. LiveInv
  BY <1>2 DEF LiveInv, ExclusiveInit, Init
<1>4. GuardsCounted
  BY <1>2, FS_EmptySet DEF GuardsCounted, ExclusiveInit, Init
<1>5. GoneInv
  BY DEF GoneInv, ExclusiveInit, Init
<1> QED BY <1>1, <1>3, <1>4, <1>5 DEF ExclusiveInv, SharedInv, ExclusiveInit

\* The inductive invariant of a slot's life.
THEOREM ExclusiveInvariance == ExclusiveSpec => []ExclusiveInv
  BY ExclusiveInitInv, ExclusiveStep, PTL DEF ExclusiveSpec

\* No element is moved out or dropped twice, and a dropped store has dropped or
\* handed out every one, whatever guards were leaked (Slot::drop, Block::take).
THEOREM ElementsLeaveOnceHolds == ExclusiveSpec => []ElementsLeaveOnce
<1>1. ASSUME ExclusiveInv PROVE ElementsLeaveOnce
  <2>1. \A id \in Ordinals : gone[id] \in {0, 1}
    BY <1>1 DEF ExclusiveInv, GoneInv
  <2>2. phase = "dropped" => cell = NoElement
    BY <1>1 DEF ExclusiveInv, EndedInv
  <2>3. phase = "dropped" => \A id \in Ordinals : id \in issued <=> gone[id] = 1
    BY <1>1, <2>2, NoElementAssumption DEF ExclusiveInv, GoneInv
  <2> QED BY <2>1, <2>3 DEF ElementsLeaveOnce
<1> QED BY <1>1, ExclusiveInvariance, PTL

\* The header has no readers left when the store is consumed or dropped and no
\* guard was leaked (the assertions of Header::reset and Header::drop).
THEOREM ReadersBalancedHolds == ExclusiveSpec => []ReadersBalanced
<1>1. ASSUME ExclusiveInv PROVE ReadersBalanced
  BY <1>1, OwnerFinds DEF ExclusiveInv, EndedInv, ReadersBalanced
<1> QED BY <1>1, ExclusiveInvariance, PTL

\* Leaked guards cost nobody else anything: exclusive access, the guards'
\* elements, the debug assertions and the wake-ups all outlast them.
THEOREM SafeWithLeaksHolds == ExclusiveSpec => []SafeWithLeaks
<1>1. ASSUME ExclusiveInv PROVE SafeWithLeaks
  <2>1. CASE phase = "shared"
    <3>1. Inv
      BY <1>1, <2>1 DEF ExclusiveInv, SharedInv
    <3> QED BY <3>1, ExclusiveFromInv, ElementFromInv, AssertsFromInv
            DEF SafeWithLeaks, Inv
  <2>2. CASE phase # "shared"
    <3>1. Quiescent /\ read_locks = {} /\ write_locks = {} /\ parked = {}
      BY <1>1, <2>2 DEF ExclusiveInv, EndedInv, Exclusive
    <3> QED BY <3>1 DEF SafeWithLeaks, ExclusiveAccess, Movers, GuardsKeepElement,
            DebugAsserts, NoLostWakeup, Quiescent
  <2> QED BY <2>1, <2>2
<1> QED BY <1>1, ExclusiveInvariance, PTL
===============================================================================
