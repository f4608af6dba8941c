------------------------------ MODULE SlotProofs ------------------------------
(***************************************************************************)
(* The safety properties of Slot hold for every number of threads, of      *)
(* ordinals, of concurrent reads and of guards: an inductive invariant,    *)
(* its preservation by each action, and the properties it implies.         *)
(***************************************************************************)
EXTENDS Slot, FiniteSetTheorems, TLAPS

\* The reader bits say WRITE_LOCKED while the write guard exists, and count no
\* fewer readers than there are read guards; every guard carries the header's
\* ordinal.  All this outlasts a guard that is leaked.
LockInv ==
    /\ write_locks # {} => state.readers = WRITE_LOCKED /\ read_locks = {}
    /\ \A v, w \in write_locks : v = w
    /\ \A w \in write_locks : w.id = state.id
    /\ \A g \in read_locks : g.id = state.id

CountInv ==
    /\ IsFiniteSet(read_locks)
    /\ Cardinality(read_locks) <= state.readers
    /\ read_locks # {} => state.readers <= MAX_CONCURRENT_READS

\* An ordinal in circulation is the header's own only while it is occupied.
IdInv ==
    /\ \A i \in issued : i <= state.id /\ (i = state.id => is_occupied(state))
    /\ is_occupied(state) => state.id # RESERVED_ID

\* The threads an unoccupied slot belongs to.
Holder(t) ==
    \/ pc[t] \in {"fill", "occupy", "take", "push"}
    \/ pc[t] = "unpark" /\ call[t].op = "remove_locked" /\ may_reuse(call[t].id)

\* An unoccupied slot that is neither retired nor on offer belongs to exactly
\* one thread, and the cell holds an element only where its owner expects it.
OwnInv ==
    /\ \A t, u \in Threads : Holder(t) /\ Holder(u) => t = u
    /\ \A t \in Threads : Holder(t) => ~is_occupied(state) /\ ~vacant
    /\ vacant => ~is_occupied(state) /\ state.id # RESERVED_ID
    /\ \A t \in Threads :
           /\ pc[t] \in {"fill", "occupy"} => state.id # RESERVED_ID
           /\ pc[t] \in {"take", "push"} => call[t].id + 1 = state.id
           /\ pc[t] = "push" => may_reuse(call[t].id)
           /\ pc[t] = "unpark" /\ Holder(t) => call[t].id + 1 = state.id
    /\ ~is_occupied(state) /\ ~vacant =>
           state.id = RESERVED_ID \/ \E t \in Threads : Holder(t)

CellInv ==
    /\ is_occupied(state) => \/ cell = state.id
                             \/ \E t \in Threads : pc[t] = "swap"
    /\ ~is_occupied(state) => \/ cell = NoElement
                              \/ \E t \in Threads : pc[t] \in {"occupy", "take"}
    /\ \A t \in Threads : /\ pc[t] = "occupy" => cell = state.id
                          /\ pc[t] = "take" => cell = call[t].id
                          /\ pc[t] = "swap" => cell = NoElement

\* What the local variables of a running call are known to hold.
CallInv ==
    \A t \in Threads :
        /\ pc[t] \in {"load", "read_cas", "transition", "park", "eval", "mark",
                      "parked"} => call[t].id \in issued
        /\ pc[t] \in {"load", "read_cas"} => call[t].op = "read"
        /\ pc[t] = "transition" => call[t].op \in {"write", "remove"}
        /\ pc[t] \in {"park", "eval", "mark", "parked"} =>
               call[t].op \in {"read", "write", "remove"}
        /\ pc[t] = "read_cas" => /\ current[t].id = call[t].id
                                 /\ current[t].readers < MAX_CONCURRENT_READS
        /\ pc[t] = "mark" => /\ current[t].id = call[t].id
                             /\ current[t].readers > 0
        /\ pc[t] = "unlock_cas" =>
               /\ call[t].op = "unlock_read"
               /\ \E g \in read_locks : g.owner = t /\ g.id = call[t].id
               /\ current[t].readers \in 1 .. MAX_CONCURRENT_READS
               /\ current[t].id = call[t].id
        /\ pc[t] = "swap" => /\ call[t].op = "remove_locked"
                             /\ [owner |-> t, id |-> call[t].id] \in write_locks
        /\ pc[t] = "unpark" => call[t].op \in {"unlock_read", "unlock_write",
                                               "remove_locked"}

ParkInv ==
    /\ \A t \in Threads : t \in parked <=> pc[t] = "parked"
    /\ \A t \in Threads : queue_lock = t <=> pc[t] \in {"eval", "mark"}

Inv ==
    /\ TypeOK
    /\ LockInv
    /\ CountInv
    /\ IdInv
    /\ OwnInv
    /\ CellInv
    /\ CallInv
    /\ ParkInv
    /\ NoLostWakeup
    /\ ReentrantReadNeverBlocks

-----------------------------------------------------------------------------
\* The bit helpers of header.rs map state words to state words.
LEMMA StateWords ==
    /\ NoState \in States
    /\ NoCall \in Calls
    /\ \A i \in Ordinals : /\ unoccupied_bits(i) \in States
                           /\ occupied_unlocked_bits(i) \in States
                           /\ write_locked_bits(i) \in States
    /\ \A s \in States : /\ mark_thread_blocking(s) \in States
                         /\ unmark_thread_blocking(s) \in States
                         /\ ~is_write_locked(s) => increment_readers(s) \in States
                         /\ s.readers > 0 => decrement_readers(s) \in States
<1> USE ReservedAssumption, ReadsAssumption DEF States, Ordinals, WRITE_LOCKED
<1>1. NoState \in States /\ NoCall \in Calls
  BY DEF NoState, NoCall, unoccupied_bits, Calls, Ops, Timeouts
<1>2. \A i \in Ordinals : /\ unoccupied_bits(i) \in States
                          /\ occupied_unlocked_bits(i) \in States
                          /\ write_locked_bits(i) \in States
  BY DEF unoccupied_bits, occupied_unlocked_bits, write_locked_bits
<1>3. \A s \in States : /\ mark_thread_blocking(s) \in States
                        /\ unmark_thread_blocking(s) \in States
  BY DEF mark_thread_blocking, unmark_thread_blocking
<1>4. ASSUME NEW s \in States
      PROVE  /\ ~is_write_locked(s) => increment_readers(s) \in States
             /\ s.readers > 0 => decrement_readers(s) \in States
  BY DEF increment_readers, decrement_readers, is_write_locked
<1> QED BY <1>1, <1>2, <1>3, <1>4

\* The part of TypeOK that control steps change.
ControlOK ==
    /\ pc \in [Threads -> PCs]
    /\ call \in [Threads -> Calls]
    /\ current \in [Threads -> States]
    /\ result \in [Threads -> Results]

\* Every way a thread moves on keeps the types of its local state.
LEMMA ControlTypes ==
  ASSUME ControlOK, NEW t \in Threads
  PROVE  /\ \A p \in PCs, c \in States : GoWith(t, p, c) => ControlOK'
         /\ \A p \in PCs : Go(t, p) => ControlOK'
         /\ \A r \in Results : Return(t, r) => ControlOK'
         /\ \A op \in Ops, id \in Ordinals, d \in Timeouts, p \in PCs :
                Begin(t, op, id, d, p) /\ (current' \in [Threads -> States])
                    => ControlOK'
<1>1. ASSUME NEW p \in PCs, NEW c \in States, GoWith(t, p, c)
      PROVE  ControlOK'
  BY <1>1 DEF ControlOK, GoWith
<1>2. ASSUME NEW p \in PCs, Go(t, p)
      PROVE  ControlOK'
  BY <1>1, <1>2, StateWords DEF Go
<1>3. ASSUME NEW r \in Results, Return(t, r)
      PROVE  ControlOK'
  BY <1>3, StateWords DEF ControlOK, Return, PCs
<1>4. ASSUME NEW op \in Ops, NEW id \in Ordinals, NEW d \in Timeouts, NEW p \in PCs,
             Begin(t, op, id, d, p), current' \in [Threads -> States]
      PROVE  ControlOK'
  BY <1>4 DEF ControlOK, Begin, Calls, Results
<1> QED BY <1>1, <1>2, <1>3, <1>4

\* An Id in circulation has a successor, and the header with that ordinal is
\* occupied by its element.
LEMMA IssuedIds ==
  ASSUME Inv, NEW i \in issued
  PROVE  /\ i \in Ordinals
         /\ i + 1 \in Ordinals
         /\ i # RESERVED_ID
         /\ i = state.id => is_occupied(state)
  BY ReservedAssumption DEF Inv, TypeOK, IdInv, Ordinals, States

\* A header with guards is locked, and a write locked one has no read guard.
LEMMA LockedHeader ==
  ASSUME Inv
  PROVE  /\ write_locks # {} => is_write_locked(state)
         /\ is_write_locked(state) => read_locks = {}
         /\ write_locks # {} \/ read_locks # {} => state.readers > 0
         /\ state.readers = 0 => write_locks = {} /\ read_locks = {}
         /\ state.readers \in Nat
         /\ is_write_locked(state) => state.readers > 0
         /\ state.readers > 0 => is_occupied(state)
<1> USE ReadsAssumption DEF Inv, TypeOK, States, WRITE_LOCKED
<1>1. state.readers \in Nat
  OBVIOUS
<1>2. write_locks # {} => state.readers = WRITE_LOCKED /\ read_locks = {}
  BY DEF LockInv
<1>3. state.readers = WRITE_LOCKED => read_locks = {}
  BY <1>1 DEF CountInv
<1>4. read_locks # {} => state.readers > 0
  <2>1. IsFiniteSet(read_locks) /\ Cardinality(read_locks) <= state.readers
    BY DEF CountInv
  <2>2. Cardinality(read_locks) \in Nat /\ (Cardinality(read_locks) = 0 <=> read_locks = {})
    BY <2>1, FS_CardinalityType, FS_EmptySet
  <2> QED BY <1>1, <2>1, <2>2
<1>5. WRITE_LOCKED > 0
  OBVIOUS
<1> QED BY <1>1, <1>2, <1>3, <1>4, <1>5 DEF is_write_locked, is_occupied

\* What each bit helper does to the fields and to the predicates.
LEMMA StateFields ==
    /\ \A i \in Ordinals :
         /\ unoccupied_bits(i).id = i /\ unoccupied_bits(i).readers = 0
         /\ ~is_occupied(unoccupied_bits(i))
         /\ occupied_unlocked_bits(i).id = i
         /\ occupied_unlocked_bits(i).readers = 0
         /\ is_occupied(occupied_unlocked_bits(i))
         /\ write_locked_bits(i).id = i
         /\ write_locked_bits(i).readers = WRITE_LOCKED
         /\ is_occupied(write_locked_bits(i))
    /\ \A s \in States :
         /\ mark_thread_blocking(s).id = s.id
         /\ mark_thread_blocking(s).readers = s.readers
         /\ has_thread_blocking(mark_thread_blocking(s))
         /\ unmark_thread_blocking(s).id = s.id
         /\ unmark_thread_blocking(s).readers = s.readers
         /\ is_occupied(unmark_thread_blocking(s))
         /\ increment_readers(s).id = s.id
         /\ increment_readers(s).readers = s.readers + 1
         /\ increment_readers(s).notification = s.notification
         /\ decrement_readers(s).id = s.id
         /\ decrement_readers(s).readers = s.readers - 1
         /\ decrement_readers(s).notification = s.notification
<1> USE ReservedAssumption, ReadsAssumption DEF States, WRITE_LOCKED
<1>1. ASSUME NEW i \in Ordinals
      PROVE  /\ unoccupied_bits(i).id = i /\ unoccupied_bits(i).readers = 0
             /\ ~is_occupied(unoccupied_bits(i))
             /\ occupied_unlocked_bits(i).id = i
             /\ occupied_unlocked_bits(i).readers = 0
             /\ is_occupied(occupied_unlocked_bits(i))
             /\ write_locked_bits(i).id = i
             /\ write_locked_bits(i).readers = WRITE_LOCKED
             /\ is_occupied(write_locked_bits(i))
  BY DEF unoccupied_bits, occupied_unlocked_bits, write_locked_bits, is_occupied
<1>2. ASSUME NEW s \in States
      PROVE  /\ mark_thread_blocking(s).id = s.id
             /\ mark_thread_blocking(s).readers = s.readers
             /\ has_thread_blocking(mark_thread_blocking(s))
             /\ unmark_thread_blocking(s).id = s.id
             /\ unmark_thread_blocking(s).readers = s.readers
             /\ is_occupied(unmark_thread_blocking(s))
  BY DEF mark_thread_blocking, unmark_thread_blocking, has_thread_blocking, is_occupied
<1>3. ASSUME NEW s \in States
      PROVE  /\ increment_readers(s).id = s.id
             /\ increment_readers(s).readers = s.readers + 1
             /\ increment_readers(s).notification = s.notification
             /\ decrement_readers(s).id = s.id
             /\ decrement_readers(s).readers = s.readers - 1
             /\ decrement_readers(s).notification = s.notification
  BY DEF increment_readers, decrement_readers
<1> QED BY <1>1, <1>2, <1>3

-----------------------------------------------------------------------------
\* The ways a locking call moves on without changing the header, shared by the
\* actions below.

\* Steps that change no shared state but the parking mutex.
Private == UNCHANGED <<state, slotVars, guardVars, parked>>

\* The mutex is released by a thread that leaves the closure, and only by it.
MutexStep(t) ==
    queue_lock' = IF pc[t] = "eval" THEN NoThread ELSE queue_lock

\* A locking call that has no lock yet may return at any point.
LEMMA ReturnStep ==
  ASSUME Inv, NEW t \in Threads, NEW r \in Results, Return(t, r),
         pc[t] \in {"load", "read_cas", "transition", "eval"},
         Private, MutexStep(t)
  PROVE  Inv'
<1> USE DEF Inv, Private, slotVars, guardVars, MutexStep
<1>1. TypeOK'
  BY ControlTypes DEF TypeOK, ControlOK
<1>2. LockInv' /\ CountInv' /\ IdInv'
  BY DEF LockInv, CountInv, IdInv
<1>3. OwnInv' /\ CellInv'
  BY DEF OwnInv, CellInv, Holder, Return, NoCall, TypeOK
<1>4. CallInv'
  BY DEF CallInv, Return, TypeOK
<1>5. ParkInv'
  BY NoThreadAssumption DEF ParkInv, Return, TypeOK
<1>6. NoLostWakeup' /\ ReentrantReadNeverBlocks'
  BY DEF NoLostWakeup, ReentrantReadNeverBlocks, Return, NoCall, TypeOK
<1> QED BY <1>1, <1>2, <1>3, <1>4, <1>5, <1>6

\* A locking call moves to another point where it holds no lock either, as
\* long as what it remembers fits and a reader that waits holds no guard.
LEMMA GoStep ==
  ASSUME Inv, NEW t \in Threads, NEW p \in PCs, NEW c \in States,
         GoWith(t, p, c), Private, MutexStep(t),
         pc[t] \in {"load", "read_cas", "transition", "eval"},
         p \in {"read_cas", "transition", "park"},
         p = "read_cas" => /\ call[t].op = "read"
                           /\ c.id = call[t].id
                           /\ c.readers < MAX_CONCURRENT_READS,
         p = "transition" => call[t].op \in {"write", "remove"},
         p = "park" /\ call[t].op = "read" =>
             \A g \in read_locks : g.owner # t
  PROVE  Inv'
<1> USE DEF Inv, Private, slotVars, guardVars, MutexStep
<1>1. TypeOK'
  BY ControlTypes DEF TypeOK, ControlOK
<1>2. LockInv' /\ CountInv' /\ IdInv'
  BY DEF LockInv, CountInv, IdInv
<1>3. OwnInv' /\ CellInv'
  BY DEF OwnInv, CellInv, Holder, GoWith, TypeOK
<1>4. CallInv'
  BY DEF CallInv, GoWith, TypeOK
<1>5. ParkInv'
  BY NoThreadAssumption DEF ParkInv, GoWith, TypeOK
<1>6. NoLostWakeup' /\ ReentrantReadNeverBlocks'
  BY DEF NoLostWakeup, ReentrantReadNeverBlocks, GoWith, TypeOK
<1> QED BY <1>1, <1>2, <1>3, <1>4, <1>5, <1>6

\* Evaluating the new reader count panics or leads to the compare-exchange.
LEMMA IncrementStep ==
  ASSUME Inv, NEW t \in Threads, Increment(t, state), Private, MutexStep(t),
         pc[t] \in {"load", "read_cas", "eval"}, call[t].op = "read",
         state.id = call[t].id, ~is_write_locked(state)
  PROVE  Inv'
<1>1. CASE too_many_readers(state) /\ Return(t, "panic")
  BY <1>1, ReturnStep DEF Results
<1>2. CASE ~too_many_readers(state) /\ GoWith(t, "read_cas", state)
  <2>1. state \in States
    BY DEF Inv, TypeOK
  <2>2. state.readers \in 0 .. WRITE_LOCKED
    BY <2>1 DEF States
  <2>3. state.readers < MAX_CONCURRENT_READS
    BY <1>2, <2>2, ReadsAssumption
       DEF is_write_locked, too_many_readers, WRITE_LOCKED
  <2> QED BY <1>2, <2>1, <2>3, GoStep DEF PCs
<1> QED BY <1>1, <1>2 DEF Increment

\* The slow path times out at once or goes on to park.
LEMMA SlowStep ==
  ASSUME Inv, NEW t \in Threads, Slow(t), Private, UNCHANGED queue_lock,
         pc[t] \in {"load", "read_cas", "transition"},
         call[t].op = "read" => is_write_locked(state)
  PROVE  Inv'
<1>1. CASE Return(t, "timed_out")
  BY <1>1, ReturnStep DEF Results, MutexStep
<1>2. CASE Go(t, "park")
  <2>1. call[t].op = "read" => read_locks = {}
    BY LockedHeader DEF Inv, LockInv
  <2> QED BY <1>2, <2>1, GoStep, StateWords DEF PCs, MutexStep, Go
<1> QED BY <1>1, <1>2 DEF Slow

\* lock_read_with_current, on the value the header has at this moment.
LEMMA WithCurrentStep ==
  ASSUME Inv, NEW t \in Threads, lock_read_with_current(t, state), Private,
         UNCHANGED queue_lock, pc[t] \in {"load", "read_cas"}
  PROVE  Inv'
<1>1. call[t].op = "read" /\ MutexStep(t)
  BY DEF Inv, CallInv, MutexStep
<1>2. CASE Return(t, "none")
  BY <1>1, <1>2, ReturnStep DEF Results
<1>3. CASE is_write_locked(state) /\ Slow(t)
  BY <1>3, SlowStep
<1>4. CASE /\ state.id = call[t].id
           /\ ~is_write_locked(state)
           /\ Increment(t, state)
  BY <1>1, <1>4, IncrementStep
<1> QED BY <1>2, <1>3, <1>4 DEF lock_read_with_current

\* The exchange of transition succeeds: a write guard is made, or the header
\* is emptied and the thread goes on to take the element out.
LEMMA TransitionedStep ==
  ASSUME Inv, NEW t \in Threads, state = expected(t), Transitioned(t),
         UNCHANGED <<slotVars, parked, read_locks>>, MutexStep(t),
         pc[t] \in {"transition", "eval"}, call[t].op \in {"write", "remove"}
  PROVE  Inv'
<1> DEFINE i == call[t].id
<1>0. i \in issued
  BY DEF Inv, CallInv
<1>1. /\ i \in issued /\ i \in Ordinals /\ i + 1 \in Ordinals
      /\ i # RESERVED_ID /\ i \in Nat
  BY <1>0, IssuedIds DEF Ordinals
<1>2. /\ state.id = i /\ state.readers = 0 /\ is_occupied(state)
      /\ read_locks = {} /\ write_locks = {}
  BY <1>1, StateFields, LockedHeader DEF expected
<1>3. parked # {} => \E u \in Threads : pc[u] = "unpark" /\ u # t
  BY <1>2 DEF Inv, NoLostWakeup
<1>4. \A u \in Threads : ~Holder(u)
  BY <1>2 DEF Inv, OwnInv
<1>5. \A u \in Threads : pc[u] # "swap"
  BY <1>2 DEF Inv, CallInv
<1>6. CASE call[t].op = "write"
  <2>1. /\ state' = write_locked_bits(i)
        /\ write_locks' = {[owner |-> t, id |-> i]}
        /\ Return(t, "ok")
    BY <1>2, <1>6 DEF Transitioned, new
  <2>2. /\ state' \in States /\ state'.id = i /\ state'.readers = WRITE_LOCKED
        /\ is_occupied(state')
    BY <1>1, <2>1, StateFields, StateWords
  <2> USE DEF Inv, slotVars, MutexStep
  <2>3. TypeOK'
    <3>1. ControlOK'
      BY <2>1, ControlTypes DEF TypeOK, ControlOK, Results
    <3>2. write_locks' \subseteq WriteLocks
      BY <1>1, <2>1 DEF WriteLocks
    <3> QED BY <2>2, <3>1, <3>2 DEF TypeOK, ControlOK
  <2>4. LockInv' /\ CountInv'
    <3>1. LockInv'
      BY <1>2, <2>1, <2>2 DEF LockInv
    <3>2. CountInv'
      BY <1>2, <2>1, <2>2, FS_EmptySet, ReadsAssumption DEF CountInv, WRITE_LOCKED
    <3> QED BY <3>1, <3>2
  <2>5. IdInv'
    BY <1>1, <1>2, <2>2 DEF IdInv
  <2>6. OwnInv' /\ CellInv'
    BY <1>1, <1>2, <1>4, <1>5, <2>1, <2>2
       DEF OwnInv, CellInv, Holder, Return, NoCall, TypeOK
  <2>7. CallInv'
    BY <1>2, <1>5, <2>1 DEF CallInv, Return, TypeOK
  <2>8. ParkInv' /\ NoLostWakeup' /\ ReentrantReadNeverBlocks'
    BY <1>2, <1>3, <2>1, NoThreadAssumption
       DEF ParkInv, NoLostWakeup, ReentrantReadNeverBlocks, Return, NoCall, TypeOK
  <2> QED BY <2>3, <2>4, <2>5, <2>6, <2>7, <2>8
<1>7. CASE call[t].op = "remove"
  <2>1. state' = unoccupied_bits(i + 1) /\ write_locks' = {} /\ Go(t, "take")
    BY <1>2, <1>7 DEF Transitioned, new
  <2>2. /\ state' \in States /\ state'.id = i + 1 /\ state'.readers = 0
        /\ ~is_occupied(state')
    BY <1>1, <2>1, StateFields, StateWords
  <2> USE DEF Inv, slotVars, MutexStep
  <2>3. TypeOK'
    <3>1. ControlOK'
      BY <2>1, ControlTypes DEF TypeOK, ControlOK, PCs
    <3> QED BY <2>1, <2>2, <3>1 DEF TypeOK, ControlOK
  <2>4. LockInv' /\ CountInv'
    BY <1>2, <2>1, <2>2, FS_EmptySet, ReadsAssumption DEF LockInv, CountInv
  <2>5. IdInv'
    BY <1>1, <1>2, <2>2 DEF IdInv, TypeOK, Ordinals
  <2>6. OwnInv'
    BY <1>1, <1>2, <1>4, <2>1, <2>2
       DEF OwnInv, Holder, Go, GoWith, TypeOK
  <2>7. CellInv'
    BY <1>1, <1>2, <1>4, <1>5, <2>1, <2>2
       DEF CellInv, Holder, Go, GoWith, TypeOK
  <2>8. CallInv'
    BY <1>2, <1>5, <2>1 DEF CallInv, Go, GoWith, TypeOK
  <2>9. ParkInv' /\ NoLostWakeup' /\ ReentrantReadNeverBlocks'
    BY <1>2, <1>3, <2>1, NoThreadAssumption
       DEF ParkInv, NoLostWakeup, ReentrantReadNeverBlocks, Go, GoWith, TypeOK
  <2> QED BY <2>3, <2>4, <2>5, <2>6, <2>7, <2>8, <2>9
<1> QED BY <1>6, <1>7

-----------------------------------------------------------------------------
\* One lemma per action of Next.

\* The first look at the header of lock_read.
LEMMA lock_readStep ==
  ASSUME Inv, NEW t \in Threads, lock_read(t)
  PROVE  Inv'
  BY WithCurrentStep DEF lock_read, Private, slotVars, guardVars, parkVars

\* The weak compare-exchange of transition: taken, slow path, retry or mismatch.
LEMMA transitionStep ==
  ASSUME Inv, NEW t \in Threads, transition(t)
  PROVE  Inv'
<1> USE DEF transition, slotVars, parkVars
<1>1. /\ call[t].op \in {"write", "remove"} /\ pc[t] = "transition"
      /\ MutexStep(t)
  BY DEF Inv, CallInv, MutexStep
<1>2. CASE state = expected(t) /\ Transitioned(t)
  BY <1>1, <1>2, TransitionedStep
<1>3. CASE Slow(t) /\ UNCHANGED <<state, write_locks>>
  BY <1>1, <1>3, SlowStep DEF Private, guardVars
<1>4. CASE Go(t, "transition") /\ UNCHANGED <<state, write_locks>>
  BY <1>1, <1>4, GoStep, StateWords DEF Private, guardVars, Go, PCs
<1>5. CASE Return(t, "none") /\ UNCHANGED <<state, write_locks>>
  BY <1>1, <1>5, ReturnStep DEF Private, guardVars, Results
<1> QED BY <1>2, <1>3, <1>4, <1>5

\* insert takes the slot on offer: it becomes the slot's only owner.
LEMMA InsertStep ==
  ASSUME Inv, NEW t \in Threads, Insert(t)
  PROVE  Inv'
<1> USE DEF Inv, Insert, parkVars, guardVars
<1>1. TypeOK'
  <2>1. 0 \in Ordinals
    BY ReservedAssumption DEF Ordinals
  <2>2. ControlOK'
    BY <2>1, ControlTypes DEF TypeOK, ControlOK, Ops, Timeouts, PCs
  <2> QED BY <2>2 DEF TypeOK, ControlOK
<1>2. LockInv' /\ CountInv' /\ IdInv'
  BY DEF LockInv, CountInv, IdInv
<1>3. OwnInv' /\ CellInv'
  BY DEF OwnInv, CellInv, Holder, Begin, TypeOK
<1>4. CallInv'
  BY DEF CallInv, Begin, TypeOK
<1>5. ParkInv' /\ NoLostWakeup' /\ ReentrantReadNeverBlocks'
  BY DEF ParkInv, NoLostWakeup, ReentrantReadNeverBlocks, Begin, TypeOK
<1> QED BY <1>1, <1>2, <1>3, <1>4, <1>5

\* The owner of the empty slot writes the element.
LEMMA FillStep ==
  ASSUME Inv, NEW t \in Threads, Fill(t)
  PROVE  Inv'
<1> USE DEF Inv, Fill, parkVars, guardVars
<1>1. /\ Holder(t) /\ ~is_occupied(state)
      /\ \A u \in Threads : Holder(u) => u = t
  BY DEF OwnInv, Holder
<1>2. TypeOK'
  <2>1. ControlOK'
    BY ControlTypes DEF TypeOK, ControlOK, PCs
  <2> QED BY <2>1 DEF TypeOK, ControlOK, States
<1>3. LockInv' /\ CountInv' /\ IdInv'
  BY DEF LockInv, CountInv, IdInv
<1>4. OwnInv'
  BY DEF OwnInv, Holder, Go, GoWith, TypeOK
<1>5. CellInv'
  <2>1. \A u \in Threads : pc[u] # "swap"
    BY <1>1, LockedHeader DEF CallInv
  <2> QED BY <1>1, <2>1 DEF CellInv, Holder, Go, GoWith, TypeOK
<1>6. CallInv'
  BY DEF CallInv, Go, GoWith, TypeOK
<1>7. ParkInv' /\ NoLostWakeup' /\ ReentrantReadNeverBlocks'
  BY DEF ParkInv, NoLostWakeup, ReentrantReadNeverBlocks, Go, GoWith, TypeOK
<1> QED BY <1>2, <1>3, <1>4, <1>5, <1>6, <1>7

\* The owner publishes the element: its ordinal is fresh and now in circulation.
LEMMA occupyStep ==
  ASSUME Inv, NEW t \in Threads, occupy(t)
  PROVE  Inv'
<1> USE DEF Inv, occupy, parkVars, guardVars
<1>1. /\ Holder(t) /\ ~is_occupied(state) /\ state.id # RESERVED_ID
      /\ \A u \in Threads : Holder(u) => u = t
  BY DEF OwnInv, Holder
<1>2. /\ state' \in States /\ state'.id = state.id
      /\ state'.readers = state.readers /\ is_occupied(state')
  BY StateFields, StateWords DEF TypeOK
<1>3. state.readers = 0 /\ read_locks = {} /\ write_locks = {}
  BY <1>1, LockedHeader
<1>4. TypeOK'
  <2>1. ControlOK'
    BY ControlTypes DEF TypeOK, ControlOK, Results
  <2>2. state.id \in Ordinals
    BY DEF TypeOK, States
  <2> QED BY <1>2, <2>1, <2>2 DEF TypeOK, ControlOK
<1>5. LockInv' /\ CountInv'
  BY <1>2, <1>3 DEF LockInv, CountInv
<1>6. IdInv'
  <2>1. state.id \in Nat
    BY DEF TypeOK, States, Ordinals
  <2> QED BY <1>1, <1>2, <2>1 DEF IdInv
<1>7. OwnInv'
  BY <1>1, <1>2 DEF OwnInv, Holder, Return, NoCall, TypeOK
<1>8. CellInv'
  <2>1. \A u \in Threads : pc[u] # "swap"
    BY <1>3 DEF CallInv
  <2> QED BY <1>1, <1>2, <2>1 DEF CellInv, Holder, Return, NoCall, TypeOK
<1>9. CallInv'
  BY DEF CallInv, Return, TypeOK
<1>10. ParkInv' /\ NoLostWakeup' /\ ReentrantReadNeverBlocks'
  BY <1>3 DEF ParkInv, NoLostWakeup, ReentrantReadNeverBlocks, Return, NoCall, TypeOK
<1> QED BY <1>4, <1>5, <1>6, <1>7, <1>8, <1>9, <1>10

\* A call starts with an Id in circulation.
LEMMA CallStep ==
  ASSUME Inv, NEW t \in Threads, NEW op \in {"read", "write", "remove"},
         NEW id \in Ordinals, NEW d \in Timeouts, Call(t, op, id, d)
  PROVE  Inv'
<1> DEFINE p == IF op = "read" THEN "load" ELSE "transition"
<1> USE DEF Inv, Call, slotVars, parkVars, guardVars
<1>1. p \in {"load", "transition"} /\ Begin(t, op, id, d, p)
  OBVIOUS
<1> HIDE DEF p
<1>2. TypeOK'
  <2>1. ControlOK'
    BY <1>1, ControlTypes DEF TypeOK, ControlOK, Ops, PCs
  <2> QED BY <2>1 DEF TypeOK, ControlOK
<1>3. LockInv' /\ CountInv' /\ IdInv'
  BY DEF LockInv, CountInv, IdInv
<1>4. OwnInv' /\ CellInv'
  BY <1>1 DEF OwnInv, CellInv, Holder, Begin, TypeOK
<1>5. CallInv'
  BY <1>1 DEF CallInv, Begin, TypeOK, p
<1>6. ParkInv' /\ NoLostWakeup' /\ ReentrantReadNeverBlocks'
  BY <1>1 DEF ParkInv, NoLostWakeup, ReentrantReadNeverBlocks, Begin, TypeOK
<1> QED BY <1>2, <1>3, <1>4, <1>5, <1>6

\* A new read guard is one more in number and carries the call's thread and Id.
LEMMA NewReadLockFacts ==
  ASSUME Inv, NEW t \in Threads, NewReadLock(t)
  PROVE  \E g \in ReadLocks : /\ g.owner = t /\ g.id = call[t].id
                              /\ g \notin read_locks
                              /\ read_locks' = read_locks \cup {g}
<1>1. PICK n \in 1 .. MaxGuards :
        /\ \A g \in read_locks : g.owner = t => g.n # n
        /\ read_locks' = read_locks \cup {[owner |-> t, n |-> n, id |-> call[t].id]}
  BY DEF NewReadLock
<1> DEFINE g == [owner |-> t, n |-> n, id |-> call[t].id]
<1>2. call[t].id \in Ordinals
  BY DEF Inv, TypeOK, Calls
<1>3. g \in ReadLocks /\ g.owner = t /\ g.id = call[t].id /\ g.n = n
  BY <1>2 DEF ReadLocks
<1>4. g \notin read_locks
  BY <1>1, <1>3
<1> QED BY <1>1, <1>3, <1>4

\* The compare-exchange of a reader adds one guard and one to the reader bits.
LEMMA read_casStep ==
  ASSUME Inv, NEW t \in Threads, read_cas(t)
  PROVE  Inv'
<1> USE DEF read_cas, slotVars, parkVars
<1>1. CASE lock_read_with_current(t, state) /\ UNCHANGED <<state, read_locks>>
  BY <1>1, WithCurrentStep DEF Private, guardVars
<1>2. CASE /\ state = current[t]
           /\ state' = increment_readers(current[t])
           /\ NewReadLock(t)
           /\ Return(t, "ok")
  <2>1. PICK g \in ReadLocks : /\ g.owner = t /\ g.id = call[t].id
                               /\ g \notin read_locks
                               /\ read_locks' = read_locks \cup {g}
    BY <1>2, NewReadLockFacts
  <2>2. /\ state \in States /\ state.id = call[t].id /\ call[t].id \in issued
        /\ state.readers < MAX_CONCURRENT_READS
    BY <1>2 DEF Inv, TypeOK, CallInv
  <2>3. state.readers \in Nat /\ is_occupied(state)
    BY <2>2, IssuedIds, LockedHeader
  <2>4. write_locks = {} /\ ~is_write_locked(state)
    BY <2>2, <2>3, LockedHeader, ReadsAssumption DEF is_write_locked, WRITE_LOCKED
  <2>5. /\ state' \in States /\ state'.id = state.id
        /\ state'.readers = state.readers + 1
        /\ state'.notification = state.notification
    BY <1>2, <2>2, <2>4, StateFields, StateWords
  <2>6. is_occupied(state')
    BY <2>3, <2>5 DEF is_occupied
  <2>7. \A u \in Threads : ~Holder(u) /\ pc[u] # "swap" /\ ~vacant
    BY <2>3, <2>4 DEF Inv, OwnInv, CallInv
  <2> USE DEF Inv
  <2>8. TypeOK'
    <3>1. ControlOK'
      BY <1>2, ControlTypes DEF TypeOK, ControlOK, Results
    <3> QED BY <2>1, <2>5, <3>1 DEF TypeOK, ControlOK
  <2>9. LockInv'
    BY <2>1, <2>2, <2>4, <2>5 DEF LockInv
  <2>10. CountInv'
    <3>1. /\ IsFiniteSet(read_locks) /\ Cardinality(read_locks) <= state.readers
          /\ Cardinality(read_locks) \in Nat
      BY FS_CardinalityType DEF CountInv
    <3>2. /\ IsFiniteSet(read_locks')
          /\ Cardinality(read_locks') = Cardinality(read_locks) + 1
      BY <2>1, <3>1, FS_AddElement
    <3> QED BY <2>2, <2>3, <2>5, <3>1, <3>2, ReadsAssumption DEF CountInv
  <2>11. IdInv'
    BY <2>3, <2>5, <2>6 DEF IdInv
  <2>12. OwnInv' /\ CellInv'
    BY <1>2, <2>3, <2>5, <2>6, <2>7
       DEF OwnInv, CellInv, Holder, Return, NoCall, TypeOK
  <2>13. CallInv'
    BY <1>2, <2>1 DEF CallInv, Return, TypeOK
  <2>14. ParkInv'
    BY <1>2 DEF ParkInv, Return, TypeOK
  <2>15. NoLostWakeup'
    BY <1>2, <2>3, <2>5 DEF NoLostWakeup, has_thread_blocking, Return, TypeOK
  <2>16. ReentrantReadNeverBlocks'
    BY <1>2, <2>1 DEF ReentrantReadNeverBlocks, Return, NoCall, TypeOK
  <2> QED BY <2>8, <2>9, <2>10, <2>11, <2>12, <2>13, <2>14, <2>15, <2>16
<1> QED BY <1>1, <1>2

\* A read guard's drop loads the header its guard keeps read locked.
LEMMA DropReadStep ==
  ASSUME Inv, NEW t \in Threads, DropRead(t)
  PROVE  Inv'
<1>1. PICK g \in read_locks :
        g.owner = t /\ Begin(t, "unlock_read", g.id, "DontBlock", "unlock_cas")
  BY DEF DropRead
<1>2. /\ g.id = state.id /\ g.id \in Ordinals /\ state \in States
      /\ state.readers \in 1 .. MAX_CONCURRENT_READS
  <2>1. g \in ReadLocks /\ state \in States /\ g.id = state.id /\ write_locks = {}
    BY DEF Inv, TypeOK, LockInv
  <2>2. state.readers > 0 /\ state.readers <= MAX_CONCURRENT_READS
    BY <2>1, LockedHeader DEF Inv, CountInv
  <2> QED BY <2>1, <2>2, LockedHeader, ReadsAssumption DEF ReadLocks
<1>3. pc[t] = "idle" /\ call'[t].id = g.id /\ call'[t].op = "unlock_read"
  BY <1>1 DEF Begin, Inv, TypeOK
<1> USE DEF Inv, DropRead, slotVars, parkVars, guardVars
<1>4. TypeOK'
  <2>1. current' \in [Threads -> States]
    BY DEF TypeOK
  <2>2. ControlOK'
    BY <1>1, <1>2, <2>1, ControlTypes DEF TypeOK, ControlOK, Ops, Timeouts, PCs
  <2> QED BY <2>2 DEF TypeOK, ControlOK
<1>5. LockInv' /\ CountInv' /\ IdInv'
  BY DEF LockInv, CountInv, IdInv
<1>6. OwnInv' /\ CellInv'
  BY <1>1 DEF OwnInv, CellInv, Holder, Begin, TypeOK
<1>7. CallInv'
  BY <1>1, <1>2, <1>3 DEF CallInv, Begin, TypeOK
<1>8. ParkInv' /\ NoLostWakeup' /\ ReentrantReadNeverBlocks'
  BY <1>1 DEF ParkInv, NoLostWakeup, ReentrantReadNeverBlocks, Begin, TypeOK
<1> QED BY <1>4, <1>5, <1>6, <1>7, <1>8

\* The compare-exchange of unlock_read: the last reader that sees the bit cleared
\* restores it and goes on to wake the waiters.
LEMMA unlock_readStep ==
  ASSUME Inv, NEW t \in Threads, unlock_read(t)
  PROVE  Inv'
<1> USE DEF Inv, unlock_read, slotVars, parkVars
<1>1. CASE GoWith(t, "unlock_cas", state) /\ UNCHANGED <<state, read_locks>>
  <2>1. TypeOK'
    <3>1. ControlOK'
      BY <1>1, ControlTypes DEF TypeOK, ControlOK, PCs
    <3> QED BY <1>1, <3>1 DEF TypeOK, ControlOK
  <2>2. LockInv' /\ CountInv' /\ IdInv'
    BY <1>1 DEF LockInv, CountInv, IdInv
  <2>3. OwnInv' /\ CellInv'
    BY <1>1 DEF OwnInv, CellInv, Holder, GoWith, TypeOK
  <2>4. CallInv'
    <3>1. PICK g \in read_locks : g.owner = t /\ g.id = call[t].id
      BY DEF CallInv
    <3>2. state.id = call[t].id /\ write_locks = {} /\ state.readers > 0
      BY <3>1, LockedHeader DEF LockInv
    <3>3. state.readers \in 1 .. MAX_CONCURRENT_READS
      BY <3>2, LockedHeader, ReadsAssumption DEF CountInv
    <3> QED BY <1>1, <3>1, <3>2, <3>3 DEF CallInv, GoWith, TypeOK
  <2>5. ParkInv' /\ NoLostWakeup' /\ ReentrantReadNeverBlocks'
    BY <1>1 DEF ParkInv, NoLostWakeup, ReentrantReadNeverBlocks, GoWith, TypeOK
  <2> QED BY <2>1, <2>2, <2>3, <2>4, <2>5
<1>2. CASE /\ state = current[t]
           /\ state' = read_unlocked(current[t])
           /\ \E g \in read_locks : g.owner = t /\ read_locks' = read_locks \ {g}
           /\ IF must_unpark(current[t]) THEN Go(t, "unpark")
                                         ELSE Return(t, "ok")
  <2>1. PICK g \in read_locks : g.owner = t /\ read_locks' = read_locks \ {g}
    BY <1>2
  <2>2. /\ state \in States /\ state.readers \in 1 .. MAX_CONCURRENT_READS
        /\ write_locks = {} /\ is_occupied(state) /\ state.notification \in BOOLEAN
    BY <1>2, <2>1, LockedHeader DEF TypeOK, CallInv, LockInv, States
  <2>3. /\ state' \in States /\ state'.id = state.id
        /\ state'.readers = state.readers - 1 /\ is_occupied(state')
    <3>0. state.readers > 0
      BY <2>2, ReadsAssumption
    <3>1. /\ decrement_readers(state) \in States
          /\ decrement_readers(state).id = state.id
          /\ decrement_readers(state).readers = state.readers - 1
          /\ decrement_readers(state).notification = state.notification
      BY <2>2, <3>0, StateFields, StateWords
    <3>2. CASE must_unpark(state)
      BY <1>2, <3>1, <3>2, StateFields, StateWords DEF read_unlocked
    <3>3. CASE ~must_unpark(state)
      BY <1>2, <2>2, <3>1, <3>3
         DEF read_unlocked, must_unpark, has_thread_blocking, is_occupied
    <3> QED BY <3>2, <3>3
  <2>4. /\ has_thread_blocking(state) /\ state.readers = 1 => Go(t, "unpark")
        /\ has_thread_blocking(state) /\ state.readers # 1 =>
             has_thread_blocking(state') /\ state'.readers > 0
    BY <1>2, <2>2, <2>3, StateFields, ReadsAssumption
       DEF must_unpark, read_unlocked, has_thread_blocking
  <2>5. \A u \in Threads : ~Holder(u) /\ pc[u] # "swap" /\ ~vacant
    BY <2>2 DEF OwnInv, CallInv
  <2>6. Go(t, "unpark") \/ Return(t, "ok")
    BY <1>2
  <2>7. TypeOK'
    <3>1. ControlOK'
      BY <2>6, ControlTypes DEF TypeOK, ControlOK, PCs, Results
    <3> QED BY <2>1, <2>3, <3>1 DEF TypeOK, ControlOK
  <2>8. LockInv'
    BY <2>1, <2>2, <2>3 DEF LockInv
  <2>9. CountInv'
    <3>1. /\ IsFiniteSet(read_locks) /\ Cardinality(read_locks) <= state.readers
          /\ Cardinality(read_locks) \in Nat
      BY FS_CardinalityType DEF CountInv
    <3>2. /\ IsFiniteSet(read_locks')
          /\ Cardinality(read_locks') = Cardinality(read_locks) - 1
      BY <2>1, <3>1, FS_RemoveElement
    <3> QED BY <2>2, <2>3, <3>1, <3>2, ReadsAssumption DEF CountInv
  <2>10. IdInv'
    BY <2>2, <2>3 DEF IdInv
  <2>11. call[t].op = "unlock_read"
    BY DEF CallInv
  <2>12. OwnInv' /\ CellInv'
    BY <2>2, <2>3, <2>5, <2>6, <2>11
       DEF OwnInv, CellInv, Holder, Go, GoWith, Return, NoCall, TypeOK
  <2>13. CallInv'
    BY <2>1, <2>6, <2>11 DEF CallInv, Go, GoWith, Return, NoCall, TypeOK
  <2>14. ParkInv' /\ ReentrantReadNeverBlocks'
    BY <2>1, <2>6
       DEF ParkInv, ReentrantReadNeverBlocks, Go, GoWith, Return, NoCall, TypeOK
  <2>15. NoLostWakeup'
    BY <2>2, <2>4, <2>6 DEF NoLostWakeup, Go, GoWith, Return, TypeOK
  <2> QED BY <2>7, <2>8, <2>9, <2>10, <2>12, <2>13, <2>14, <2>15
<1> QED BY <1>1, <1>2

\* The write guard a thread holds is the only guard there is.
LEMMA WriteGuard ==
  ASSUME Inv, NEW w \in write_locks
  PROVE  /\ write_locks = {w} /\ read_locks = {}
         /\ w \in WriteLocks /\ w.id = state.id /\ w.id \in Ordinals
         /\ state.readers = WRITE_LOCKED /\ state.readers > 0
         /\ is_occupied(state)
         /\ w.id # RESERVED_ID /\ w.id + 1 \in Ordinals /\ w.id \in Nat
         /\ ~vacant
         /\ \A u \in Threads : ~Holder(u)
         /\ \A u \in Threads : pc[u] = "swap" => w.owner = u
<1>1. /\ write_locks = {w} /\ read_locks = {} /\ w.id = state.id
      /\ state.readers = WRITE_LOCKED
  BY DEF Inv, LockInv
<1>2. w \in WriteLocks /\ w.id \in Ordinals
  BY DEF Inv, TypeOK, WriteLocks
<1>3. state.readers > 0 /\ is_occupied(state)
  BY LockedHeader
<1>4. w.id # RESERVED_ID /\ w.id + 1 \in Ordinals /\ w.id \in Nat
  BY <1>1, <1>2, <1>3, ReservedAssumption DEF Inv, IdInv, Ordinals
<1>5. ~vacant /\ \A u \in Threads : ~Holder(u)
  BY <1>3 DEF Inv, OwnInv
<1>6. ASSUME NEW u \in Threads, pc[u] = "swap"
      PROVE  w.owner = u
  <2>1. [owner |-> u, id |-> call[u].id] = w
    BY <1>1, <1>6 DEF Inv, CallInv
  <2> QED BY <2>1
<1> QED BY <1>1, <1>2, <1>3, <1>4, <1>5, <1>6

\* The swap of unlock_write: whoever set the bit is woken next.
LEMMA DropWriteStep ==
  ASSUME Inv, NEW t \in Threads, DropWrite(t)
  PROVE  Inv'
<1> USE DEF slotVars, parkVars
<1>1. PICK w \in write_locks :
        /\ w.owner = t /\ write_locks' = write_locks \ {w}
        /\ state' = occupied_unlocked_bits(w.id)
        /\ IF has_thread_blocking(state)
           THEN Begin(t, "unlock_write", w.id, "DontBlock", "unpark")
           ELSE UNCHANGED <<pc, call, result>>
  BY DEF DropWrite
<1>2. /\ write_locks = {w} /\ read_locks = {} /\ w.id = state.id
      /\ w.id \in Ordinals /\ w.id # RESERVED_ID /\ is_occupied(state) /\ ~vacant
      /\ \A u \in Threads : ~Holder(u) /\ pc[u] # "swap"
  <2>1. pc[t] = "idle"
    BY DEF DropWrite
  <2> QED BY <1>1, <2>1, WriteGuard
<1>3. write_locks' = {} /\ read_locks' = {}
  BY <1>1, <1>2 DEF DropWrite
<1>4. /\ state' \in States /\ state'.id = state.id /\ state'.readers = 0
      /\ is_occupied(state')
  BY <1>1, <1>2, StateFields, StateWords
<1>5. /\ pc[t] = "idle"
      /\ UNCHANGED <<slotVars, current, parkVars, read_locks>>
      /\ \/ UNCHANGED <<pc, call, result>> /\ ~has_thread_blocking(state)
         \/ /\ Begin(t, "unlock_write", w.id, "DontBlock", "unpark")
            /\ call'[t].op = "unlock_write"
  BY <1>1 DEF DropWrite, Begin, Inv, TypeOK
<1> USE DEF Inv
<1>6. TypeOK'
  <2>1. ControlOK'
    BY <1>2, <1>5, ControlTypes DEF TypeOK, ControlOK, Ops, Timeouts, PCs
  <2> QED BY <1>3, <1>4, <1>5, <2>1 DEF TypeOK, ControlOK
<1>7. LockInv' /\ CountInv'
  BY <1>3, <1>4, FS_EmptySet, ReadsAssumption DEF LockInv, CountInv
<1>8. IdInv'
  BY <1>2, <1>4, <1>5 DEF IdInv
<1>9. OwnInv' /\ CellInv'
  BY <1>2, <1>4, <1>5 DEF OwnInv, CellInv, Holder, Begin, TypeOK
<1>10. CallInv'
  BY <1>2, <1>5 DEF CallInv, Begin, TypeOK
<1>11. ParkInv' /\ ReentrantReadNeverBlocks'
  BY <1>5 DEF ParkInv, ReentrantReadNeverBlocks, Begin, TypeOK
<1>12. NoLostWakeup'
  BY <1>5 DEF NoLostWakeup, Begin, TypeOK
<1> QED BY <1>6, <1>7, <1>8, <1>9, <1>10, <1>11, <1>12

\* The write guard's owner reads the element out before it swaps the header.
LEMMA RemoveLockedStep ==
  ASSUME Inv, NEW t \in Threads, RemoveLocked(t)
  PROVE  Inv'
<1> USE DEF parkVars, guardVars
<1>1. PICK w \in write_locks :
        w.owner = t /\ Begin(t, "remove_locked", w.id, "DontBlock", "swap")
  BY DEF RemoveLocked
<1>2. /\ w = [owner |-> t, id |-> w.id] /\ w.id \in Ordinals
      /\ is_occupied(state) /\ \A u \in Threads : ~Holder(u)
  BY <1>1, WriteGuard DEF WriteLocks
<1>3. pc[t] = "idle" /\ call'[t].op = "remove_locked" /\ call'[t].id = w.id
  BY <1>1 DEF Begin, Inv, TypeOK
<1> USE DEF Inv, RemoveLocked
<1>4. TypeOK'
  <2>1. ControlOK'
    BY <1>1, <1>2, ControlTypes DEF TypeOK, ControlOK, Ops, Timeouts, PCs
  <2> QED BY <2>1 DEF TypeOK, ControlOK
<1>5. LockInv' /\ CountInv' /\ IdInv'
  BY DEF LockInv, CountInv, IdInv
<1>6. OwnInv' /\ CellInv'
  BY <1>1, <1>2 DEF OwnInv, CellInv, Holder, Begin, TypeOK
<1>7. CallInv'
  BY <1>1, <1>2, <1>3 DEF CallInv, Begin, TypeOK
<1>8. ParkInv' /\ NoLostWakeup' /\ ReentrantReadNeverBlocks'
  BY <1>1 DEF ParkInv, NoLostWakeup, ReentrantReadNeverBlocks, Begin, TypeOK
<1> QED BY <1>4, <1>5, <1>6, <1>7, <1>8

\* The swap of Header::remove_locked empties the slot, or retires it.
LEMMA remove_lockedStep ==
  ASSUME Inv, NEW t \in Threads, remove_locked(t)
  PROVE  Inv'
<1> DEFINE i == call[t].id
           w == [owner |-> t, id |-> i]
<1> USE DEF slotVars, parkVars
<1>1. w \in write_locks /\ pc[t] = "swap" /\ cell = NoElement
  BY DEF remove_locked, Inv, CallInv, CellInv
<1>2. /\ write_locks = {w} /\ read_locks = {} /\ state.id = i
      /\ i \in Ordinals /\ i + 1 \in Ordinals /\ i \in Nat
      /\ is_occupied(state) /\ ~vacant
      /\ \A u \in Threads : ~Holder(u) /\ (pc[u] = "swap" => u = t)
  BY <1>1, WriteGuard
<1>3. write_locks' = {} /\ read_locks' = {}
  BY <1>2 DEF remove_locked
<1>4. /\ state' \in States /\ state'.id = i + 1 /\ state'.readers = 0
      /\ ~is_occupied(state')
  BY <1>2, StateFields, StateWords DEF remove_locked
<1>5. /\ UNCHANGED <<slotVars, parkVars, read_locks>>
      /\ \/ Go(t, "unpark") /\ has_thread_blocking(state)
         \/ Go(t, "push") /\ may_reuse(i) /\ ~has_thread_blocking(state)
         \/ Return(t, "ok") /\ ~may_reuse(i) /\ ~has_thread_blocking(state)
  BY DEF remove_locked
<1>6. call[t].op = "remove_locked"
  BY <1>1 DEF Inv, CallInv
<1> HIDE DEF i, w
<1> USE DEF Inv
<1>7. TypeOK'
  <2>1. ControlOK'
    BY <1>5, ControlTypes DEF TypeOK, ControlOK, PCs, Results
  <2> QED BY <1>3, <1>4, <1>5, <2>1 DEF TypeOK, ControlOK
<1>8. LockInv' /\ CountInv'
  BY <1>3, <1>4, FS_EmptySet, ReadsAssumption DEF LockInv, CountInv
<1>9. IdInv'
  BY <1>2, <1>4, <1>5 DEF IdInv, TypeOK, Ordinals
<1>10. OwnInv'
  <2>1. CASE Go(t, "unpark")
    BY <1>2, <1>4, <1>5, <1>6, <2>1
       DEF OwnInv, Holder, Go, GoWith, TypeOK, may_reuse, i
  <2>2. CASE Go(t, "push") /\ may_reuse(i)
    BY <1>2, <1>4, <1>5, <2>2 DEF OwnInv, Holder, Go, GoWith, TypeOK, i
  <2>3. CASE Return(t, "ok") /\ ~may_reuse(i)
    BY <1>2, <1>4, <1>5, <2>3
       DEF OwnInv, Holder, Return, NoCall, TypeOK, may_reuse, i
  <2> QED BY <1>5, <2>1, <2>2, <2>3
<1>11. CellInv'
  BY <1>1, <1>2, <1>4, <1>5
     DEF CellInv, Holder, Go, GoWith, Return, NoCall, TypeOK
<1>12. CallInv'
  BY <1>2, <1>3, <1>5, <1>6 DEF CallInv, Go, GoWith, Return, NoCall, TypeOK
<1>13. ParkInv' /\ ReentrantReadNeverBlocks'
  BY <1>1, <1>3, <1>5
     DEF ParkInv, ReentrantReadNeverBlocks, Go, GoWith, Return, NoCall, TypeOK
<1>14. NoLostWakeup'
  BY <1>1, <1>5 DEF NoLostWakeup, Go, GoWith, Return, TypeOK
<1> QED BY <1>7, <1>8, <1>9, <1>10, <1>11, <1>12, <1>13, <1>14

\* A removal reads the element of the slot it emptied.
LEMMA takeStep ==
  ASSUME Inv, NEW t \in Threads, take(t)
  PROVE  Inv'
<1> USE DEF Inv, take, parkVars, guardVars
<1>1. /\ Holder(t) /\ ~is_occupied(state) /\ ~vacant
      /\ \A u \in Threads : Holder(u) => u = t
      /\ call[t].id + 1 = state.id
  BY DEF OwnInv, Holder
<1>2. \/ Go(t, "push") /\ may_reuse(call[t].id)
      \/ Return(t, "ok") /\ ~may_reuse(call[t].id)
  OBVIOUS
<1>3. TypeOK'
  <2>1. ControlOK'
    BY <1>2, ControlTypes DEF TypeOK, ControlOK, PCs, Results
  <2> QED BY <2>1 DEF TypeOK, ControlOK
<1>4. LockInv' /\ CountInv' /\ IdInv'
  BY DEF LockInv, CountInv, IdInv
<1>5. OwnInv'
  BY <1>1, <1>2
     DEF OwnInv, Holder, Go, GoWith, Return, NoCall, TypeOK, may_reuse
<1>6. CellInv'
  <2>1. \A u \in Threads : pc[u] # "swap"
    BY <1>1, LockedHeader DEF CallInv
  <2> QED BY <1>1, <1>2, <2>1
          DEF CellInv, Holder, Go, GoWith, Return, NoCall, TypeOK
<1>7. CallInv'
  BY <1>2 DEF CallInv, Go, GoWith, Return, TypeOK
<1>8. ParkInv' /\ NoLostWakeup' /\ ReentrantReadNeverBlocks'
  BY <1>2 DEF ParkInv, NoLostWakeup, ReentrantReadNeverBlocks, Go, GoWith,
              Return, NoCall, TypeOK
<1> QED BY <1>3, <1>4, <1>5, <1>6, <1>7, <1>8

\* The slot is put on offer by its only owner.
LEMMA push_erasureStep ==
  ASSUME Inv, NEW t \in Threads, push_erasure(t)
  PROVE  Inv'
<1> USE DEF Inv, push_erasure, parkVars, guardVars
<1>1. /\ Holder(t) /\ ~is_occupied(state) /\ state.id # RESERVED_ID
      /\ \A u \in Threads : Holder(u) => u = t
  BY DEF OwnInv, Holder, may_reuse
<1>2. TypeOK'
  <2>1. ControlOK'
    BY ControlTypes DEF TypeOK, ControlOK, Results
  <2> QED BY <2>1 DEF TypeOK, ControlOK
<1>3. LockInv' /\ CountInv' /\ IdInv'
  BY DEF LockInv, CountInv, IdInv
<1>4. OwnInv' /\ CellInv'
  BY <1>1 DEF OwnInv, CellInv, Holder, Return, NoCall, TypeOK
<1>5. CallInv'
  BY DEF CallInv, Return, TypeOK
<1>6. ParkInv' /\ NoLostWakeup' /\ ReentrantReadNeverBlocks'
  BY DEF ParkInv, NoLostWakeup, ReentrantReadNeverBlocks, Return, NoCall, TypeOK
<1> QED BY <1>2, <1>3, <1>4, <1>5, <1>6

\* Entering the parking lot takes its free mutex.
LEMMA parkStep ==
  ASSUME Inv, NEW t \in Threads, park(t)
  PROVE  Inv'
<1> USE DEF Inv, park, slotVars, guardVars
<1>1. TypeOK'
  <2>1. ControlOK'
    BY ControlTypes DEF TypeOK, ControlOK, PCs
  <2> QED BY <2>1 DEF TypeOK, ControlOK
<1>2. LockInv' /\ CountInv' /\ IdInv'
  BY DEF LockInv, CountInv, IdInv
<1>3. OwnInv' /\ CellInv'
  BY DEF OwnInv, CellInv, Holder, Go, GoWith, TypeOK
<1>4. CallInv'
  BY DEF CallInv, Go, GoWith, TypeOK
<1>5. ParkInv'
  <2>1. \A u \in Threads : pc[u] \notin {"eval", "mark"}
    BY NoThreadAssumption DEF ParkInv
  <2> QED BY <2>1 DEF ParkInv, Go, GoWith, TypeOK
<1>6. NoLostWakeup' /\ ReentrantReadNeverBlocks'
  BY DEF NoLostWakeup, ReentrantReadNeverBlocks, Go, GoWith, TypeOK
<1> QED BY <1>1, <1>2, <1>3, <1>4, <1>5, <1>6

\* A thread in the closure decided to block: it remembers the locked header.
LEMMA DecideStep ==
  ASSUME Inv, NEW t \in Threads, pc[t] = "eval", GoWith(t, "mark", state),
         state.id = call[t].id, state.readers > 0, Private, UNCHANGED queue_lock
  PROVE  Inv'
<1> USE DEF Inv, Private, slotVars, guardVars
<1>1. TypeOK'
  <2>1. ControlOK'
    BY ControlTypes DEF TypeOK, ControlOK, PCs
  <2> QED BY <2>1 DEF TypeOK, ControlOK
<1>2. LockInv' /\ CountInv' /\ IdInv'
  BY DEF LockInv, CountInv, IdInv
<1>3. OwnInv' /\ CellInv'
  BY DEF OwnInv, CellInv, Holder, GoWith, TypeOK
<1>4. CallInv'
  BY DEF CallInv, GoWith, TypeOK
<1>5. ParkInv' /\ NoLostWakeup' /\ ReentrantReadNeverBlocks'
  BY DEF ParkInv, NoLostWakeup, ReentrantReadNeverBlocks, GoWith, TypeOK
<1> QED BY <1>1, <1>2, <1>3, <1>4, <1>5

\* The closures of lock_read_slow and transition_slow.
LEMMA evalStep ==
  ASSUME Inv, NEW t \in Threads, eval(t)
  PROVE  Inv'
<1> USE DEF eval, slotVars
<1>1. /\ pc[t] = "eval" /\ call[t].op \in {"read", "write", "remove"}
      /\ call[t].id \in issued
  BY DEF Inv, CallInv
<1>2. CASE EvalRead(t)
  <2>1. UNCHANGED <<state, slotVars, guardVars, parked>> /\ call[t].op = "read"
    BY <1>2 DEF EvalRead, guardVars
  <2>2. CASE Return(t, "none") /\ queue_lock' = NoThread
    BY <1>1, <2>1, <2>2, ReturnStep DEF Private, MutexStep, Results
  <2>3. CASE /\ state.id = call[t].id /\ is_write_locked(state)
             /\ GoWith(t, "mark", state) /\ UNCHANGED queue_lock
    <3>1. state.readers > 0
      BY <2>3, LockedHeader
    <3> QED BY <1>1, <2>1, <2>3, <3>1, DecideStep DEF Private
  <2>4. CASE /\ state.id = call[t].id /\ ~is_write_locked(state)
             /\ Increment(t, state) /\ queue_lock' = NoThread
    BY <1>1, <2>1, <2>4, IncrementStep DEF Private, MutexStep
  <2> QED BY <1>2, <2>2, <2>3, <2>4 DEF EvalRead
<1>3. CASE EvalTransition(t)
  <2>1. CASE state = expected(t) /\ Transitioned(t) /\ queue_lock' = NoThread
    BY <1>1, <1>3, <2>1, TransitionedStep DEF MutexStep, EvalTransition
  <2>2. CASE /\ state # expected(t) /\ state.id = call[t].id
             /\ GoWith(t, "mark", state)
             /\ UNCHANGED <<state, write_locks, queue_lock>>
    <3>1. state \in States /\ is_occupied(state)
      BY <1>1, <2>2, IssuedIds DEF Inv, TypeOK
    <3>2. state.readers # 0
      BY <2>2, <3>1 DEF expected, occupied_unlocked_bits, is_occupied, States
    <3>3. state.readers > 0
      BY <3>2, LockedHeader
    <3> QED BY <1>1, <2>2, <3>3, DecideStep DEF Private, guardVars
  <2>3. CASE /\ Return(t, "none") /\ queue_lock' = NoThread
             /\ UNCHANGED <<state, write_locks>>
    BY <1>1, <2>3, ReturnStep DEF Private, guardVars, MutexStep, Results
  <2> QED BY <1>3, <2>1, <2>2, <2>3 DEF EvalTransition
<1> QED BY <1>2, <1>3

\* The thread clears the notification bit of the locked header and queues, or
\* evaluates its closure anew.
LEMMA markStep ==
  ASSUME Inv, NEW t \in Threads, mark(t)
  PROVE  Inv'
<1> USE DEF mark, slotVars, guardVars, parkVars
<1>1. /\ pc[t] = "mark" /\ current[t].readers > 0 /\ call[t].id \in issued
      /\ call[t].op \in {"read", "write", "remove"}
  BY DEF Inv, CallInv
<1>2. CASE /\ state = current[t] /\ state' = mark_thread_blocking(current[t])
           /\ parked' = parked \cup {t} /\ queue_lock' = NoThread
           /\ Go(t, "parked")
  <2>1. state \in States /\ state.readers > 0 /\ is_occupied(state)
    BY <1>1, <1>2, LockedHeader DEF Inv, TypeOK
  <2>2. /\ state' \in States /\ state'.id = state.id
        /\ state'.readers = state.readers /\ has_thread_blocking(state')
    BY <1>2, <2>1, StateFields, StateWords
  <2>3. is_occupied(state')
    BY <2>1, <2>2, LockedHeader DEF is_occupied
  <2> USE DEF Inv
  <2>4. TypeOK'
    <3>1. ControlOK'
      BY <1>2, ControlTypes DEF TypeOK, ControlOK, PCs
    <3> QED BY <1>2, <2>2, <3>1 DEF TypeOK, ControlOK
  <2>5. LockInv' /\ CountInv'
    BY <2>2 DEF LockInv, CountInv
  <2>6. IdInv'
    BY <2>1, <2>2, <2>3 DEF IdInv
  <2>7. OwnInv' /\ CellInv'
    BY <1>2, <2>1, <2>2, <2>3 DEF OwnInv, CellInv, Holder, Go, GoWith, TypeOK
  <2>8. CallInv'
    BY <1>1, <1>2 DEF CallInv, Go, GoWith, TypeOK
  <2>9. ParkInv'
    BY <1>2, NoThreadAssumption DEF ParkInv, Go, GoWith, TypeOK
  <2>10. NoLostWakeup' /\ ReentrantReadNeverBlocks'
    BY <1>2, <2>1, <2>2
       DEF NoLostWakeup, ReentrantReadNeverBlocks, Go, GoWith, TypeOK
  <2> QED BY <2>4, <2>5, <2>6, <2>7, <2>8, <2>9, <2>10
<1>3. CASE Go(t, "eval") /\ UNCHANGED <<state, parkVars>>
  <2> USE DEF Inv
  <2>1. TypeOK'
    <3>1. ControlOK'
      BY <1>3, ControlTypes DEF TypeOK, ControlOK, PCs
    <3> QED BY <1>3, <3>1 DEF TypeOK, ControlOK
  <2>2. LockInv' /\ CountInv' /\ IdInv'
    BY <1>3 DEF LockInv, CountInv, IdInv
  <2>3. OwnInv' /\ CellInv'
    BY <1>3 DEF OwnInv, CellInv, Holder, Go, GoWith, TypeOK
  <2>4. CallInv'
    BY <1>1, <1>3 DEF CallInv, Go, GoWith, TypeOK
  <2>5. ParkInv' /\ NoLostWakeup' /\ ReentrantReadNeverBlocks'
    BY <1>3 DEF ParkInv, NoLostWakeup, ReentrantReadNeverBlocks, Go, GoWith, TypeOK
  <2> QED BY <2>1, <2>2, <2>3, <2>4, <2>5
<1> QED BY <1>2, <1>3

\* A queued thread gives up.
LEMMA TimeOutStep ==
  ASSUME Inv, NEW t \in Threads, TimeOut(t)
  PROVE  Inv'
<1> USE DEF Inv, TimeOut, slotVars, guardVars
<1>1. TypeOK'
  <2>1. ControlOK'
    BY ControlTypes DEF TypeOK, ControlOK, Results
  <2> QED BY <2>1 DEF TypeOK, ControlOK
<1>2. LockInv' /\ CountInv' /\ IdInv'
  BY DEF LockInv, CountInv, IdInv
<1>3. OwnInv' /\ CellInv'
  BY DEF OwnInv, CellInv, Holder, Return, NoCall, TypeOK
<1>4. CallInv'
  BY DEF CallInv, Return, TypeOK
<1>5. ParkInv' /\ NoLostWakeup' /\ ReentrantReadNeverBlocks'
  BY DEF ParkInv, NoLostWakeup, ReentrantReadNeverBlocks, Return, NoCall, TypeOK
<1> QED BY <1>1, <1>2, <1>3, <1>4, <1>5

\* All queued threads are woken; the waker goes on.
LEMMA unparkStep ==
  ASSUME Inv, NEW t \in Threads, unpark(t)
  PROVE  Inv'
<1> USE DEF slotVars, guardVars
<1> DEFINE last == call[t].op # "remove_locked" \/ ~may_reuse(call[t].id)
<1>1. /\ pc[t] = "unpark" /\ queue_lock = NoThread /\ parked' = {}
      /\ pc' = [u \in Threads |-> IF u \in parked THEN "park"
                                  ELSE IF u # t THEN pc[u]
                                  ELSE IF last THEN "idle" ELSE "push"]
      /\ call' = IF last THEN [call EXCEPT ![t] = NoCall] ELSE call
      /\ UNCHANGED <<state, slotVars, current, result, queue_lock, guardVars>>
  BY DEF unpark
<1>2. /\ t \notin parked /\ pc \in [Threads -> PCs] /\ call \in [Threads -> Calls]
      /\ \A u \in Threads : u \in parked <=> pc[u] = "parked"
  BY <1>1 DEF Inv, ParkInv, TypeOK
<1>3. last <=> ~Holder(t)
  BY <1>1 DEF Holder
<1>4. /\ pc'[t] = IF last THEN "idle" ELSE "push"
      /\ \A u \in Threads : u \in parked => pc'[u] = "park"
      /\ \A u \in Threads : u # t /\ u \notin parked => pc'[u] = pc[u]
      /\ \A u \in Threads : u # t => call'[u] = call[u]
      /\ ~last => call'[t] = call[t]
      /\ last => call'[t] = NoCall
  BY <1>1, <1>2
<1> HIDE DEF last
<1>5. \A u \in Threads : Holder(u)' <=> Holder(u)
  <2>1. ASSUME NEW u \in Threads
        PROVE  Holder(u)' <=> Holder(u)
    <3>1. CASE u = t
      BY <1>3, <1>4, <3>1 DEF Holder
    <3>2. CASE u \in parked
      BY <1>2, <1>4, <3>2 DEF Holder
    <3>3. CASE u # t /\ u \notin parked
      BY <1>4, <3>3 DEF Holder
    <3> QED BY <3>1, <3>2, <3>3
  <2> QED BY <2>1
<1>6. TypeOK'
  <2>1. pc' \in [Threads -> PCs]
    BY <1>1, <1>2 DEF PCs
  <2>2. call' \in [Threads -> Calls]
    BY <1>1, <1>2, StateWords
  <2> QED BY <1>1, <2>1, <2>2 DEF Inv, TypeOK
<1>7. LockInv' /\ CountInv' /\ IdInv'
  BY <1>1 DEF Inv, LockInv, CountInv, IdInv
<1>8. OwnInv'
  <2>1. ~last => may_reuse(call[t].id) /\ call[t].id + 1 = state.id
    BY <1>1, <1>3 DEF Inv, OwnInv, Holder
  <2>2. /\ \A u, v \in Threads : Holder(u)' /\ Holder(v)' => u = v
        /\ \A u \in Threads : Holder(u)' => ~is_occupied(state)' /\ ~vacant'
        /\ ~is_occupied(state)' /\ ~vacant' =>
               state'.id = RESERVED_ID \/ \E u \in Threads : Holder(u)'
    BY <1>1, <1>5 DEF Inv, OwnInv
  <2>3. ASSUME NEW u \in Threads
        PROVE  /\ pc'[u] \in {"fill", "occupy"} => state'.id # RESERVED_ID
               /\ pc'[u] \in {"take", "push"} => call'[u].id + 1 = state'.id
               /\ pc'[u] = "push" => may_reuse(call'[u].id)
               /\ pc'[u] = "unpark" /\ Holder(u)' => call'[u].id + 1 = state'.id
    <3>1. CASE u = t
      BY <1>1, <1>4, <2>1, <3>1
    <3>2. CASE u \in parked
      BY <1>4, <3>2
    <3>3. CASE u # t /\ u \notin parked
      BY <1>1, <1>4, <1>5, <3>3 DEF Inv, OwnInv
    <3> QED BY <3>1, <3>2, <3>3
  <2>4. vacant' => ~is_occupied(state)' /\ state'.id # RESERVED_ID
    BY <1>1 DEF Inv, OwnInv
  <2> QED BY <2>2, <2>3, <2>4 DEF OwnInv
<1>9. CellInv'
  BY <1>1, <1>2, <1>4 DEF Inv, CellInv
<1>10. CallInv'
  BY <1>1, <1>2, <1>4 DEF Inv, CallInv
<1>11. ParkInv'
  BY <1>1, <1>2, <1>4 DEF Inv, ParkInv
<1>12. NoLostWakeup' /\ ReentrantReadNeverBlocks'
  BY <1>1, <1>2, <1>4 DEF Inv, NoLostWakeup, ReentrantReadNeverBlocks, NoCall
<1> QED BY <1>6, <1>7, <1>8, <1>9, <1>10, <1>11, <1>12 DEF Inv

-----------------------------------------------------------------------------
\* The header starts unoccupied and unlocked, and no thread is running a call.
LEMMA InitInv == Init => Inv
<1> SUFFICES ASSUME Init PROVE Inv
  OBVIOUS
<1>1. /\ state \in States /\ state.id = 0 /\ state.readers = 0
      /\ ~is_occupied(state) /\ 0 \in Ordinals /\ 0 # RESERVED_ID
  <2>1. 0 \in Ordinals /\ 0 # RESERVED_ID
    BY ReservedAssumption DEF Ordinals
  <2> QED BY <2>1, StateFields, StateWords DEF Init
<1>2. TypeOK
  BY <1>1, StateWords DEF Init, TypeOK, PCs, Results
<1>3. LockInv /\ CountInv /\ IdInv
  BY <1>1, FS_EmptySet, ReadsAssumption DEF Init, LockInv, CountInv, IdInv
<1>4. OwnInv /\ CellInv
  BY <1>1 DEF Init, OwnInv, CellInv, Holder
<1>5. CallInv
  BY DEF Init, CallInv
<1>6. ParkInv /\ NoLostWakeup /\ ReentrantReadNeverBlocks
  BY NoThreadAssumption DEF Init, ParkInv, NoLostWakeup, ReentrantReadNeverBlocks
<1> QED BY <1>2, <1>3, <1>4, <1>5, <1>6 DEF Inv

\* Every step of every thread preserves the invariant.
LEMMA NextInv == Inv /\ [Next]_vars => Inv'
<1> SUFFICES ASSUME Inv, [Next]_vars PROVE Inv'
  OBVIOUS
<1>1. CASE UNCHANGED vars
  BY <1>1 DEF vars, Inv, TypeOK, LockInv, CountInv, IdInv, OwnInv, Holder,
     CellInv, CallInv, ParkInv, NoLostWakeup, ReentrantReadNeverBlocks
<1>2. ASSUME NEW t \in Threads, Step(t) PROVE Inv'
  BY <1>2, FillStep, occupyStep, lock_readStep, read_casStep, unlock_readStep,
     transitionStep, takeStep, push_erasureStep, remove_lockedStep, parkStep,
     evalStep, markStep, TimeOutStep, unparkStep DEF Step
<1>3. ASSUME NEW t \in Threads, NewCall(t) PROVE Inv'
  BY <1>3, InsertStep, RemoveLockedStep, CallStep DEF NewCall
<1>4. ASSUME NEW t \in Threads, Drop(t) PROVE Inv'
  BY <1>4, DropReadStep, DropWriteStep DEF Drop
<1> QED BY <1>1, <1>2, <1>3, <1>4 DEF Next

\* The inductive invariant of the slot protocol.
THEOREM Invariance == Spec => []Inv
  BY InitInv, NextInv, PTL DEF Spec

\* The reader bits count the read guards exactly, as long as none is leaked.
GuardsCounted == write_locks = {} => state.readers = Cardinality(read_locks)

\* Every step that changes the reader bits or the guards changes both alike.
LEMMA CountedStep ==
  ASSUME Inv, GuardsCounted, [Next]_vars
  PROVE  GuardsCounted'
<1>1. CASE UNCHANGED <<state, read_locks, write_locks>>
  BY <1>1 DEF GuardsCounted
<1>2. /\ state \in States /\ state.readers \in Nat /\ IsFiniteSet(read_locks)
      /\ Cardinality(read_locks) \in Nat
  BY LockedHeader, FS_CardinalityType DEF Inv, TypeOK, CountInv
<1>3. ASSUME UNCHANGED <<read_locks, write_locks>>, state'.readers = state.readers
      PROVE  GuardsCounted'
  BY <1>3 DEF GuardsCounted
<1>4. ASSUME state'.readers = 0, read_locks = {}, UNCHANGED read_locks
      PROVE  GuardsCounted'
  BY <1>4, FS_EmptySet DEF GuardsCounted
<1>5. ASSUME NEW t \in Threads, occupy(t)
      PROVE  GuardsCounted'
  BY <1>2, <1>3, <1>5, StateFields DEF occupy, guardVars
<1>6. ASSUME NEW t \in Threads, read_cas(t)
      PROVE  GuardsCounted'
  <2>1. CASE /\ state = current[t]
             /\ state' = increment_readers(current[t])
             /\ NewReadLock(t)
    <3>1. PICK g \in ReadLocks : g \notin read_locks /\ read_locks' = read_locks \cup {g}
      BY <2>1, NewReadLockFacts
    <3>2. Cardinality(read_locks') = Cardinality(read_locks) + 1
      BY <1>2, <3>1, FS_AddElement
    <3>3. state'.readers = state.readers + 1
      BY <1>2, <2>1, StateFields
    <3> QED BY <1>6, <3>2, <3>3 DEF GuardsCounted, read_cas
  <2> QED BY <1>1, <1>6, <2>1 DEF read_cas
<1>7. ASSUME NEW t \in Threads, unlock_read(t)
      PROVE  GuardsCounted'
  <2>1. CASE /\ state = current[t]
             /\ state' = read_unlocked(current[t])
             /\ \E g \in read_locks : read_locks' = read_locks \ {g}
    <3>1. PICK g \in read_locks : read_locks' = read_locks \ {g}
      BY <2>1
    <3>2. Cardinality(read_locks') = Cardinality(read_locks) - 1
      BY <1>2, <3>1, FS_RemoveElement
    <3>3. state.readers > 0 /\ decrement_readers(state) \in States
      BY <1>2, <3>1, LockedHeader, StateWords
    <3>4. state'.readers = state.readers - 1
      BY <1>2, <2>1, <3>3, StateFields DEF read_unlocked
    <3> QED BY <1>7, <3>2, <3>4 DEF GuardsCounted, unlock_read
  <2> QED BY <1>1, <1>7, <2>1 DEF unlock_read
<1>8. ASSUME NEW t \in Threads, transition(t) \/ eval(t)
      PROVE  GuardsCounted'
  <2>1. CASE state = expected(t) /\ Transitioned(t)
    <3>1. call[t].id \in issued
      BY <1>8 DEF transition, eval, Inv, CallInv
    <3>2. call[t].id \in Ordinals /\ call[t].id + 1 \in Ordinals
      BY <3>1, IssuedIds
    <3>3. read_locks = {} /\ UNCHANGED read_locks
      BY <1>8, <2>1, <3>2, LockedHeader, StateFields DEF expected, transition, eval
    <3>4. CASE call[t].op = "write"
      BY <2>1, <3>4 DEF Transitioned, GuardsCounted
    <3>5. CASE call[t].op # "write"
      BY <1>4, <2>1, <3>2, <3>3, <3>5, StateFields DEF Transitioned, new
    <3> QED BY <3>4, <3>5
  <2> QED BY <1>1, <1>8, <2>1 DEF transition, eval, EvalRead, EvalTransition
<1>9. ASSUME NEW t \in Threads, DropWrite(t)
      PROVE  GuardsCounted'
  <2>1. PICK w \in write_locks : state' = occupied_unlocked_bits(w.id)
    BY <1>9 DEF DropWrite
  <2> QED BY <1>4, <1>9, <2>1, WriteGuard, StateFields DEF DropWrite
<1>10. ASSUME NEW t \in Threads, remove_locked(t)
       PROVE  GuardsCounted'
  <2>1. [owner |-> t, id |-> call[t].id] \in write_locks
    BY <1>10 DEF remove_locked, Inv, CallInv
  <2> QED BY <1>4, <1>10, <2>1, WriteGuard, StateFields DEF remove_locked
<1>11. ASSUME NEW t \in Threads, mark(t)
       PROVE  GuardsCounted'
  BY <1>1, <1>2, <1>3, <1>11, StateFields DEF mark, guardVars
<1>12. ASSUME NEW t \in Threads,
              \/ Fill(t) \/ lock_read(t) \/ take(t) \/ push_erasure(t)
              \/ park(t) \/ TimeOut(t) \/ unpark(t) \/ NewCall(t) \/ DropRead(t)
       PROVE  UNCHANGED <<state, read_locks, write_locks>>
  BY <1>12 DEF Fill, lock_read, take, push_erasure, park, TimeOut, unpark,
     NewCall, Insert, RemoveLocked, Call, DropRead, guardVars
<1> QED BY <1>1, <1>5, <1>6, <1>7, <1>8, <1>9, <1>10, <1>11, <1>12
        DEF Next, Step, Drop, vars

\* The header counts its read guards, one for one, whatever races the
\* compare-exchanges of lock_read and unlock_read lose.
THEOREM GuardsCountedHolds == Spec => []GuardsCounted
<1>1. Init => GuardsCounted
  BY FS_EmptySet DEF Init, GuardsCounted, unoccupied_bits
<1>2. Inv /\ GuardsCounted /\ [Next]_vars => GuardsCounted'
  BY CountedStep
<1> QED BY <1>1, <1>2, Invariance, PTL DEF Spec

\* Every variable keeps its type: no state word leaves its field widths, and
\* no ordinal passes the reserved one (header.rs state layout).
THEOREM TypeCorrect == Spec => []TypeOK
<1>1. Inv => TypeOK
  BY DEF Inv
<1> QED BY <1>1, Invariance, PTL

\* An unoccupied slot's owner is alone, and a header with a write guard has no
\* owner and no readers.
LEMMA ExclusiveFromInv ==
  ASSUME Inv
  PROVE  ExclusiveAccess
<1>1. \A u \in Movers : u \in Threads /\ Holder(u)
  BY DEF Movers, Holder
<1>2. \A u, v \in Movers : u = v
  BY <1>1 DEF Inv, OwnInv
<1>3. Movers # {} => read_locks = {} /\ write_locks = {}
  <2>1. Movers # {} => ~is_occupied(state)
    BY <1>1 DEF Inv, OwnInv
  <2> QED BY <2>1, LockedHeader
<1> QED BY <1>2, <1>3 DEF ExclusiveAccess, Inv, LockInv

\* The element's memory is never written while anyone else can touch it
\* (block.rs get_unchecked, insert, remove).
THEOREM ExclusiveAccessHolds == Spec => []ExclusiveAccess
  BY ExclusiveFromInv, Invariance, PTL

\* The cell holds the element of the header's ordinal, which every guard has.
LEMMA ElementFromInv ==
  ASSUME Inv
  PROVE  GuardsKeepElement
<1>1. ASSUME NEW g \in read_locks PROVE cell = g.id
  <2>1. /\ g.id = state.id /\ is_occupied(state) /\ write_locks = {}
    BY LockedHeader DEF Inv, LockInv
  <2> QED BY <2>1 DEF Inv, CellInv, CallInv
<1>2. ASSUME NEW w \in write_locks PROVE cell = w.id \/ pc[w.owner] = "swap"
  <2>1. /\ w.id = state.id /\ is_occupied(state)
        /\ \A u \in Threads : pc[u] = "swap" => w.owner = u
    BY WriteGuard
  <2> QED BY <2>1 DEF Inv, CellInv
<1>3. \A t \in Threads : pc[t] = "take" => cell = call[t].id
  BY DEF Inv, CellInv
<1> QED BY <1>1, <1>2, <1>3 DEF GuardsKeepElement

\* A guard's element stays in place until the guard is gone (lock.rs Deref).
THEOREM GuardsKeepElementHolds == Spec => []GuardsKeepElement
  BY ElementFromInv, Invariance, PTL

\* What a call remembers of the header satisfies the assertions.
LEMMA AssertsFromInv ==
  ASSUME Inv
  PROVE  DebugAsserts
<1>1. ASSUME NEW w \in write_locks
      PROVE  is_write_locked(state) /\ state.id = w.id
  BY WriteGuard DEF is_write_locked
<1>2. ASSUME NEW t \in Threads, pc[t] = "swap"
      PROVE  is_write_locked(state) /\ state.id = call[t].id
  <2>1. [owner |-> t, id |-> call[t].id] \in write_locks
    BY <1>2 DEF Inv, CallInv
  <2> QED BY <1>1, <2>1
<1>3. ASSUME NEW t \in Threads, pc[t] = "unlock_cas"
      PROVE  /\ current[t].readers # 0 /\ ~is_write_locked(current[t])
             /\ current[t].id = call[t].id
  <2>1. /\ current[t].readers \in 1 .. MAX_CONCURRENT_READS
        /\ current[t].id = call[t].id
    BY <1>3 DEF Inv, CallInv
  <2> QED BY <2>1, ReadsAssumption DEF is_write_locked, WRITE_LOCKED
<1>4. ASSUME NEW t \in Threads, pc[t] = "occupy"
      PROVE  ~is_occupied(state) /\ state.id # RESERVED_ID
  BY <1>4 DEF Inv, OwnInv, Holder
<1>5. ASSUME NEW t \in Threads, pc[t] \in {"mark", "read_cas"}
      PROVE  current[t].id # RESERVED_ID
  BY <1>5, IssuedIds DEF Inv, CallInv
<1>6. ASSUME NEW t \in Threads, pc[t] = "mark"
      PROVE  current[t].readers > 0
  BY <1>6 DEF Inv, CallInv
<1>7. ASSUME NEW t \in Threads, pc[t] = "read_cas"
      PROVE  ~is_write_locked(current[t])
  <2>1. current[t].readers < MAX_CONCURRENT_READS
    BY <1>7 DEF Inv, CallInv
  <2> QED BY <2>1, ReadsAssumption DEF is_write_locked, WRITE_LOCKED
<1> QED BY <1>1, <1>2, <1>3, <1>4, <1>5, <1>6, <1>7 DEF DebugAsserts

\* The debug assertions of header.rs never fail.
THEOREM DebugAssertsHold == Spec => []DebugAsserts
  BY AssertsFromInv, Invariance, PTL

\* No parked thread is ever left without someone who will wake it
\* (header.rs block, unlock_read, unlock_write, remove_locked).
THEOREM NoLostWakeupHolds == Spec => []NoLostWakeup
<1>1. Inv => NoLostWakeup
  BY DEF Inv
<1> QED BY <1>1, Invariance, PTL

\* With no call under way, no thread owns the slot or its element.
LEMMA AccountingFromInv ==
  ASSUME Inv
  PROVE  SlotAccounting
  BY DEF SlotAccounting, Inv, Quiescent, OwnInv, Holder, CellInv, TypeOK

\* Between operations the slot is occupied, on offer, or retired for good.
THEOREM SlotAccountingHolds == Spec => []SlotAccounting
  BY AccountingFromInv, Invariance, PTL

\* read is reentrant: a thread with a read guard never waits for another one.
THEOREM ReentrantReads == Spec => []ReentrantReadNeverBlocks
<1>1. Inv => ReentrantReadNeverBlocks
  BY DEF Inv
<1> QED BY <1>1, Invariance, PTL

-----------------------------------------------------------------------------
\* A header becomes occupied with the ordinal it had, which is not in
\* circulation while the header is unoccupied.
THEOREM IdsNeverReusedHolds == Spec => IdsNeverReused
<1>1. ASSUME Inv, [Next]_vars, ~is_occupied(state), is_occupied(state')
      PROVE  state'.id \notin issued
  <2> SUFFICES state'.id = state.id
    BY <1>1 DEF Inv, IdInv
  <2>1. /\ state \in States /\ state.readers = 0
        /\ read_locks = {} /\ write_locks = {}
    BY <1>1, LockedHeader DEF Inv, TypeOK
  <2>2. PICK t \in Threads : Step(t) \/ NewCall(t) \/ Drop(t)
    BY <1>1 DEF Next, vars
  <2>3. ~(state = expected(t))
    BY <1>1 DEF expected, occupied_unlocked_bits, is_occupied
  <2>4. pc[t] # "swap"
    BY <1>1, <2>1 DEF Inv, CallInv
  <2>5. CASE occupy(t)
    BY <2>1, <2>5, StateFields DEF occupy
  <2>6. CASE read_cas(t)
    BY <2>1, <2>6, StateFields DEF read_cas
  <2>7. CASE mark(t)
    BY <2>1, <2>7, StateFields DEF mark
  <2>8. CASE unlock_read(t)
    BY <2>1, <2>8 DEF unlock_read
  <2>9. \/ state' = state \/ occupy(t) \/ read_cas(t) \/ mark(t)
        \/ unlock_read(t)
    BY <2>1, <2>2, <2>3, <2>4 DEF Step, NewCall, Drop, Insert, Fill, Call,
       lock_read, DropRead, transition, DropWrite, take, push_erasure,
       RemoveLocked, remove_locked, park, eval, EvalRead, EvalTransition,
       TimeOut, unpark
  <2> QED BY <2>5, <2>6, <2>7, <2>8, <2>9
<1> QED BY <1>1, Invariance, PTL DEF IdsNeverReused, Spec

\* How a step that changes a thread's result came by the new one.
LEMMA Outcomes ==
  ASSUME Inv, [Next]_vars, NEW t \in Threads, result'[t] # result[t]
  PROVE  /\ result'[t] = "none" => state.id # call[t].id
         /\ result'[t] = "timed_out" =>
                \/ call[t].timeout = "BlockUntil"
                \/ call[t].timeout = "DontBlock" /\ state.readers > 0
<1> DEFINE Good == /\ result'[t] = "none" => state.id # call[t].id
                   /\ result'[t] = "timed_out" =>
                          \/ call[t].timeout = "BlockUntil"
                          \/ call[t].timeout = "DontBlock" /\ state.readers > 0
<1>1. result \in [Threads -> Results]
  BY DEF Inv, TypeOK
<1>2. \A u \in Threads, r \in Results : Return(u, r) => u = t /\ result'[t] = r
  BY <1>1 DEF Return
<1>3. \A u \in Threads : \A op, id, d, p : Begin(u, op, id, d, p) => result'[t] = "ok"
  BY <1>1 DEF Begin
<1>4. \A u \in Threads : \A p, c : ~GoWith(u, p, c) /\ ~Go(u, p)
  BY DEF GoWith, Go
<1>5. PICK u \in Threads : Step(u) \/ NewCall(u) \/ Drop(u)
  BY DEF Next, vars
<1>6. ASSUME Slow(u), state.readers > 0 PROVE Good
  BY <1>2, <1>4, <1>6 DEF Slow, Results
<1>7. ASSUME NEW c, Increment(u, c) PROVE Good
  BY <1>2, <1>4, <1>7 DEF Increment, Results
<1>8. ASSUME lock_read_with_current(u, state) PROVE Good
  <2>1. is_write_locked(state) => state.readers > 0
    BY LockedHeader
  <2>2. CASE state.id # call[u].id /\ Return(u, "none")
    BY <1>2, <2>2 DEF Results
  <2> QED BY <1>6, <1>7, <1>8, <2>1, <2>2 DEF lock_read_with_current
<1>9. ASSUME Transitioned(u) PROVE Good
  BY <1>2, <1>4, <1>9 DEF Transitioned, Results
<1>10. ASSUME NewCall(u) \/ Drop(u) PROVE Good
  BY <1>3, <1>10 DEF NewCall, Drop, Insert, RemoveLocked, Call, DropRead, DropWrite
<1>11. ASSUME lock_read(u) \/ read_cas(u) PROVE Good
  BY <1>2, <1>8, <1>11 DEF lock_read, read_cas, Results
<1>12. ASSUME transition(u) PROVE Good
  <2>1. CASE state.id # call[u].id /\ Return(u, "none")
    BY <1>2, <2>1 DEF Results
  <2> QED BY <1>4, <1>6, <1>9, <1>12, <2>1 DEF transition
<1>13. ASSUME eval(u) PROVE Good
  <2>1. CASE state.id # call[u].id /\ Return(u, "none")
    BY <1>2, <2>1 DEF Results
  <2> QED BY <1>4, <1>7, <1>9, <1>13, <2>1 DEF eval, EvalRead, EvalTransition
<1>14. ASSUME TimeOut(u) PROVE Good
  BY <1>2, <1>14 DEF TimeOut, Results
<1>15. ASSUME \/ Fill(u) \/ occupy(u) \/ unlock_read(u) \/ take(u)
              \/ push_erasure(u) \/ remove_locked(u) \/ park(u) \/ mark(u)
              \/ unpark(u)
       PROVE  Good
  BY <1>2, <1>4, <1>15 DEF Fill, occupy, unlock_read, take, push_erasure,
     remove_locked, park, mark, unpark, Results
<1> QED BY <1>5, <1>10, <1>11, <1>12, <1>13, <1>14, <1>15 DEF Step

\* A call answers "no such element" only if its element is gone
\* (RwStore::read, write, remove).
THEOREM NoneMeansRemovedHolds == Spec => NoneMeansRemoved
<1>1. ASSUME Inv, [Next]_vars, NEW t \in Threads, Returns(t, "none")
      PROVE  ~(is_occupied(state) /\ state.id = call[t].id)
  BY <1>1, Outcomes DEF Returns
<1>2. Inv /\ [Next]_vars => \A t \in Threads : Returns(t, "none") =>
          ~(is_occupied(state) /\ state.id = call[t].id)
  BY <1>1
<1> QED BY <1>2, Invariance, PTL DEF NoneMeansRemoved, Spec

\* A call that blocks indefinitely never times out, so lib.rs may unwrap it.
THEOREM TimeoutsHonouredHolds == Spec => TimeoutsHonoured
<1>1. ASSUME Inv, [Next]_vars, NEW t \in Threads, Returns(t, "timed_out")
      PROVE  \/ call[t].timeout = "BlockUntil"
             \/ call[t].timeout = "DontBlock" /\ state.readers > 0
  BY <1>1, Outcomes DEF Returns
<1>2. Inv /\ [Next]_vars => \A t \in Threads : Returns(t, "timed_out") =>
          \/ call[t].timeout = "BlockUntil"
          \/ call[t].timeout = "DontBlock" /\ state.readers > 0
  BY <1>1
<1> QED BY <1>2, Invariance, PTL DEF TimeoutsHonoured, Spec

-----------------------------------------------------------------------------
\* The refinement: each step of the slot is a step of the atomic lock or
\* leaves its state alone.

\* Steps that leave the lock alone.
LEMMA LockStutter ==
  ASSUME UNCHANGED <<state, read_locks, write_locks>>
  PROVE  UNCHANGED Lock!vars
  BY DEF Lock!vars

\* The exchange of transition is the abstract AcquireWrite or Remove.
LEMMA TransitionedRefines ==
  ASSUME Inv, NEW t \in Threads, state = expected(t), Transitioned(t),
         UNCHANGED read_locks, pc[t] \in {"transition", "eval"},
         call[t].op \in {"write", "remove"}
  PROVE  Lock!Next
<1> DEFINE i == call[t].id
<1>1. i \in issued
  BY DEF Inv, CallInv
<1>2. i \in Ordinals /\ i + 1 \in Ordinals /\ i # NoElement
  BY <1>1, IssuedIds, NoElementAssumption
<1>3. /\ state.id = i /\ is_occupied(state) /\ read_locks = {} /\ write_locks = {}
  BY <1>2, StateFields, LockedHeader DEF expected
<1>4. CASE call[t].op = "write"
  <2>1. /\ state' = write_locked_bits(i)
        /\ write_locks' = {[owner |-> t, id |-> i]}
    BY <1>3, <1>4 DEF Transitioned, new
  <2>2. state'.id = i /\ is_occupied(state')
    BY <1>2, <2>1, StateFields
  <2>3. Lock!AcquireWrite(t)
    BY <1>2, <1>3, <2>1, <2>2 DEF Lock!AcquireWrite
  <2> QED BY <2>3 DEF Lock!Next
<1>5. CASE call[t].op = "remove"
  <2>1. state' = unoccupied_bits(i + 1) /\ write_locks' = {}
    BY <1>3, <1>5 DEF Transitioned, new
  <2>2. state'.id = i + 1 /\ ~is_occupied(state')
    BY <1>2, <2>1, StateFields
  <2>3. Lock!Remove(t)
    BY <1>2, <1>3, <2>1, <2>2 DEF Lock!Remove
  <2> QED BY <2>3 DEF Lock!Next
<1> QED BY <1>4, <1>5

\* occupy is the abstract Insert.
LEMMA occupyRefines ==
  ASSUME Inv, NEW t \in Threads, occupy(t)
  PROVE  Lock!Next
<1>1. ~is_occupied(state) /\ state.id # RESERVED_ID /\ state \in States
  BY DEF occupy, Inv, TypeOK, OwnInv, Holder
<1>2. state.id \in Ordinals /\ state.id < RESERVED_ID
  BY <1>1, ReservedAssumption DEF States, Ordinals
<1>3. state'.id = state.id /\ is_occupied(state')
  BY <1>1, StateFields DEF occupy
<1>4. Lock!Insert
  BY <1>1, <1>2, <1>3 DEF Lock!Insert, occupy, guardVars
<1> QED BY <1>4 DEF Lock!Next

\* A reader's successful compare-exchange is the abstract AcquireRead.
LEMMA read_casRefines ==
  ASSUME Inv, NEW t \in Threads, read_cas(t)
  PROVE  Lock!Next \/ UNCHANGED Lock!vars
<1>1. CASE UNCHANGED <<state, read_locks>>
  BY <1>1, LockStutter DEF read_cas
<1>2. CASE /\ state = current[t]
           /\ state' = increment_readers(current[t])
           /\ NewReadLock(t)
  <2>1. /\ state \in States /\ state.id = call[t].id /\ call[t].id \in issued
        /\ pc[t] = "read_cas" /\ state.readers < MAX_CONCURRENT_READS
    BY <1>2 DEF Inv, TypeOK, CallInv, read_cas
  <2>2. /\ state.readers \in Nat /\ is_occupied(state) /\ state.id \in Ordinals
        /\ state.id # NoElement
    BY <2>1, IssuedIds, LockedHeader, NoElementAssumption
  <2>3. write_locks = {}
    BY <2>1, <2>2, LockedHeader, ReadsAssumption DEF is_write_locked, WRITE_LOCKED
  <2>4. state'.id = state.id /\ is_occupied(state')
    BY <1>2, <2>1, <2>2, StateFields DEF is_occupied
  <2>5. PICK n \in 1 .. MaxGuards :
          /\ \A g \in read_locks : g.owner = t => g.n # n
          /\ read_locks' = read_locks \cup
                               {[owner |-> t, n |-> n, id |-> call[t].id]}
    BY <1>2 DEF NewReadLock
  <2> DEFINE g == [owner |-> t, n |-> n, id |-> state.id]
  <2>6. g \in [owner : {t}, n : 1 .. MaxGuards, id : {state.id}]
    OBVIOUS
  <2>7. g \notin read_locks /\ \A h \in read_locks : h.owner = t => h.n # g.n
    BY <2>5
  <2>8. Lock!ReadLock(t) = [owner : {t}, n : 1 .. MaxGuards, id : {state.id}]
    BY <2>2 DEF Lock!ReadLock
  <2>9. Lock!AcquireRead(t)
    BY <2>1, <2>2, <2>3, <2>4, <2>5, <2>6, <2>7, <2>8
       DEF Lock!AcquireRead, read_cas
  <2> QED BY <2>9 DEF Lock!Next
<1> QED BY <1>1, <1>2 DEF read_cas

\* A reader's successful release is the abstract ReleaseRead.
LEMMA unlock_readRefines ==
  ASSUME Inv, Inv', NEW t \in Threads, unlock_read(t)
  PROVE  Lock!Next \/ UNCHANGED Lock!vars
<1>1. CASE UNCHANGED <<state, read_locks>>
  BY <1>1, LockStutter DEF unlock_read
<1>2. CASE /\ state = current[t]
           /\ state' = read_unlocked(current[t])
           /\ \E g \in read_locks : g.owner = t /\ read_locks' = read_locks \ {g}
  <2>1. /\ state \in States /\ state.readers \in 1 .. MAX_CONCURRENT_READS
        /\ state.notification \in BOOLEAN
    BY <1>2 DEF Inv, TypeOK, CallInv, States, unlock_read
  <2>2. is_occupied(state)
    BY <2>1, ReadsAssumption DEF is_occupied
  <2>3. state'.id = state.id /\ is_occupied(state')
    <3>1. state.readers > 0
      BY <2>1, ReadsAssumption
    <3>2. /\ decrement_readers(state) \in States
          /\ decrement_readers(state).id = state.id
          /\ decrement_readers(state).readers = state.readers - 1
          /\ decrement_readers(state).notification = state.notification
      BY <2>1, <3>1, StateFields, StateWords
    <3>3. CASE must_unpark(state)
      BY <1>2, <3>2, <3>3, StateFields DEF read_unlocked
    <3>4. CASE ~must_unpark(state)
      BY <1>2, <2>1, <3>2, <3>4
         DEF read_unlocked, must_unpark, has_thread_blocking, is_occupied
    <3> QED BY <3>3, <3>4
  <2>4. Lock!ReleaseRead(t)
    BY <1>2, <2>2, <2>3 DEF Lock!ReleaseRead, unlock_read
  <2> QED BY <2>4 DEF Lock!Next
<1> QED BY <1>1, <1>2 DEF unlock_read

\* unlock_write is the abstract ReleaseWrite.
LEMMA DropWriteRefines ==
  ASSUME Inv, NEW t \in Threads, DropWrite(t)
  PROVE  Lock!Next
<1>1. PICK w \in write_locks : /\ w.owner = t
                               /\ write_locks' = write_locks \ {w}
                               /\ state' = occupied_unlocked_bits(w.id)
  BY DEF DropWrite
<1>2. w.id = state.id /\ w.id \in Ordinals /\ is_occupied(state)
  BY WriteGuard
<1>3. state'.id = state.id /\ is_occupied(state')
  BY <1>1, <1>2, StateFields
<1>4. Lock!ReleaseWrite(t)
  BY <1>1, <1>2, <1>3 DEF Lock!ReleaseWrite, DropWrite
<1> QED BY <1>4 DEF Lock!Next

\* Header::remove_locked is the abstract Remove by the writer.
LEMMA remove_lockedRefines ==
  ASSUME Inv, NEW t \in Threads, remove_locked(t)
  PROVE  Lock!Next
<1> DEFINE i == call[t].id
           w == [owner |-> t, id |-> i]
<1>1. w \in write_locks
  BY DEF remove_locked, Inv, CallInv
<1>2. /\ write_locks = {w} /\ read_locks = {} /\ state.id = i /\ is_occupied(state)
      /\ i \in Ordinals /\ i + 1 \in Ordinals /\ i # NoElement
  BY <1>1, WriteGuard, NoElementAssumption
<1>3. state'.id = i + 1 /\ ~is_occupied(state')
  BY <1>2, StateFields DEF remove_locked
<1>4. Lock!Remove(t)
  BY <1>2, <1>3 DEF Lock!Remove, remove_locked
<1> QED BY <1>4 DEF Lock!Next

\* Marking the notification bit of a locked header does not show.
LEMMA markRefines ==
  ASSUME Inv, NEW t \in Threads, mark(t)
  PROVE  UNCHANGED Lock!vars
<1>1. CASE UNCHANGED state
  BY <1>1, LockStutter DEF mark, guardVars
<1>2. CASE state = current[t] /\ state' = mark_thread_blocking(current[t])
  <2>1. state \in States /\ state.readers > 0 /\ is_occupied(state)
    BY <1>2, LockedHeader DEF mark, Inv, TypeOK, CallInv
  <2>2. state'.id = state.id /\ state'.readers = state.readers
    BY <1>2, <2>1, StateFields
  <2>3. is_occupied(state')
    BY <2>1, <2>2, LockedHeader DEF is_occupied
  <2> QED BY <2>1, <2>2, <2>3 DEF Lock!vars, mark, guardVars
<1> QED BY <1>1, <1>2 DEF mark

\* header.rs implements the atomic read-write lock with ordinals: every
\* interleaving of its compare-exchanges is a behaviour of ElementLock.
THEOREM Refinement == Spec => ImplementsLock
<1>1. Init => Lock!Init
  <2>1. 0 \in Ordinals
    BY ReservedAssumption DEF Ordinals
  <2> QED BY <2>1, StateFields DEF Init, Lock!Init
<1>2. ASSUME Inv, Inv', [Next]_vars
      PROVE  [Lock!Next]_(Lock!vars)
  <2> USE <1>2
  <2>1. CASE UNCHANGED vars
    BY <2>1, LockStutter DEF vars
  <2>2. ASSUME NEW t \in Threads, transition(t) \/ eval(t)
        PROVE  Lock!Next \/ UNCHANGED Lock!vars
    <3>1. CASE UNCHANGED <<state, write_locks>>
      BY <2>2, <3>1, LockStutter DEF transition, eval
    <3>2. CASE state = expected(t) /\ Transitioned(t) /\ call[t].op # "read"
      <4>1. pc[t] \in {"transition", "eval"} /\ UNCHANGED read_locks
        BY <2>2 DEF transition, eval
      <4>2. call[t].op \in {"write", "remove"}
        BY <3>2, <4>1 DEF Inv, CallInv
      <4> QED BY <3>2, <4>1, <4>2, TransitionedRefines
    <3>3. transition(t) => call[t].op # "read"
      BY DEF transition, Inv, CallInv
    <3> QED BY <2>2, <3>1, <3>2, <3>3 DEF transition, eval, EvalRead, EvalTransition
  <2>3. ASSUME NEW t \in Threads,
               \/ Fill(t) \/ lock_read(t) \/ take(t) \/ push_erasure(t)
               \/ park(t) \/ TimeOut(t) \/ unpark(t) \/ NewCall(t) \/ DropRead(t)
        PROVE  UNCHANGED Lock!vars
    BY <2>3, LockStutter DEF Fill, lock_read, take, push_erasure, park, TimeOut,
       unpark, NewCall, Insert, RemoveLocked, Call, DropRead, guardVars
  <2> QED BY <2>1, <2>2, <2>3, occupyRefines, read_casRefines, unlock_readRefines,
             DropWriteRefines, remove_lockedRefines, markRefines
          DEF Next, Step, Drop
<1> QED BY <1>1, <1>2, Invariance, PTL DEF Spec, ImplementsLock, Lock!Spec
=============================================================================
