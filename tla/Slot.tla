-------------------------------- MODULE Slot --------------------------------
(***************************************************************************)
(* One slot of a block: its header (src/src/header.rs), the element cell   *)
(* the header guards (src/src/block.rs) and the parking queue its waiters  *)
(* sleep in (src/src/util/sync/park.rs), used by several threads through   *)
(* the operations of RwStore (src/src/lib.rs) and the drop of its guards   *)
(* (src/src/lock.rs).                                                      *)
(*                                                                         *)
(* Every access to the shared state word is a step of its own, so a thread *)
(* can be overtaken between a load and the compare-exchange that relies on *)
(* it, between releasing the lock and waking the waiters, and between      *)
(* emptying the header and handing the slot back for reuse.  The failing   *)
(* branch of a weak compare-exchange is not guarded by state # expected:   *)
(* it may fail spuriously.                                                 *)
(***************************************************************************)
EXTENDS HeaderState, FiniteSets

CONSTANTS Threads,     \* the threads that share the store
          MaxGuards,   \* bound: read guards one thread holds at a time
          Upgrades,    \* may a thread that holds a guard block without limit?
          NoElement,   \* memory that holds no element: unwritten or moved out
          NoThread     \* no thread holds the mutex

ASSUME ThreadsAssumption == IsFiniteSet(Threads)
ASSUME MaxGuardsAssumption == MaxGuards \in Nat \ {0}
ASSUME UpgradesAssumption == Upgrades \in BOOLEAN
ASSUME NoElementAssumption == NoElement \notin Ordinals
ASSUME NoThreadAssumption == NoThread \notin Threads

VARIABLES
    state,        \* the header's state word
    cell,         \* the element in the slot's memory, named by the ordinal
                  \* its insertion is given
    vacant,       \* is the slot's address on offer to insert?
    issued,       \* the ordinals occupy has returned: the Ids in circulation
    pc,           \* where each thread is
    call,         \* the call each thread is executing
    current,      \* each thread's local copy of the state word
    result,       \* what each thread's last call returned
    parked,       \* the threads queued in the parking lot on this header
    queue_lock,   \* the thread that holds the parking lot's bucket mutex
    read_locks,   \* the live ReadLock guards
    write_locks   \* the live WriteLock guards

vars == <<state, cell, vacant, issued, pc, call, current, result, parked,
          queue_lock, read_locks, write_locks>>

slotVars == <<cell, vacant, issued>>
parkVars == <<parked, queue_lock>>
guardVars == <<read_locks, write_locks>>

Timeouts == {"DontBlock", "BlockUntil", "BlockIndefinitely"}

Ops == {"read", "write", "remove", "remove_locked", "insert",
        "unlock_read", "unlock_write"}

Calls == [op : Ops, id : Ordinals, timeout : Timeouts]

NoCall == [op |-> "insert", id |-> 0, timeout |-> "DontBlock"]

\* The value of a local copy that is not in scope.
NoState == unoccupied_bits(0)

PCs == {"idle", "fill", "occupy", "load", "read_cas", "transition", "park",
        "eval", "mark", "parked", "unlock_cas", "swap", "unpark", "take",
        "push"}

Results == {"ok", "none", "timed_out", "panic"}

ReadLocks == [owner : Threads, n : 1 .. MaxGuards, id : Ordinals]

WriteLocks == [owner : Threads, id : Ordinals]

\* The types of the state: the fields of every word a thread has read or is about
\* to write, the header among them, keep their widths.
TypeOK ==
    /\ state \in States
    /\ cell \in Ordinals \cup {NoElement}
    /\ vacant \in BOOLEAN
    /\ issued \subseteq Ordinals
    /\ pc \in [Threads -> PCs]
    /\ call \in [Threads -> Calls]
    /\ current \in [Threads -> States]
    /\ result \in [Threads -> Results]
    /\ parked \subseteq Threads
    /\ queue_lock \in Threads \cup {NoThread}
    /\ read_locks \subseteq ReadLocks
    /\ write_locks \subseteq WriteLocks

\* Header::new and Slot::new; the bucket is about to offer the fresh slot.
Init ==
    /\ state = unoccupied_bits(0)
    /\ cell = NoElement
    /\ vacant = TRUE
    /\ issued = {}
    /\ pc = [t \in Threads |-> "idle"]
    /\ call = [t \in Threads |-> NoCall]
    /\ current = [t \in Threads |-> NoState]
    /\ result = [t \in Threads |-> "ok"]
    /\ parked = {}
    /\ queue_lock = NoThread
    /\ read_locks = {}
    /\ write_locks = {}

-----------------------------------------------------------------------------
\* Control: where a thread goes next, and what a call returns.

GoWith(t, p, c) ==
    /\ pc' = [pc EXCEPT ![t] = p]
    /\ current' = [current EXCEPT ![t] = c]
    /\ UNCHANGED <<call, result>>

Go(t, p) == GoWith(t, p, NoState)

Begin(t, op, id, timeout, p) ==
    /\ pc[t] = "idle"
    /\ pc' = [pc EXCEPT ![t] = p]
    /\ call' = [call EXCEPT ![t] = [op |-> op, id |-> id, timeout |-> timeout]]
    /\ result' = [result EXCEPT ![t] = "ok"]

Return(t, r) ==
    /\ pc' = [pc EXCEPT ![t] = "idle"]
    /\ call' = [call EXCEPT ![t] = NoCall]
    /\ current' = [current EXCEPT ![t] = NoState]
    /\ result' = [result EXCEPT ![t] = r]

GuardsOf(t) == {g \in read_locks \cup write_locks : g.owner = t}

-----------------------------------------------------------------------------
\* RwStore::insert: the slot's address is popped (or is the bucket's next
\* unused slot), Block::insert writes the element, then occupies the header.

Insert(t) ==
    /\ vacant
    /\ Begin(t, "insert", 0, "DontBlock", "fill")
    /\ vacant' = FALSE
    /\ UNCHANGED <<state, cell, issued, current, parkVars, guardVars>>

Fill(t) ==
    /\ pc[t] = "fill"
    /\ cell' = state.id
    /\ Go(t, "occupy")
    /\ UNCHANGED <<state, vacant, issued, parkVars, guardVars>>

occupy(t) ==
    /\ pc[t] = "occupy"
    /\ state' = unmark_thread_blocking(state)
    /\ issued' = issued \cup {state.id}
    /\ Return(t, "ok")
    /\ UNCHANGED <<cell, vacant, parkVars, guardVars>>

-----------------------------------------------------------------------------
\* Read locking: lock_read, lock_read_with_current, lock_read_slow.

\* A thread calls read, write or remove with an Id it was given.  The only
\* restriction is the caller's: with Upgrades = FALSE it does not wait without
\* limit for a lock its own guards exclude.
Call(t, op, id, timeout) ==
    /\ id \in issued
    /\ op = "read" => \E n \in 1 .. MaxGuards :
                          \A g \in read_locks : g.owner = t => g.n # n
    /\ \/ Upgrades
       \/ timeout # "BlockIndefinitely"
       \/ GuardsOf(t) = {}
       \/ op = "read" /\ \A w \in write_locks : w.owner # t
    /\ Begin(t, op, id, timeout, IF op = "read" THEN "load" ELSE "transition")
    /\ UNCHANGED <<state, slotVars, current, parkVars, guardVars>>

\* Fault variant: a locked element is reported as absent to a caller that may
\* not block.
slow_none(t) ==
    \/ call[t].timeout = "DontBlock" /\ Return(t, "none")
    \/ call[t].timeout # "DontBlock" /\ Go(t, "park")

\* lock_read_slow and transition_slow start by looking at the timeout.
Slow(t) ==
    \/ call[t].timeout = "DontBlock" /\ Return(t, "timed_out")
    \/ call[t].timeout # "DontBlock" /\ Go(t, "park")

\* Evaluating increment_readers(c) for the compare-exchange: panic or go on.
Increment(t, c) ==
    \/ too_many_readers(c) /\ Return(t, "panic")
    \/ ~too_many_readers(c) /\ GoWith(t, "read_cas", c)

\* Fault variant: the ordinal is not compared.
lock_read_any_id(t, c) ==
    \/ is_write_locked(c) /\ Slow(t)
    \/ ~is_write_locked(c) /\ Increment(t, c)

lock_read_with_current(t, c) ==
    \/ c.id # call[t].id /\ Return(t, "none")
    \/ c.id = call[t].id /\ is_write_locked(c) /\ Slow(t)
    \/ c.id = call[t].id /\ ~is_write_locked(c) /\ Increment(t, c)

lock_read(t) ==
    /\ pc[t] = "load"
    /\ lock_read_with_current(t, state)
    /\ UNCHANGED <<state, slotVars, parkVars, guardVars>>

\* The first unused guard number names the new ReadLock.
NewReadLock(t) ==
    \E n \in 1 .. MaxGuards :
        /\ \A g \in read_locks : g.owner = t => g.n # n
        /\ \A m \in 1 .. (n - 1) :
               \E g \in read_locks : g.owner = t /\ g.n = m
        /\ read_locks' = read_locks \cup
                             {[owner |-> t, n |-> n, id |-> call[t].id]}

read_cas(t) ==
    /\ pc[t] = "read_cas"
    /\ \/ /\ state = current[t]
          /\ state' = increment_readers(current[t])
          /\ NewReadLock(t)
          /\ Return(t, "ok")
       \/ /\ lock_read_with_current(t, state)
          /\ UNCHANGED <<state, read_locks>>
    /\ UNCHANGED <<slotVars, parkVars, write_locks>>

\* ReadLock::drop, unlock_read: the load, then the compare-exchange.
DropRead(t) ==
    /\ \E g \in read_locks :
           g.owner = t /\ Begin(t, "unlock_read", g.id, "DontBlock", "unlock_cas")
    /\ current' = [current EXCEPT ![t] = state]
    /\ UNCHANGED <<state, slotVars, parkVars, guardVars>>

\* Fault variant: only a reader that leaves others behind wakes the waiters.
must_unpark_early(c) == has_thread_blocking(c) /\ c.readers > 1

must_unpark(c) == has_thread_blocking(c) /\ c.readers = 1

\* Fault variant: the wake-up forgets to restore the notification bit, which
\* turns the unlocked header into an unoccupied one.
read_unlocked_unmarked(c) == decrement_readers(c)

\* Fault variant: the header is unlocked as if there were one reader.
read_unlocked_all(c) == occupied_unlocked_bits(c.id)

\* Fault variant: the reader that wakes the waiters forgets to leave.
read_unlocked_stays(c) ==
    IF must_unpark(c) THEN unmark_thread_blocking(c) ELSE decrement_readers(c)

read_unlocked(c) ==
    IF must_unpark(c) THEN unmark_thread_blocking(decrement_readers(c))
                      ELSE decrement_readers(c)

unlock_read(t) ==
    /\ pc[t] = "unlock_cas"
    /\ \/ /\ state = current[t]
          /\ state' = read_unlocked(current[t])
          /\ \E g \in read_locks :
                 /\ g.owner = t
                 /\ \A h \in read_locks : h.owner = t => h.n <= g.n
                 /\ read_locks' = read_locks \ {g}
          /\ IF must_unpark(current[t]) THEN Go(t, "unpark")
                                        ELSE Return(t, "ok")
       \/ /\ GoWith(t, "unlock_cas", state)
          /\ UNCHANGED <<state, read_locks>>
    /\ UNCHANGED <<slotVars, parkVars, write_locks>>

-----------------------------------------------------------------------------
\* Write locking and removal: transition and transition_slow.

expected(t) == occupied_unlocked_bits(call[t].id)

\* Fault variant: a removed element's ordinal is left for the next one.
new_same_ordinal(t) ==
    IF call[t].op = "write" THEN write_locked_bits(call[t].id)
                            ELSE unoccupied_bits(call[t].id)

new(t) == IF call[t].op = "write" THEN write_locked_bits(call[t].id)
                                  ELSE unoccupied_bits(call[t].id + 1)

\* The exchange happened: a WriteLock is made, or the element is to be read.
Transitioned(t) ==
    /\ state' = new(t)
    /\ IF call[t].op = "write"
       THEN /\ write_locks' = write_locks \cup
                                  {[owner |-> t, id |-> call[t].id]}
            /\ Return(t, "ok")
       ELSE /\ Go(t, "take")
            /\ UNCHANGED write_locks

transition(t) ==
    /\ pc[t] = "transition"
    /\ \/ /\ state = expected(t)
          /\ Transitioned(t)
       \/ /\ state.id = call[t].id
          /\ state.readers > 0
          /\ Slow(t)
          /\ UNCHANGED <<state, write_locks>>
       \/ /\ state.id = call[t].id
          /\ state.readers = 0
          /\ Go(t, "transition")
          /\ UNCHANGED <<state, write_locks>>
       \/ /\ state.id # call[t].id
          /\ Return(t, "none")
          /\ UNCHANGED <<state, write_locks>>
    /\ UNCHANGED <<slotVars, parkVars, read_locks>>

\* WriteLock::drop, unlock_write: one swap.
DropWrite(t) ==
    /\ pc[t] = "idle"
    /\ \E w \in write_locks :
           /\ w.owner = t
           /\ write_locks' = write_locks \ {w}
           /\ state' = occupied_unlocked_bits(w.id)
           /\ IF has_thread_blocking(state)
              THEN Begin(t, "unlock_write", w.id, "DontBlock", "unpark")
              ELSE UNCHANGED <<pc, call, result>>
    /\ UNCHANGED <<slotVars, current, parkVars, read_locks>>

\* Block::remove reads the element out of a slot whose header it has emptied.
take(t) ==
    /\ pc[t] = "take"
    /\ cell' = NoElement
    /\ IF may_reuse(call[t].id) THEN Go(t, "push") ELSE Return(t, "ok")
    /\ UNCHANGED <<state, vacant, issued, parkVars, guardVars>>

\* RwStore::push_erasure puts the slot on offer again.
push_erasure(t) ==
    /\ pc[t] = "push"
    /\ vacant' = TRUE
    /\ Return(t, "ok")
    /\ UNCHANGED <<state, cell, issued, parkVars, guardVars>>

\* RwStore::remove_locked: the guard is forgotten and the element read ...
RemoveLocked(t) ==
    /\ \E w \in write_locks :
           w.owner = t /\ Begin(t, "remove_locked", w.id, "DontBlock", "swap")
    /\ cell' = NoElement
    /\ UNCHANGED <<state, vacant, issued, current, parkVars, guardVars>>

\* ... then Header::remove_locked swaps the header to the next ordinal.
remove_locked(t) ==
    /\ pc[t] = "swap"
    /\ state' = unoccupied_bits(call[t].id + 1)
    /\ write_locks' = write_locks \ {[owner |-> t, id |-> call[t].id]}
    /\ \/ has_thread_blocking(state) /\ Go(t, "unpark")
       \/ /\ ~has_thread_blocking(state)
          /\ IF may_reuse(call[t].id) THEN Go(t, "push") ELSE Return(t, "ok")
    /\ UNCHANGED <<slotVars, parkVars, read_locks>>

-----------------------------------------------------------------------------
\* Blocking: block, block_result_to_park_result, Park::park, Park::unpark.
\* The parking lot runs the closure with the bucket mutex held and queues the
\* thread before it lets go of it; unparking and giving up take it as well.

\* Park::park takes the bucket mutex.
park(t) ==
    /\ pc[t] = "park"
    /\ queue_lock = NoThread
    /\ queue_lock' = t
    /\ Go(t, "eval")
    /\ UNCHANGED <<state, slotVars, parked, guardVars>>

\* lock_read_slow's closure f: a load, and the outcome it decides on.
EvalRead(t) ==
    /\ call[t].op = "read"
    /\ \/ /\ state.id # call[t].id
          /\ Return(t, "none")
          /\ queue_lock' = NoThread
       \/ /\ state.id = call[t].id
          /\ is_write_locked(state)
          /\ GoWith(t, "mark", state)
          /\ UNCHANGED queue_lock
       \/ /\ state.id = call[t].id
          /\ ~is_write_locked(state)
          /\ Increment(t, state)
          /\ queue_lock' = NoThread
    /\ UNCHANGED <<state, write_locks>>

\* transition_slow's closure f: a strong compare-exchange.
EvalTransition(t) ==
    /\ call[t].op # "read"
    /\ \/ /\ state = expected(t)
          /\ Transitioned(t)
          /\ queue_lock' = NoThread
       \/ /\ state # expected(t)
          /\ state.id = call[t].id
          /\ GoWith(t, "mark", state)
          /\ UNCHANGED <<state, write_locks, queue_lock>>
       \/ /\ state # expected(t)
          /\ state.id # call[t].id
          /\ Return(t, "none")
          /\ queue_lock' = NoThread
          /\ UNCHANGED <<state, write_locks>>

eval(t) ==
    /\ pc[t] = "eval"
    /\ EvalRead(t) \/ EvalTransition(t)
    /\ UNCHANGED <<slotVars, parked, read_locks>>

\* Fault variant: the thread queues itself without marking the header.
mark_without_bit(t) ==
    /\ pc[t] = "mark"
    /\ parked' = parked \cup {t}
    /\ queue_lock' = NoThread
    /\ Go(t, "parked")
    /\ UNCHANGED <<state, slotVars, guardVars>>

\* The notification bit is cleared with a strong compare-exchange against the
\* value f decided on; when it fails f runs again.
mark(t) ==
    /\ pc[t] = "mark"
    /\ \/ /\ state = current[t]
          /\ state' = mark_thread_blocking(current[t])
          /\ parked' = parked \cup {t}
          /\ queue_lock' = NoThread
          /\ Go(t, "parked")
       \/ /\ state # current[t]
          /\ Go(t, "eval")
          /\ UNCHANGED <<state, parkVars>>
    /\ UNCHANGED <<slotVars, guardVars>>

\* Fault variant: a wait that timed out is taken for a wake-up.
time_out_waits_again(t) ==
    /\ pc[t] = "parked"
    /\ call[t].timeout = "BlockUntil"
    /\ queue_lock = NoThread
    /\ parked' = parked \ {t}
    /\ Go(t, "park")
    /\ UNCHANGED <<state, slotVars, queue_lock, guardVars>>

\* Fault variant: a call without a deadline gives up as well.
time_out_any(t) ==
    /\ pc[t] = "parked"
    /\ queue_lock = NoThread
    /\ parked' = parked \ {t}
    /\ Return(t, "timed_out")
    /\ UNCHANGED <<state, slotVars, queue_lock, guardVars>>

\* The deadline passes while the thread is queued.  The bit stays cleared.
TimeOut(t) ==
    /\ pc[t] = "parked"
    /\ call[t].timeout = "BlockUntil"
    /\ queue_lock = NoThread
    /\ parked' = parked \ {t}
    /\ Return(t, "timed_out")
    /\ UNCHANGED <<state, slotVars, queue_lock, guardVars>>

\* Fault variant: unpark_one, which leaves the other waiters queued although the
\* bit was restored.
unpark_one(t) ==
    /\ pc[t] = "unpark"
    /\ queue_lock = NoThread
    /\ \E w \in IF parked = {} THEN {t} ELSE parked :
           /\ parked' = parked \ {w}
           /\ pc' = [pc EXCEPT ![w] = "park", ![t] = "idle"]
    /\ call' = [call EXCEPT ![t] = NoCall]
    /\ UNCHANGED <<state, slotVars, current, result, queue_lock, guardVars>>

\* unpark_all: every queued thread gets ParkResult::Waited and blocks anew.
unpark(t) ==
    /\ pc[t] = "unpark"
    /\ queue_lock = NoThread
    /\ parked' = {}
    /\ LET last == call[t].op # "remove_locked" \/ ~may_reuse(call[t].id)
       IN  /\ pc' = [u \in Threads |->
                        IF u \in parked THEN "park"
                        ELSE IF u # t THEN pc[u]
                        ELSE IF last THEN "idle" ELSE "push"]
           /\ call' = IF last THEN [call EXCEPT ![t] = NoCall] ELSE call
    /\ UNCHANGED <<state, slotVars, current, result, queue_lock, guardVars>>

-----------------------------------------------------------------------------
\* The steps of a call that has begun.
Step(t) ==
    \/ Fill(t) \/ occupy(t) \/ lock_read(t) \/ read_cas(t) \/ unlock_read(t)
    \/ transition(t) \/ take(t) \/ push_erasure(t) \/ remove_locked(t)
    \/ park(t) \/ eval(t) \/ mark(t) \/ TimeOut(t) \/ unpark(t)

\* What a caller may start next.
NewCall(t) ==
    \/ Insert(t)
    \/ RemoveLocked(t)
    \/ \E op \in {"read", "write", "remove"}, id \in Ordinals, d \in Timeouts :
           Call(t, op, id, d)

\* What a caller that holds a guard does in the end.
Drop(t) == DropRead(t) \/ DropWrite(t)

Next == \E t \in Threads : Step(t) \/ NewCall(t) \/ Drop(t)

Spec == Init /\ [][Next]_vars

\* The scheduler lets every running call continue, and deadlines pass.
FairSpec == Spec /\ \A t \in Threads : WF_vars(Step(t))

\* The atomic lock this slot implements.
Lock == INSTANCE ElementLock WITH
            element <- IF is_occupied(state) THEN state.id ELSE NoElement,
            spent   <- IF is_occupied(state) THEN state.id + 1 ELSE state.id

-----------------------------------------------------------------------------
\* The threads that write or move the element without holding a guard: an
\* insertion before occupy, a removal after its exchange.
Movers == {t \in Threads : pc[t] \in {"fill", "occupy", "take"}}

\* The element's memory has one writer or any number of readers: at most one
\* WriteLock, insertion or removal touches it, and then no ReadLock is live
\* (Block::insert, Block::remove and the guards' Deref rely on it).
ExclusiveAccess ==
    /\ \A v, w \in write_locks : v = w
    /\ \A t, u \in Movers : t = u
    /\ write_locks # {} => Movers = {} /\ read_locks = {}
    /\ Movers # {} => read_locks = {}

\* A guard refers to the element its Id names for as long as it lives, and a
\* removal reads the element of the Id it was given (get_unchecked and
\* Block::remove read the memory without another look at the header).
GuardsKeepElement ==
    /\ \A g \in read_locks : cell = g.id
    /\ \A w \in write_locks : cell = w.id \/ pc[w.owner] = "swap"
    /\ \A t \in Threads : pc[t] = "take" => cell = call[t].id

\* The debug assertions of unlock_read, unlock_write, remove_locked, occupy,
\* mark_thread_blocking and increment_readers hold where they are evaluated.
DebugAsserts ==
    /\ \A t \in Threads :
        /\ pc[t] = "unlock_cas" => /\ current[t].readers # 0
                                  /\ ~is_write_locked(current[t])
                                  /\ current[t].id = call[t].id
        /\ pc[t] = "swap" => is_write_locked(state) /\ state.id = call[t].id
        /\ pc[t] = "occupy" => ~is_occupied(state) /\ state.id # RESERVED_ID
        /\ pc[t] = "mark" => /\ current[t].readers > 0
                            /\ current[t].id # RESERVED_ID
        /\ pc[t] = "read_cas" => /\ ~is_write_locked(current[t])
                                /\ current[t].id # RESERVED_ID
    /\ \A w \in write_locks : is_write_locked(state) /\ state.id = w.id

\* A queued thread is never forgotten: the header is locked with the
\* notification bit cleared, so the unlock will wake it, or an unlock that saw
\* the bit is on its way to unpark.
NoLostWakeup ==
    parked # {} => \/ state.readers > 0 /\ has_thread_blocking(state)
                   \/ \E t \in Threads : pc[t] = "unpark"

\* Between operations the slot is in one of three conditions: occupied by an
\* element, empty and on offer to insert, or retired for good.  So Slot::drop
\* drops each element that is still there once, and no slot is lost.
Quiescent == \A t \in Threads : pc[t] = "idle"

SlotAccounting ==
    Quiescent =>
        \/ is_occupied(state) /\ cell = state.id /\ ~vacant
        \/ ~is_occupied(state) /\ cell = NoElement /\ vacant
        \/ /\ ~is_occupied(state) /\ cell = NoElement /\ ~vacant
           /\ state.id = RESERVED_ID

\* "The most significant bit is the thread notification bit. This is set when no
\* threads are blocking on the header and is unset when there are threads
\* blocking": so it stands whenever every thread is either done or queued.
NotificationBitExact ==
    (\A t \in Threads : pc[t] \in {"idle", "parked"}) /\ is_occupied(state) =>
        (has_thread_blocking(state) <=> parked # {})

\* "This may be called reentrantly": a thread that holds a ReadLock never
\* waits for another one, whatever writers are queued.
ReentrantReadNeverBlocks ==
    \A t \in Threads :
        call[t].op = "read" /\ pc[t] \in {"park", "eval", "mark", "parked"}
            => \A g \in read_locks : g.owner # t

\* A header that becomes occupied carries an ordinal this slot has never given
\* out before, so an Id that outlives its element never names a later one.
IdsNeverReused ==
    [][~is_occupied(state) /\ is_occupied(state') => state'.id \notin issued]_vars

Returns(t, r) == result[t] # r /\ result'[t] = r

\* read, write and remove report an absent element only for an Id whose
\* element has been removed, however the call raced with other operations.
NoneMeansRemoved ==
    [][\A t \in Threads : Returns(t, "none") =>
           ~(is_occupied(state) /\ state.id = call[t].id)]_vars

\* RwStore::read, write and remove unwrap the result of a call that blocks
\* indefinitely: such a call never times out.  A call that may not block
\* times out only in a step that finds the element locked.
TimeoutsHonoured ==
    [][\A t \in Threads : Returns(t, "timed_out") =>
           \/ call[t].timeout = "BlockUntil"
           \/ call[t].timeout = "DontBlock" /\ state.readers > 0]_vars

\* The compare-exchange protocol implements the atomic read-write lock with
\* ordinals of ElementLock: every step of header.rs is one of its steps.
ImplementsLock == Lock!Spec

\* While the element is unlocked again and again no thread stays queued: the
\* unlock that finds the bit cleared does unpark (Park::unpark).
NoForgottenWaiter ==
    \A t \in Threads : []<>(state.readers = 0) => []<>(t \notin parked)

NoMoreCalls == <>[][\A t \in Threads : ~(pc[t] = "idle" /\ NewCall(t))]_vars

\* Every thread that can drops the guards it holds.
GuardsAreDropped == \A t \in Threads : WF_vars(Drop(t))

\* "If a read or write lock is held on the element, this will block until it is
\* released": once callers stop making calls and drop their guards, every
\* operation that is under way returns.  The only exception are callers that wait
\* without limit for what their own guards exclude: a thread that waits cannot drop
\* its guard.  No wake-up is lost, no one waits for a waiter, and no deadlock is the
\* lock's own.
Settles ==
    NoMoreCalls /\ GuardsAreDropped =>
        <>[](\/ Quiescent
             \/ Upgrades /\ \E t \in Threads : pc[t] = "parked" /\ GuardsOf(t) # {})

\* A call with a deadline or one that may not block returns even if the guard
\* it waits for is never dropped (Timeout::BlockUntil, Timeout::DontBlock).
TimedCallsReturn ==
    NoMoreCalls =>
        <>[](\A t \in Threads :
                 pc[t] = "idle" \/ call[t].timeout = "BlockIndefinitely")
=============================================================================
