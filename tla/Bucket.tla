------------------------------- MODULE Bucket -------------------------------
(***************************************************************************)
(* One bucket of a store (src/src/bucket.rs): a list of blocks, each twice *)
(* the size of the one before, and a counter that hands the slots of the   *)
(* newest block to insertions.  The counter is advanced under the read     *)
(* lock by any number of threads, runs past the end of the block, and is   *)
(* reset under the write lock by the thread that adds a block.             *)
(*                                                                         *)
(* Block lengths and positions are those of BlockList.  A slot is named    *)
(* <<len, physical>>: the length of its block, which no two blocks share,  *)
(* and its position in it.  The read-write lock is parking_lot's           *)
(* (src/src/util/sync/rwlock.rs).                                          *)
(***************************************************************************)
EXTENDS BlockList, FiniteSets

CONSTANTS Threads,          \* the threads that share the store
          MaxInserts,       \* bound: slots given to next_insert_location
          MaxBlocks,        \* bound: blocks before the last calls
          MaxCounter,       \* bound: the counter before the last calls
          NoThread          \* no thread holds the write lock

ASSUME ThreadsAssumption == IsFiniteSet(Threads)
ASSUME MaxInsertsAssumption == MaxInserts \in Nat
ASSUME MaxBlocksAssumption == MaxBlocks \in Nat \ {0}
\* The calls that are under way when the bound is reached do not make a u32 wrap.
ASSUME MaxCounterAssumption ==
    MaxCounter \in Nat /\ MaxCounter + 2 * Cardinality(Threads) <= U32
ASSUME NoThreadAssumption == NoThread \notin Threads

VARIABLES
    overflow_checks,    \* does arithmetic overflow panic (debug builds)?
    blocks,             \* the lengths of the blocks, the head first
    next_unused_slot,   \* the counter
    handed,             \* the slots handed to insertions so far
    readers,            \* the threads that hold the read lock
    writer,             \* the thread that holds or claims the write lock
    pc,                 \* where each thread is
    location,           \* the slot each running call was given: a sequence
                        \* of at most one
    seen                \* what each running capacity call has loaded

vars == <<overflow_checks, blocks, next_unused_slot, handed, readers, writer,
          pc, location, seen>>

listVars == <<overflow_checks, blocks, next_unused_slot, handed>>

\* The counter and the slots are u32 values.
Words == 0 .. (U32 - 1)

PCs == {"idle", "read", "fast", "release", "miss", "write", "drain", "recheck",
        "expand", "write_release", "cap_read", "cap_load", "cap_release",
        "cap_loop"}

NoSeen == [head_size |-> 0, used |-> 0]

\* The types of the state: the counter and the lengths are u32 values, and a slot
\* a call has is one that was handed out.
TypeOK ==
    /\ overflow_checks \in BOOLEAN
    /\ blocks \in Seq(Words)
    /\ next_unused_slot \in Words
    /\ handed \subseteq Words \X Words
    /\ readers \subseteq Threads
    /\ writer \in Threads \cup {NoThread}
    /\ pc \in [Threads -> PCs]
    /\ location \in [Threads -> Seq(handed)]
    /\ \A t \in Threads : Len(location[t]) <= 1
    /\ seen \in [Threads -> [head_size : Words, used : Words]]

\* BucketInner::new, in either build.
Init ==
    /\ overflow_checks \in BOOLEAN
    /\ blocks = <<>>
    /\ next_unused_slot = 0
    /\ handed = {}
    /\ readers = {}
    /\ writer = NoThread
    /\ pc = [t \in Threads |-> "idle"]
    /\ location = [t \in Threads |-> <<>>]
    /\ seen = [t \in Threads |-> NoSeen]

-----------------------------------------------------------------------------
\* The read-write lock around BucketInner.

Go(t, p) == pc' = [pc EXCEPT ![t] = p]

\* RwLock::read
ReadLock(t, from, to) ==
    /\ pc[t] = from
    /\ writer = NoThread
    /\ readers' = readers \cup {t}
    /\ Go(t, to)
    /\ UNCHANGED <<listVars, writer, location, seen>>

\* The read guard is dropped.
ReadUnlock(t, from, to) ==
    /\ pc[t] = from
    /\ readers' = readers \ {t}
    /\ Go(t, to)
    /\ location' = [location EXCEPT ![t] = <<>>]
    /\ UNCHANGED <<listVars, writer>>

\* RwLock::write: a writer first keeps new readers and other writers out ...
WriteClaim(t) ==
    /\ pc[t] = "write"
    /\ writer = NoThread
    /\ writer' = t
    /\ Go(t, "drain")
    /\ UNCHANGED <<listVars, readers, location, seen>>

\* ... then waits until the readers that are in have left.
WriteLock(t) ==
    /\ pc[t] = "drain"
    /\ readers = {}
    /\ Go(t, "recheck")
    /\ UNCHANGED <<listVars, readers, writer, location, seen>>

-----------------------------------------------------------------------------
\* BucketInner::next_insert_location on a list and a counter: the counter is
\* fetched and advanced, and t is given the slot if the block has it.
Offer(t, list, counter, hit, miss) ==
    IF list = <<>>
    THEN /\ next_unused_slot' = counter
         /\ Go(t, miss)
         /\ UNCHANGED <<handed, location>>
    ELSE /\ next_unused_slot' = (counter + 1) % U32
         /\ IF counter < Head(list)
            THEN LET l == slot_address(Head(list), counter)
                 IN  /\ handed' = handed \cup {l}
                     /\ location' = [location EXCEPT ![t] = <<l>>]
                     /\ Go(t, hit)
            ELSE Go(t, miss) /\ UNCHANGED <<handed, location>>

\* The calls that were given a slot or will be.
Inserting ==
    {t \in Threads : pc[t] \in {"read", "fast", "miss", "write", "drain",
                               "recheck", "expand"}}

\* Bucket::next_insert_location is called.
next_insert_location(t) ==
    /\ pc[t] = "idle"
    /\ Cardinality(handed) + Cardinality(Inserting) < MaxInserts
    /\ Len(blocks) < MaxBlocks
    /\ next_unused_slot < MaxCounter
    /\ Go(t, "read")
    /\ UNCHANGED <<listVars, readers, writer, location, seen>>

\* The fast path, under the read lock.
Fast(t) ==
    /\ pc[t] = "fast"
    /\ Offer(t, blocks, next_unused_slot, "release", "miss")
    /\ UNCHANGED <<overflow_checks, blocks, readers, writer, seen>>

\* Fault variant: the read guard is still alive when the write lock is taken.
Miss_keeps_guard(t) ==
    /\ pc[t] = "miss"
    /\ Go(t, "write")
    /\ UNCHANGED <<listVars, readers, writer, location, seen>>

\* Fault variant: a call that misses may try the read path again first.
Miss_retries(t) ==
    /\ ReadUnlock(t, "miss", "write") \/ ReadUnlock(t, "miss", "read")
    /\ UNCHANGED seen

\* mem::drop(inner_read), before next_insert_location_slow.
Miss(t) == ReadUnlock(t, "miss", "write") /\ UNCHANGED seen

\* Fault variant: the slow path expands without looking again.
Recheck_not(t) ==
    /\ pc[t] = "recheck"
    /\ Go(t, "expand")
    /\ UNCHANGED <<listVars, readers, writer, location, seen>>

\* next_insert_location_slow looks again under the write lock: another thread
\* may have added a block meanwhile.
Recheck(t) ==
    /\ pc[t] = "recheck"
    /\ Offer(t, blocks, next_unused_slot, "write_release", "expand")
    /\ UNCHANGED <<overflow_checks, blocks, readers, writer, seen>>

\* A debug build panics when it doubles the length of the largest block.
ExpandOverflows == overflow_checks /\ doubling_overflows(head_len(blocks))

\* Fault variant: the counter goes on where it was.
expand_no_reset(t) ==
    /\ pc[t] = "expand"
    /\ ~ExpandOverflows
    /\ blocks' = <<block_size(blocks)>> \o blocks
    /\ Offer(t, blocks', next_unused_slot, "write_release", "write_release")
    /\ UNCHANGED <<overflow_checks, readers, writer, seen>>

\* BucketInner::expand, then the unwrapped next_insert_location, which panics if
\* the new block has no slot.
expand(t) ==
    /\ pc[t] = "expand"
    /\ ~ExpandOverflows
    /\ blocks' = <<block_size(blocks)>> \o blocks
    /\ Offer(t, blocks', 0, "write_release", "write_release")
    /\ UNCHANGED <<overflow_checks, readers, writer, seen>>

\* The doubling panics before anything is changed.
ExpandPanics(t) ==
    /\ pc[t] = "expand"
    /\ ExpandOverflows
    /\ Go(t, "write_release")
    /\ UNCHANGED <<listVars, readers, writer, location, seen>>

\* The write guard is dropped on return, and when a panic unwinds.
WriteRelease(t) ==
    /\ pc[t] = "write_release"
    /\ writer' = NoThread
    /\ Go(t, "idle")
    /\ location' = [location EXCEPT ![t] = <<>>]
    /\ UNCHANGED <<listVars, readers, seen>>

-----------------------------------------------------------------------------
\* Bucket::capacity is called.
capacity(t) ==
    /\ pc[t] = "idle"
    /\ Go(t, "cap_read")
    /\ UNCHANGED <<listVars, readers, writer, location, seen>>

\* Under the read lock: the head's length and one relaxed load.
CapLoad(t) ==
    /\ pc[t] = "cap_load"
    /\ seen' = [seen EXCEPT ![t] = [head_size |-> head_len(blocks),
                                   used |-> next_unused_slot]]
    /\ Go(t, "cap_release")
    /\ UNCHANGED <<listVars, readers, writer, location>>

\* The guard is dropped, then touched and allocated are computed from seen: the
\* call returns, panics, or does not leave the loop.
CapRelease(t) ==
    /\ ReadUnlock(t, "cap_release",
                  IF doubling_overflows(seen[t].head_size) /\ ~overflow_checks
                  THEN "cap_loop" ELSE "idle")
    /\ seen' = [seen EXCEPT ![t] = NoSeen]

\* allocated_capacity, the second result of capacity.
allocated_capacity(c) == head_size_to_total_size(c.head_size)

\* touched_capacity, the first: head_size - used overflows when the counter has
\* run past the block.
touched_capacity(c) == touched_size(c.head_size, c.used)

\* With overflow checks the inner subtraction panics instead.
capacity_panics(c) ==
    overflow_checks /\ (c.used > c.head_size \/ doubling_overflows(c.head_size))

-----------------------------------------------------------------------------
\* What a thread does that waits for another to leave the lock.
Acquire(t) ==
    \/ ReadLock(t, "read", "fast")
    \/ WriteClaim(t)
    \/ ReadLock(t, "cap_read", "cap_load")

\* The steps of a call that has begun.
Step(t) ==
    \/ Acquire(t) \/ WriteLock(t)
    \/ Fast(t)
    \/ ReadUnlock(t, "release", "idle") /\ UNCHANGED seen
    \/ Miss(t) \/ Recheck(t) \/ expand(t) \/ ExpandPanics(t) \/ WriteRelease(t)
    \/ CapLoad(t) \/ CapRelease(t)

Next == \E t \in Threads : Step(t) \/ next_insert_location(t) \/ capacity(t)

Spec == Init /\ [][Next]_vars

\* Running threads go on, and the task-fair lock lets a waiting thread in even
\* when others come and go.
FairSpec ==
    Spec /\ \A t \in Threads : WF_vars(Step(t)) /\ SF_vars(Acquire(t))

-----------------------------------------------------------------------------
SlotsOf(len) == {<<len, p>> : p \in 0 .. (len - 1)}

\* Every block but the head is handed out to the last slot, and of the head
\* the first next_unused_slot slots, as scramble_slot places them.  So no slot
\* is leaked by the race to expand, and the iterators, which visit whole older
\* blocks and the head up to the counter (GenBucketIter), miss no element.
HandedExactly ==
    handed = (UNION {SlotsOf(blocks[i]) : i \in 2 .. Len(blocks)}) \cup
             {slot_address(head_len(blocks), s) :
                  s \in 0 .. (Lesser(next_unused_slot, head_len(blocks)) - 1)}

\* No two calls of next_insert_location are given the same slot, and a slot is
\* inside its block (Block::insert writes to it without another check).
NeverHandedTwice ==
    [][\A t \in Threads : location'[t] # location[t] /\ location'[t] # <<>> =>
           /\ location'[t][1] \notin handed
           /\ location'[t][1][1] = head_len(blocks')
           /\ location'[t][1][2] < head_len(blocks')]_vars

\* The block without slots that a release build puts in front of the largest.
HeadIsEmpty == blocks # <<>> /\ Head(blocks) = 0

\* No insertion has failed for want of a larger block, nor will the next.
CanGrow == ~ExpandOverflows /\ ~HeadIsEmpty

\* The counter passes the end of the head by no more than one for each call
\* that missed and one for the call that looks again, so it does not wrap, as
\* long as expanding resets it.
OvershootBounded ==
    CanGrow => next_unused_slot <= head_len(blocks)
        + Cardinality({t \in Threads : pc[t] \in {"miss", "write", "drain"}})
        + 2 * Cardinality({t \in Threads : pc[t] \in {"recheck", "expand"}})

\* The slots of all blocks that exist.
Allocated == Cardinality(UNION {SlotsOf(blocks[i]) : i \in 1 .. Len(blocks)})

\* The allocated capacity, which capacity computes from the head alone, is the
\* sum over the blocks that exist, unless the head is empty, and what a call
\* returns is never more than that, however long ago it looked.
AllocatedIsLowerBound ==
    /\ ~HeadIsEmpty => head_size_to_total_size(head_len(blocks)) = Allocated
    /\ \A t \in Threads :
           pc[t] = "cap_release" => allocated_capacity(seen[t]) <= Allocated

\* "the actual capacity values may be larger (but not smaller) than those
\* returned by this method": the touched capacity a call of Bucket::capacity
\* returns is at most the number of slots insertions have been given.
TouchedIsLowerBound ==
    \A t \in Threads :
        pc[t] = "cap_release" /\ ~capacity_panics(seen[t])
            => touched_capacity(seen[t]) <= Cardinality(handed)

\* next_insert_location_slow unwraps what it gets after it has looked again or
\* expanded: as long as blocks can double there is a slot.
SlowPathFinds ==
    \A t \in Threads : pc[t] = "write_release" /\ CanGrow => location[t] # <<>>

\* Every call returns or panics: an insertion that misses gets through the write
\* lock, adds a block or uses another thread's, and leaves with a slot; a panic
\* on overflow lets go of the lock.  In a release build capacity does not return
\* once there is a block of the largest size (head_size_to_total_size).
CallsReturn ==
    \A t \in Threads : pc[t] # "idle" ~> pc[t] \in {"idle", "cap_loop"}
=============================================================================
