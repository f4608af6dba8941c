------------------------------- MODULE Store --------------------------------
(***************************************************************************)
(* The whole store under concurrent use (src/src/lib.rs): buckets that     *)
(* hand out fresh slots, the queue of erased slots, and the headers and    *)
(* elements of all slots.                                                  *)
(*                                                                         *)
(* The parts work as the modules about them show: a header operation and   *)
(* the element access that goes with it is one step, as Slot implements    *)
(* ElementLock, and what next_insert_location does under one lock of its   *)
(* bucket.  Left to this module is what happens to a slot, and to the      *)
(* counter that capacity reads, between those steps.  Guards delay a       *)
(* removal and are not modelled.  Sums wrap as in a release build (where   *)
(* they would, a debug build panics and returns nothing), and a call that  *)
(* Bucket shows to panic or spin at the largest block goes no further.     *)
(***************************************************************************)
EXTENDS BlockList, FiniteSets

CONSTANTS Threads,          \* the threads that share the store
          BUCKET_COUNT,     \* the number of buckets
          RESERVED_ID,      \* the ordinal that is never given out
          Elements,         \* the elements inserted
          MaxInserts,       \* bound: calls of insert
          NoElement,        \* the slot is unoccupied; None as an answer
          NoSlot            \* the thread owns no slot

ASSUME StoreThreadsAssumption == IsFiniteSet(Threads)
ASSUME BucketsAssumption == BUCKET_COUNT \in Nat \ {0}
ASSUME ReservedIdAssumption == RESERVED_ID \in Nat \ {0}
ASSUME ElementsAssumption == NoElement \notin Elements
ASSUME NoSlotAssumption == NoSlot \notin Nat \X Nat \X Nat

VARIABLES
    blocks,             \* each bucket's list of blocks
    next_unused_slot,   \* each bucket's counter
    slots,              \* the allocated slots: ordinal and element of each
    erasures,           \* the queue of slots ready for insertion
    pc,                 \* where each thread is
    slot,               \* the slot each running call has taken
    bucket,             \* the bucket whose head a running call found used up
    sum,                \* the totals of each running capacity call
    out,                \* the last answer: for which Id, and which element
    moved,              \* Id -> how often its element was moved out or dropped
    peak                \* the largest number of elements contained so far

shape == <<blocks, next_unused_slot>>
vars == <<shape, slots, erasures, pc, slot, bucket, sum, out, moved, peak>>

Buckets == 0 .. (BUCKET_COUNT - 1)

\* The Ids given out: a slot and an ordinal.
Ids == DOMAIN moved

\* The totals of a capacity call and the bucket it asks next; since and past
\* say what was there when it started and what it counted too much.
NoSum == [bucket |-> 0, touched |-> 0, allocated |-> 0, since |-> <<0, 0>>,
          past |-> 0]

\* RwStore::new
Init ==
    /\ blocks = [b \in Buckets |-> <<>>]
    /\ next_unused_slot = [b \in Buckets |-> 0]
    /\ slots = [s \in {} |-> [id |-> 0, element |-> NoElement]]
    /\ erasures = <<>>
    /\ pc = [t \in Threads |-> "idle"]
    /\ slot = [t \in Threads |-> NoSlot]
    /\ bucket = [t \in Threads |-> 0]
    /\ sum = [t \in Threads |-> NoSum]
    /\ out = [id |-> NoElement, element |-> NoElement]
    /\ moved = [i \in {} |-> 0]
    /\ peak = 0

-----------------------------------------------------------------------------
Go(t, p, s) ==
    /\ pc' = [pc EXCEPT ![t] = p]
    /\ slot' = [slot EXCEPT ![t] = s]

Answer(id, e) == out' = [id |-> id, element |-> e]

Occupied == {s \in DOMAIN slots : slots[s].element # NoElement}

\* Fault variant: the ordinal is not compared.
lookup_any(id) == slots[id.slot].element

\* The element an Id names, if its ordinal is still that of its slot.
lookup(id) == IF slots[id.slot].id = id.ordinal THEN slots[id.slot].element
                                                ELSE NoElement

-----------------------------------------------------------------------------
\* Inserting: pop an erased slot, or ask a bucket for a fresh one.

Inserting == {t \in Threads : pc[t] \in {"bucket", "slow", "insert"}}

\* Fault variant: the slot is used but stays in the queue.
pop_peek == erasures

\* What is left of the queue after ConcurrentQueue::pop.
pop == IF erasures = <<>> THEN <<>> ELSE Tail(erasures)

insert(t) ==
    /\ pc[t] = "idle"
    /\ Cardinality(Ids) + Cardinality(Inserting) < MaxInserts
    /\ IF erasures = <<>> THEN Go(t, "bucket", NoSlot)
                          ELSE Go(t, "insert", Head(erasures))
    /\ erasures' = pop
    /\ UNCHANGED <<shape, slots, bucket, sum, out, moved, peak>>

\* The slots Block::new puts into a block.
NewSlots(b, len) == {<<b, len, i>> : i \in 0 .. (len - 1)}

\* The buckets a thread may choose: the generator's state belongs to the thread
\* and is shared by all its stores, so any of them.
arbitrary_bucket_id == Buckets

\* The head has a slot that was not handed out.
room(b) == next_unused_slot[b] < head_len(blocks[b])

\* The next slot of the head is handed out, or the first one of a block that
\* is added.
HandOut(t, b) ==
    /\ LET len  == IF room(b) THEN head_len(blocks[b]) ELSE block_size(blocks[b])
           next == IF room(b) THEN next_unused_slot[b] ELSE 0
           new  == IF room(b) THEN {} ELSE NewSlots(b, len)
       IN  /\ blocks' = IF room(b) THEN blocks
                                   ELSE [blocks EXCEPT ![b] = <<len>> \o @]
           /\ next_unused_slot' = [next_unused_slot EXCEPT ![b] = next + 1]
           /\ slots' = [s \in DOMAIN slots \cup new |->
                           IF s \in new THEN [id |-> 0, element |-> NoElement]
                                        ELSE slots[s]]
           /\ Go(t, "insert", <<b>> \o slot_address(len, next))
    /\ bucket' = [bucket EXCEPT ![t] = 0]
    /\ UNCHANGED <<erasures, sum, out, moved, peak>>

\* BucketInner::next_insert_location advances the counter before it looks, but
\* not that of a bucket without a block.
counter_after_miss(b) == IF blocks[b] = <<>> THEN next_unused_slot[b]
                                             ELSE next_unused_slot[b] + 1

\* Bucket::next_insert_location under the read lock.
next_insert_location(t, b) ==
    /\ pc[t] = "bucket"
    /\ IF room(b)
       THEN HandOut(t, b)
       ELSE /\ next_unused_slot' = [next_unused_slot EXCEPT
                                       ![b] = counter_after_miss(b)]
            /\ bucket' = [bucket EXCEPT ![t] = b]
            /\ Go(t, "slow", NoSlot)
            /\ UNCHANGED <<blocks, slots, erasures, sum, out, moved, peak>>

\* Bucket::next_insert_location_slow under the write lock: the second look, and
\* expand if it fails too.
next_insert_location_slow(t) ==
    /\ pc[t] = "slow"
    /\ room(bucket[t]) \/ ~doubling_overflows(head_len(blocks[bucket[t]]))
    /\ HandOut(t, bucket[t])

\* Block::insert: the element is written, the header occupied, the Id made.
Block_insert(t, e) ==
    /\ pc[t] = "insert"
    /\ LET id == [slot |-> slot[t], ordinal |-> slots[slot[t]].id]
       IN  /\ slots' = [slots EXCEPT ![slot[t]].element = e]
           /\ moved' = [i \in Ids \cup {id} |-> IF i = id THEN 0 ELSE moved[i]]
           /\ Answer(id, e)
    /\ peak' = IF Cardinality(Occupied) < peak THEN peak
                                               ELSE Cardinality(Occupied) + 1
    /\ Go(t, "idle", NoSlot)
    /\ UNCHANGED <<shape, erasures, bucket, sum>>

-----------------------------------------------------------------------------
\* read, write, remove and remove_locked.

\* read and write, and the access to the element through the guard.
access(t, id) ==
    /\ pc[t] = "idle"
    /\ Answer(id, lookup(id))
    /\ UNCHANGED <<shape, slots, erasures, pc, slot, bucket, sum, moved, peak>>

may_reuse(ordinal) == ordinal + 1 # RESERVED_ID

\* Fault variant: the slot keeps the ordinal of the removed element.
erased_same_ordinal(ordinal) == [id |-> ordinal, element |-> NoElement]

\* The slot Header::remove and Header::remove_locked leave behind.
erased(ordinal) == [id |-> ordinal + 1, element |-> NoElement]

remove(t, id) ==
    /\ pc[t] = "idle"
    /\ Answer(id, lookup(id))
    /\ IF lookup(id) = NoElement
       THEN UNCHANGED <<slots, moved, pc, slot>>
       ELSE /\ slots' = [slots EXCEPT ![id.slot] = erased(id.ordinal)]
            /\ moved' = [moved EXCEPT ![id] = @ + 1]
            /\ IF may_reuse(id.ordinal) THEN Go(t, "push", id.slot)
                                        ELSE UNCHANGED <<pc, slot>>
    /\ UNCHANGED <<shape, erasures, bucket, sum, peak>>

push_erasure(t) ==
    /\ pc[t] = "push"
    /\ erasures' = Append(erasures, slot[t])
    /\ Go(t, "idle", NoSlot)
    /\ UNCHANGED <<shape, slots, bucket, sum, out, moved, peak>>

-----------------------------------------------------------------------------
\* capacity: the buckets are asked one after the other.

bucket_touched(b) == touched_size(head_len(blocks[b]), next_unused_slot[b])
bucket_allocated(b) == head_size_to_total_size(head_len(blocks[b]))

\* How many slots of the head are handed out, and how far calls that found none
\* have pushed the counter past its end.
taken(b) == Lesser(next_unused_slot[b], head_len(blocks[b]))
overshoot(b) == next_unused_slot[b] - taken(b)

\* The slots the buckets have handed out.
Handed == {s \in DOMAIN slots :
              \/ s[2] # head_len(blocks[s[1]])
              \/ \E n \in 0 .. (taken(s[1]) - 1) :
                     <<s[2], s[3]>> = slot_address(s[2], n)}

\* The touched and the allocated slots, counted.
Counted == <<Cardinality(Handed), Cardinality(DOMAIN slots)>>

capacity(t) ==
    /\ pc[t] = "idle"
    /\ sum' = [sum EXCEPT ![t] = [NoSum EXCEPT !.since = Counted]]
    /\ Go(t, "capacity", NoSlot)
    /\ UNCHANGED <<shape, slots, erasures, bucket, out, moved, peak>>

\* Fault variant: the loop over the buckets ends one too early.
more_buckets_less(n) == n + 1 < BUCKET_COUNT

more_buckets(n) == n < BUCKET_COUNT

CapacityOfBucket(t) ==
    /\ pc[t] = "capacity"
    /\ LET b == sum[t].bucket
       IN  IF more_buckets(b)
           THEN /\ ~doubling_overflows(head_len(blocks[b]))
                /\ sum' = [sum EXCEPT
                              ![t].bucket = @ + 1,
                              ![t].touched = (@ + bucket_touched(b)) % U32,
                              ![t].allocated = (@ + bucket_allocated(b)) % U32,
                              ![t].past = @ + overshoot(b)]
                /\ UNCHANGED pc
           ELSE /\ pc' = [pc EXCEPT ![t] = "idle"]
                /\ sum' = [sum EXCEPT ![t] = NoSum]
    /\ UNCHANGED <<shape, slots, erasures, slot, bucket, out, moved, peak>>

-----------------------------------------------------------------------------
Next ==
    \E t \in Threads :
        \/ insert(t)
        \/ \E b \in arbitrary_bucket_id : next_insert_location(t, b)
        \/ next_insert_location_slow(t)
        \/ \E e \in Elements : Block_insert(t, e)
        \/ \E id \in Ids : access(t, id) \/ remove(t, id)
        \/ push_erasure(t)
        \/ capacity(t) \/ CapacityOfBucket(t)

Spec == Init /\ [][Next]_vars

\* The map this store implements; its users cannot drop it while they have it.
Map == INSTANCE StoreMap WITH elements <- [id \in Ids |-> lookup(id)],
                              alive <- TRUE

-----------------------------------------------------------------------------
\* The store is a map from Ids to elements: every answer is the one the map
\* gives for that Id, an Id is never returned twice, and no
\* operation on one Id disturbs what another names.
ImplementsMap == Map!Spec

\* How many parties have slot s: an element in it, its places in the queue, the
\* threads that insert into it or have emptied it, and its retirement.
Owners(s) ==
    (IF s \in Occupied THEN 1 ELSE 0)
    + Cardinality({i \in 1 .. Len(erasures) : erasures[i] = s})
    + Cardinality({t \in Threads : slot[t] = s})
    + (IF slots[s].id = RESERVED_ID THEN 1 ELSE 0)

\* Every slot that was handed out has exactly one owner on its way between
\* bucket, element, remover and queue, so none is lost and no two insertions
\* meet in one; a slot that was not handed out has none.
SlotsConserved ==
    \A s \in DOMAIN slots : Owners(s) = IF s \in Handed THEN 1 ELSE 0

\* An element is moved out by at most one removal, and is in the store exactly
\* as long as none has: racing removals never get it twice (Block::remove reads
\* the cell without a check).
MovedOnce ==
    \A id \in Ids : moved[id] = IF lookup(id) = NoElement THEN 1 ELSE 0

\* A slot whose ordinal is that of an Id in circulation is occupied.  The lock
\* operations require it of their callers, and get_exclusive relies on it when
\* it hands out a reference after comparing ordinals alone.
MatchMeansOccupied ==
    \A id \in Ids : slots[id.slot].id = id.ordinal => id.slot \in Occupied

\* capacity adds up buckets at different moments; the allocated total still lies
\* between the allocated capacities at its call and at its return.  So does the
\* touched total, but for what the counters it has read were past the ends of
\* the heads, which capacity does not clamp (Bucket's TouchedIsLowerBound): it is
\* never too small, and too large by at most one per bucket and other thread.
CapacityWithinCall ==
    [][\A t \in Threads :
          pc[t] = "capacity" /\ pc'[t] = "idle" =>
              LET touched == sum[t].touched - sum[t].past
              IN  /\ sum[t].since[1] <= touched /\ touched <= Counted[1]
                  /\ sum[t].since[2] <= sum[t].allocated
                  /\ sum[t].allocated <= Counted[2]
                  /\ sum[t].past <= BUCKET_COUNT * (Cardinality(Threads) - 1)]_vars

\* "The touched capacity is equal to the largest number of elements ever
\* contained in this store at the same time": when no call is running, the
\* number of slots handed out is the peak of the number of elements.
TouchedIsPeak ==
    (\A t \in Threads : pc[t] = "idle") => Counted[1] = peak
=============================================================================
