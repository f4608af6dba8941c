------------------------------ MODULE StoreIter -----------------------------
(***************************************************************************)
(* A store that is used by threads and, at moments when a caller has it to *)
(* itself, iterated over, looked into or dropped: iter_mut, into_iter and  *)
(* get_mut of src/src/lib.rs, src/src/iter.rs, and the drop of blocks and  *)
(* slots in src/src/block.rs.                                              *)
(*                                                                         *)
(* GenIter walks the buckets from the last to the first, GenBucketIter a   *)
(* bucket's blocks from the head on and a block's slots downwards.  Each   *)
(* level of their recursion is a step; nobody can interfere between them,  *)
(* but the caller may stop and drop the iterator after any element.        *)
(***************************************************************************)
EXTENDS Store, SequencesExt

VARIABLES
    owner,      \* who has the store: "shared", "iter_mut", "into_iter", "gone"
    iters,      \* the iterators of the buckets not yet finished
    running,    \* is a call of next running?
    yielded     \* the Ids yielded so far

iterVars == <<owner, iters, running, yielded>>
storeVars == vars
allVars == <<storeVars, iterVars>>

Live == {id \in Ids : lookup(id) # NoElement}

IterInit ==
    /\ Init
    /\ owner = "shared"
    /\ iters = <<>>
    /\ running = FALSE
    /\ yielded = <<>>

\* The borrow checker's condition for &mut self and self: no call is running
\* (and no guard is alive).
Exclusive == owner = "shared" /\ \A t \in Threads : pc[t] = "idle"

-----------------------------------------------------------------------------
\* GenBucketIter::new
bucket_iter(b) ==
    [bucket    |-> b,
     list      |-> blocks[b],
     last_slot |-> Min({next_unused_slot[b], head_len(blocks[b])})]

\* IterMut::new and IntoIter::new
Iterate(kind) ==
    /\ Exclusive
    /\ owner' = kind
    /\ iters' = [i \in 1 .. BUCKET_COUNT |-> bucket_iter(i - 1)]
    /\ yielded' = <<>>
    /\ UNCHANGED <<storeVars, running>>

\* The elements Slot::drop drops when the blocks of a list go.
DropBlocks(b, lens) ==
    {id \in Live : id.slot[1] = b /\ id.slot[2] \in lens}

\* What is left of the store when the elements in ids have been dropped or
\* moved out: Header::reset keeps the ordinal.
Release(ids) ==
    /\ slots' = [s \in DOMAIN slots |->
                    IF \E id \in ids : id.slot = s
                    THEN [slots[s] EXCEPT !.element = NoElement]
                    ELSE slots[s]]
    /\ moved' = [id \in Ids |-> IF id \in ids THEN moved[id] + 1 ELSE moved[id]]

restVars == <<shape, erasures, pc, slot, bucket, sum, peak>>

-----------------------------------------------------------------------------
\* next is called.
next ==
    /\ owner \in {"iter_mut", "into_iter"}
    /\ ~running
    /\ running' = TRUE
    /\ UNCHANGED <<storeVars, owner, iters, yielded>>

\* GenIter::next without a bucket left returns None, now and ever after.
NoneLeft ==
    /\ running
    /\ iters = <<>>
    /\ running' = FALSE
    /\ UNCHANGED <<storeVars, owner, iters, yielded>>

current == Last(iters)

Advance(i) == iters' = [iters EXCEPT ![Len(iters)] = i]

\* Fault variant: the finished bucket stays.
PopBucket_keeps ==
    /\ running
    /\ iters # <<>>
    /\ current.last_slot = 0
    /\ current.list = <<>>
    /\ UNCHANGED allVars

\* GenBucketIter::next returned None: GenIter::next pops the bucket.
PopBucket ==
    /\ running
    /\ iters # <<>>
    /\ current.last_slot = 0
    /\ current.list = <<>>
    /\ iters' = Front(iters)
    /\ UNCHANGED <<storeVars, owner, running, yielded>>

\* Fault variant: the next block is walked from where the counter stood.
next_last_slot_counter(list) ==
    Min({next_unused_slot[current.bucket], head_len(list)})

\* Where GenBucketIter starts in the block that follows.
next_last_slot(list) == head_len(list)

\* The block is done: go to the next one.  into_next drops the old block.
NextBlock ==
    /\ running
    /\ iters # <<>>
    /\ current.last_slot = 0
    /\ current.list # <<>>
    /\ LET rest == Tail(current.list)
       IN  Advance([current EXCEPT !.list = rest,
                                   !.last_slot = next_last_slot(rest)])
    /\ IF owner = "into_iter"
       THEN Release(DropBlocks(current.bucket, {Head(current.list)}))
       ELSE UNCHANGED <<slots, moved>>
    /\ UNCHANGED <<restVars, out, owner, running, yielded>>

\* Fault variant: the element is read out but the header not reset.
take_without_reset(id) ==
    /\ moved' = [moved EXCEPT ![id] = @ + 1]
    /\ UNCHANGED slots

\* Block::take: the header is reset and the element moved out.
take(id) == Release({id})

\* The Id Block::slot_contents and Block::take make for an occupied slot.
slot_contents(s) == [slot |-> s, ordinal |-> slots[s].id]

\* The next slot down: Block::take or Block::slot_contents.
NextSlot ==
    /\ running
    /\ iters # <<>>
    /\ current.last_slot > 0
    /\ LET last == current.last_slot - 1
           s    == <<current.bucket>> \o slot_address(Head(current.list), last)
           id   == slot_contents(s)
       IN  /\ Advance([current EXCEPT !.last_slot = last])
           /\ \/ /\ s \in Occupied
                 /\ yielded' = Append(yielded, id)
                 /\ Answer(id, slots[s].element)
                 /\ running' = FALSE
                 /\ IF owner = "into_iter" THEN take(id)
                                           ELSE UNCHANGED <<slots, moved>>
              \/ /\ s \notin Occupied
                 /\ UNCHANGED <<slots, moved, out, running, yielded>>
    /\ UNCHANGED <<restVars, owner>>

\* Fault variant: the blocks behind the current one are forgotten.
bucket_size_hint_block(it) == it.last_slot

\* GenBucketIter::size_hint: the upper bound.
bucket_size_hint(it) == touched_size(head_len(it.list), it.last_slot)

\* GenIter::size_hint adds them up.
size_hint == SumFunction([i \in DOMAIN iters |-> bucket_size_hint(iters[i])])

\* The iterator is dropped, finished or not.  IterMut gives the store back;
\* IntoIter drops the blocks it still has.
DropIter ==
    /\ ~running
    /\ \/ /\ owner = "iter_mut"
          /\ owner' = "shared"
          /\ UNCHANGED <<slots, moved>>
       \/ /\ owner = "into_iter"
          /\ owner' = "gone"
          /\ Release(UNION {DropBlocks(iters[i].bucket,
                                             ToSet(iters[i].list)) :
                            i \in DOMAIN iters})
    /\ iters' = <<>>
    /\ yielded' = <<>>
    /\ UNCHANGED <<restVars, out, running>>

\* The store is dropped without iterating: every bucket drops its blocks.
DropStore ==
    /\ Exclusive
    /\ owner' = "gone"
    /\ Release(Live)
    /\ UNCHANGED <<restVars, out, iters, running, yielded>>

\* Fault variant: get_mut_unchecked's access in place of get_exclusive's.
get_mut_any(id) ==
    /\ Exclusive
    /\ Answer(id, slots[id.slot].element)
    /\ UNCHANGED <<restVars, slots, moved, iterVars>>

\* Block::get_exclusive compares the ordinal and does not look at the rest of
\* the header.
get_mut(id) ==
    /\ Exclusive
    /\ Answer(id, lookup(id))
    /\ UNCHANGED <<restVars, slots, moved, iterVars>>

-----------------------------------------------------------------------------
IterNext ==
    \/ owner = "shared" /\ Next /\ UNCHANGED iterVars
    \/ Iterate("iter_mut") \/ Iterate("into_iter")
    \/ next \/ NoneLeft \/ PopBucket \/ NextBlock \/ NextSlot
    \/ DropIter \/ DropStore
    \/ \E id \in Ids : get_mut(id)

IterSpec == IterInit /\ [][IterNext]_allVars

\* A running next goes on.
FairIterSpec ==
    /\ IterSpec
    /\ WF_allVars(NoneLeft \/ PopBucket \/ NextBlock \/ NextSlot)

\* The map the store implements until it, or the iterator that owns it, goes.
IterMap == INSTANCE StoreMap WITH elements <- [id \in Ids |-> lookup(id)],
                                  alive <- owner # "gone"

-----------------------------------------------------------------------------
\* The operations on an exclusive store are operations on the same map: get_mut
\* and iter_mut answer what read would, into_iter takes each element once, and
\* nothing is lost before the drop and nothing answered after it.
ImplementsIterMap == IterMap!Spec

\* The Ids of the slots a bucket's iterator has still to visit.
Ahead(it) ==
    {id \in Live :
        /\ id.slot[1] = it.bucket
        /\ id.slot[2] \in ToSet(it.list)
        /\ id.slot[2] = head_len(it.list) =>
               \E n \in 0 .. (it.last_slot - 1) :
                   <<id.slot[2], id.slot[3]>> = slot_address(id.slot[2], n)}

\* An iteration meets every element exactly once: what was yielded and what is
\* ahead are disjoint, nothing is yielded twice, and of a store that is only
\* borrowed nothing is missing.  Of a store that is consumed, no element is left
\* behind in a slot that was passed.  No slot past the end of a block is looked
\* at.
IterationExact ==
    owner \in {"iter_mut", "into_iter"} =>
        LET ahead == UNION {Ahead(iters[i]) : i \in DOMAIN iters}
        IN  /\ IsInjective(yielded)
            /\ ToSet(yielded) \cap ahead = {}
            /\ owner = "iter_mut" => Live = ToSet(yielded) \cup ahead
            /\ owner = "into_iter" => Live = ahead
            /\ \A i \in DOMAIN iters :
                   iters[i].last_slot <= head_len(iters[i].list)

\* Whether an element leaves by remove, by into_iter or with the block it is
\* in, it leaves once; and when the store is gone every element has left.
DroppedOnce ==
    /\ \A id \in Ids : moved[id] = IF id \in Live THEN 0 ELSE 1
    /\ owner = "gone" => Live = {}

\* The upper bound the iterator gives is never below what it still yields, at
\* any moment a caller can ask, in whatever block and bucket it stands.
SizeHintIsUpperBound ==
    Cardinality(UNION {Ahead(iters[i]) : i \in DOMAIN iters}) <= size_hint

\* A call of next returns, however many empty slots and buckets are ahead.
NextReturns == running ~> ~running
=============================================================================
