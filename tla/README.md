# A TLA+ model of read-write-store

`read-write-store` is a concurrent, unordered collection. Inserting an element
returns an Id; the Id is used to read-lock, write-lock or remove the element from
any thread. This directory holds TLA+ models of its concurrent core, TLC
configurations that check them on small instances, and TLAPS proofs that lift
their safety results, and the refinements of the two abstract specifications, to
every instance. Only what is about the bits of the header word, and liveness,
stays with TLC.

## The system

| Part | State | Operations | Hard because |
| --- | --- | --- | --- |
| Header (`header.rs`) | one atomic word per slot: notification bit, reader bits, ordinal | `lock_read`, `unlock_read`, `lock_write`, `unlock_write`, `occupy`, `remove`, `remove_locked`, and the blocking loop `block` | every operation is a sequence of loads and (weak) compare-exchanges that others can overtake; waiting threads are known only through one bit |
| Block and slot (`block.rs`) | an element cell beside each header | `insert`, `remove`, `remove_locked`, guard access, `scramble_slot` | the cell is touched without synchronisation of its own |
| Park (`park.rs`) | parking_lot's queue of threads per address | `park` with a closure run under the queue's mutex, `unpark` (all) | the closure, the time-out and the wake-up race |
| Guards (`lock.rs`) | none, a guard is an Id | drop unlocks, `forget` does not | a guard's Id must stay valid without a check |
| Bucket (`bucket.rs`) | list of blocks of doubling length, slot counter, read-write lock | `next_insert_location`, `expand`, `capacity` | the counter is advanced past the block's end by any number of threads that then race to expand |
| Store (`lib.rs`) | 16 buckets, queue of erased slots | `insert`, `read`, `write`, `remove`, `remove_locked`, `capacity` | a slot moves between header, remover, queue and inserter without a lock |
| Iterators (`iter.rs`) | position in the block list | `next`, drop | exclusive access; must visit what the counter and the headers say |
| Id, RwStoreId (`id.rs`, `rwstore_id.rs`) | an Id is an address, an ordinal and, in debug builds, the store's id; a global counter of stores | `generate`, `assert_native_id` | Ids outlive elements and stores, and addresses come back |
| Timeout, wrappers | | | |

An insertion takes a slot from the erasure queue or from a pseudo-randomly
chosen bucket, writes the element and occupies the header. A lock call compares
the Id's ordinal with the header's, changes the reader bits, or parks on the
header's address. Guards unlock on drop and wake the waiters if the notification
bit is cleared. A removal exchanges the header for the next ordinal, moves the
element out, and puts the slot on the queue unless its ordinals have run out.

What makes the parts correct:

- slot: one writer or many readers of the memory; a guard's element stays in
  place; no wake-up is lost; an Id never names a later element; "absent" and
  "timed out" are only answered when true; every element is dropped once;
- bucket: every slot is handed out exactly once, none is leaked, calls return,
  the allocated capacity is a lower bound (the touched one is not, see Findings);
- store: it is a map from Ids to elements; slots travel between buckets,
  removals, the queue and insertions without being lost or shared; a capacity
  lies between those at its call and at its return, but for the excess of the
  touched one that a bucket reports while a block is about to be added;
- memory: accesses to an element are ordered by the header's and the queue's
  release and acquire operations;
- several stores: a store acts on its own slots only, whatever Ids it is given;
- iterators and drop: an iteration meets every element once, and every element
  leaves the store once.

`PROJECT.json` lists the components, the hazards with the line each one bites
at, and for each definition the source lines it models.

## Modules

| Module | Models |
| --- | --- |
| `HeaderState` | the state word as a record of its three fields, with the bit helpers of `header.rs` under their own names |
| `Slot` | one slot shared by threads: header, cell, parking queue and guards |
| `ElementLock` | what a slot promises: elements under fresh ordinals, guarded by an atomic read-write lock |
| `HeaderBits` | the state word as a machine word, with the bit helpers as written and what the operations do with them |
| `MemoryOrder` | `Slot` with the happens-before order its atomic operations bring about |
| `SlotExclusive` | `Slot` to the end of its life: `take`, `Slot::drop` and leaked guards |
| `HeaderWord` | the header of `SlotExclusive` as a machine word, shown to implement `HeaderBits` |
| `BlockList` | the pure part of a bucket: block lengths, slot positions, totals |
| `Bucket` | one bucket: block list, counter, read-write lock, capacity |
| `Store` | several buckets, all slots, the erasure queue; built on the results about `Slot` and `Bucket` |
| `StoreMap` | what the store promises: a map from Ids to elements, until it is dropped, once |
| `StoreIter` | `Store` with exclusive use: `iter_mut`, `into_iter`, `get_mut`, drop |
| `NativeIds` | several stores, `RwStoreId` and `assert_native_id` |
| `SlotProofs` | inductive invariant and theorems about `Slot` |
| `SlotExclusiveProofs` | the same about `SlotExclusive`, on top of `SlotProofs` |
| `MemoryOrderProofs` | the same about `MemoryOrder`, on top of `SlotProofs` |
| `BlockListProofs` | lemmas about block lengths, totals and `scramble_slot` |
| `BucketProofs` | inductive invariant and theorems about `Bucket` |
| `StoreProofs` | inductive invariant and theorems about `Store` |
| `StoreIterProofs` | the same about `StoreIter`, on top of `StoreProofs` |
| `NativeIdsProofs` | inductive invariant and theorems about `NativeIds` |
| `MCSlot`, `MCSlotExclusive`, `MCMemoryOrder`, `MCBucket`, `MCStore`, `MCStoreIter`, `MCNativeIds` | model-checking instances, with symmetry where no liveness is checked |

### Slot

`state` is the header word, `cell` the memory of the element, named by the
ordinal its insertion receives. `vacant` says that the slot's address is on offer
to `insert`: as the bucket's next slot at first, from the erasure queue later.
`pc`, `call`, `current` and `result` are each thread's position, call, local copy
of the word and last answer. `parked` and `queue_lock` are the parking lot's
queue and mutex for this address. `read_locks` and `write_locks` are the live
guards.

Each access to the word is one action. The position a thread is at says which
access comes next:

| Position | Next step | Source |
| --- | --- | --- |
| `fill`, `occupy` | write the element; `fetch_or` | `Block::insert`, `Header::occupy` |
| `load`, `read_cas` | load; weak compare-exchange | `lock_read`, `lock_read_with_current` |
| `transition` | weak compare-exchange | `transition`, for `lock_write` and `remove` |
| `park`, `eval`, `mark` | take the mutex; run the closure; clear the bit and queue | `Park::park`, `lock_read_slow`, `transition_slow`, `block_result_to_park_result` |
| `parked` | woken by `unpark`, or the deadline passes | `block` |
| `unlock_cas`, `unpark` | weak compare-exchange; wake all | `unlock_read_with_current`, `Park::unpark` |
| `swap` | swap, after the element was moved out | `remove_locked` |
| `take`, `push` | move the element out; put the slot on offer | `Block::remove`, `push_erasure` |

A weak compare-exchange may fail although the value matches, so its failing
branch has no guard on the word. A relaxed load returns the word's current
value: on one location every load sees the latest exchange or an older value
that the following compare-exchange rejects; the order between the word and the
cell is the subject of `MemoryOrder`. The panic at the reader limit is a result of the call.

Bounds: `MaxGuards` read guards per thread, the constants `RESERVED_ID` and
`MAX_CONCURRENT_READS` in place of 2^32 - 1 and 2^31 - 2. Runs with two ordinals
retire the slot after its second element, so exhaustion happens; the safety run
has as many threads as it takes to exceed the reader limit.

### HeaderBits

One variable, the word, goes through everything the operations of `header.rs` do
to it, with the helpers written as there: masks, shifts, `|`, `&`, and reader
counting by adding to the upper half. `Slot` works on a record of the three
fields instead. `HeaderWord` extends `SlotExclusive`, which has every operation on a
header, and instantiates `HeaderBits` with the word that packs the record (`Word`):
`ImplementsWord` says that each step is one of the word's steps, and `PredicatesAgree` that every
helper that looks at the word finds what the fields say. Two bits for the ordinal
and two for the readers have every boundary of the 32 and 31 bits in the source:
the last ordinal, the last reader count, the pattern of the write lock beside
it, and a neighbour on either side of each field.

### MemoryOrder

`MemoryOrder` adds to the steps of `Slot` the order they bring about under the C++
and Rust memory model. `unseen[p]` is the set of accesses to the element (the last
write, each thread's last read) that `p` does not know of, where `p` is a thread, or
something through which order is passed: the header word, the parking lot's
mutex, the erasure queue, an Id handed to another thread. A Release operation
makes the word know what the thread knows, an Acquire the reverse. While a slot
is shared every change of the word is a read-modify-write, so release sequences
are never broken and one set for the word is enough. `Deref` and `DerefMut` become
steps of their own. The queue is crossbeam's `SegQueue`, whose push and pop
synchronise; that an Id reaches another thread through something that
synchronises (a channel, a join) is the caller's part, as safe Rust enforces.

### SlotExclusive

After the shared phase the slot is consumed by the owned iterator or dropped.
The step from one to the other waits until no call runs and no guard is
borrowed; `Leak` ends a guard's borrow without unlocking, as `mem::forget` does.
`gone` counts how often each element left and is read by no action. A leaked guard
leaves readers, or a writer, in the header for ever; `SafeWithLeaks` says that what
everybody else relies on holds all the same.

### Bucket

`blocks` holds the lengths of the blocks from the head on, `next_unused_slot`
the counter, `handed` the slots given to insertions, `readers` and `writer` the
lock around them. A slot is a pair of its block's length and its position after
`scramble_slot`. The fast path, the drop of its guard, the second look under the
write lock and the expansion are separate actions, as are the load and the
return of `capacity`. The lock is external: a writer first keeps newcomers out,
then waits for the readers that are in, which is the task-fair policy parking_lot
documents.

`U32` is the number of values of a `u32` and `overflow_checks` the build, chosen
at the start: with it (debug) overflow panics, without it (release) arithmetic
wraps. Panics are steps: at the doubling in `expand` (`ExpandPanics`), and at the
unwrap after an expansion that has produced a block without slots. The write
guard is dropped as they unwind. A `capacity` that cannot leave its loop stays at
`cap_loop`.

`MaxInserts` bounds the slots handed out, `MaxBlocks` the blocks and `MaxCounter` the
counter before the last insertions begin. The counter overtakes the head by one
for each call that has missed and one for the second look (`OvershootBounded`),
and a small `U32` must leave room for them, as 2^32 does for any number of threads
a machine can have. With `U32` = 16 the largest block has 8 slots; `MaxCounter` = 10
lets insertions fail there again and again without reaching 16.

### Store and StoreIter

`Store` takes as one step what the other modules show to act as one: a header
operation with the element access that belongs to it (`Slot` implements
`ElementLock`), and what `next_insert_location` does under one lock of its bucket.
That is two steps when the head is used up: the miss under the read lock, which
has advanced the counter, and the slow path under the write lock, which looks again
and expands. For the slots handed out the two could be one (`Bucket`), but
`capacity` takes the read lock between them and reads a counter that is past the
end of its head, so they are separate, and `bucket` remembers where the call has
missed. A bucket without blocks has no counter to advance (`counter_after_miss`).

What is left is what happens between those steps: an insertion pops the queue or
finds it empty, asks a bucket once or twice, then inserts; a removal empties the
slot, then pushes it; `capacity` asks the buckets one by one. `slots` holds the
ordinal and element of each allocated slot, `slot` the slot a running call owns.
`moved` counts how often the element of each Id was moved out or dropped, `peak` is
the largest number of elements contained so far, and `out` the last answer; in
`sum`, `since` is what was there when a capacity call began and `past` by how much
the counters it has read were past their heads. No action reads any of these,
but for the domain of `moved`, the Ids given out.
Guards only delay steps here and are left out. The bucket an insertion chooses is
arbitrary, because the generator's state is shared by all stores of a thread. Sums
wrap at `U32` as in a release build. A debug build panics where they would, in
`Bucket::capacity` also for a counter past the head; the calls that panic return
nothing, so `CapacityWithinCall` speaks of what release builds return.

`StoreMap` lets the store be dropped, once and as a whole (`alive`). The users of
`Store` share it and cannot drop it, so `ImplementsMap` has `alive` TRUE and a step
that loses elements is none of the map's. In `ImplementsIterMap` of `StoreIter` the
store is alive until it, or the iterator that owns it, is dropped.

`StoreIter` adds the operations that need the store exclusively. They start when
no call is running, which the borrow checker enforces. Each level of the
recursion of `GenIter::next` and `GenBucketIter::next` is an action: no bucket
left, bucket finished, next block, next slot. The caller may drop the iterator
between calls of `next`. `into_iter` empties slots as it goes and drops blocks
behind it; what is left is dropped with the iterator.

### NativeIds

Stores are created, dropped and given any Id that was ever returned. `owner` says
which store's blocks a slot lies in. Dropping a store returns its memory, and a
new block starts from ordinal 0 again, so only the store's id keeps an old Id from
naming a new element. The check is a guard of `write` and `remove`: a call it
refuses panics before anything is changed. In `remove_locked` the guard has been
forgotten by then, so the element stays locked. Release builds have no store ids,
and using an Id with another store is outside their contract.

### Fault variants

Definitions commented "Fault variant" are not part of any specification. Each
one is a plausible slip in the code (a dropped check, a swapped order, a missing
reset), and replaces the definition that follows it to show that a property
notices.

## Runs

| Run | Checks | Shows |
| --- | --- | --- |
| `slot_safety` | 6 invariants, 3 action properties, `ImplementsLock` | 3 threads, 2 ordinals, reader limit 2, all timeouts, self-blocking callers; refinement of `ElementLock`: about 820,000 states up to symmetry |
| `slot_live` | `NoForgottenWaiter`, `TimedCallsReturn`, `Settles` | 3 threads with 1 guard each and 1 ordinal: two of them may be queued at once, and one wake-up releases both to compete again; about 578,000 states |
| `slot_bit` | `NotificationBitExact`, violated | the comment on the notification bit does not hold after a time-out |
| `slot_exclusive` | `ElementsLeaveOnce`, `ReadersBalanced`, `SafeWithLeaks`, `ReentrantReadNeverBlocks`, `PredicatesAgree`, `ImplementsWord` | 2 threads with up to 2 read guards each, 3 ordinals, guards that are leaked; refinement of `HeaderBits`: about 168,000 states up to symmetry |
| `memory_order` | `AccessesPublished`, `ReuseAfterRemoval` | 2 threads, 2 ordinals: about 1,080,000 states up to symmetry |
| `memory_race` | `DataRaceFree`, violated | taking a lock does not acquire |
| `bucket_safety` | 4 invariants, `NeverHandedTwice`, `CallsReturn` | 3 threads, blocks of 1, 2, 4 and 8 slots, the largest, and insertions beyond, in both builds |
| `bucket_touched` | `TouchedIsLowerBound`, violated | `capacity` underflows while a block is about to be added |
| `store_safety` | `SlotsConserved`, `MatchMeansOccupied`, `CapacityWithinCall`, `ImplementsMap` | 2 threads, 2 buckets, 4 insertions, slots that are retired after 2 elements; refinement of `StoreMap`; about 1,075,000 states up to symmetry |
| `store_peak` | `TouchedIsPeak`, violated | the touched capacity is not the largest number of elements |
| `iter_safety` | 3 invariants, `ImplementsIterMap`, `NextReturns` | 5 insertions into 2 buckets (blocks of 1, 2 and 4), any removals, any partial iterations |
| `native_ids` | `NativeIdsResolve`, `QueuesOwnSlots`, `IdsUnique` | 3 stores, 2 of them at a time, memory for 2 slots of 2 elements |

Two threads are enough for a waiter and a lock holder, and the third in
`slot_safety` and `slot_live` adds a second waiter or the one who overtakes. In
`bucket_safety` two threads race to expand while the third uses the new block or
counts. In `store_safety` one thread inserts while the other removes or counts,
also between a miss and the slow path after it, slots are reused and run out of
ordinals, and both buckets grow. `iter_safety` needs one thread, as iterations
exclude the others; five insertions reach a partly used third block behind two
full ones.

Deadlock checking is off where the system may stop. In the slot and memory runs
a retired slot accepts nothing more, and callers may block themselves: a thread
that writes an element it is reading waits for itself. In `slot_exclusive` and
`iter_safety` a dropped store is the end, in `native_ids` all stores may have been
dropped. In `bucket_safety` all threads of a release build may be in the loop of
`capacity`. The other runs check it.

### Fairness

`FairSpec` of `Slot` assumes weak fairness of each thread's running call: threads
are scheduled, and a deadline passes. It does not assume that guards are dropped.
`NoForgottenWaiter` says what the code guarantees without further fairness: a
waiter is woken each time the element becomes free, but readers may overtake a
writer for ever. It is checked with three threads, where several waiters are woken
at once and all but one may have to queue again. `Settles` and `TimedCallsReturn`
therefore speak of behaviours in which callers stop making new calls, and
`Settles` also of callers that drop the guards they can (`GuardsAreDropped`, its
premise): then every call returns. `Upgrades` says whether callers may wait
without limit for a lock their own guards exclude, which no implementation could
serve: a waiting thread cannot drop its guard. In the safety runs they may, in
`slot_live` they do not, so there `Settles` has no exception and says that only
such callers bring about a deadlock. Its one ordinal leaves out a slot that is
filled again while threads wait for the old element; that these are woken is
`NoLostWakeup` of `slot_safety`.

`FairSpec` of `Bucket` adds strong fairness of entering the lock, as the lock is
task-fair. `FairIterSpec` only assumes that a running `next` goes on.

### Findings

- `slot_bit`: `header.rs` says the notification bit is unset only while threads
  are blocking. A waiter that times out leaves it unset. It is harmless (one
  needless `unpark_all`), but reasoning from the comment would be wrong.
- `bucket_touched`: `Bucket::capacity` subtracts the counter from the head's
  length. Between a failed fast path and the expansion the counter is larger. A
  debug build panics; a release build wraps and returns a touched capacity above
  the true, and even above the allocated one. The documentation of
  `RwStore::capacity` promises lower bounds that never decrease. `iter.rs`
  clamps the same value. `CapacityWithinCall` says how far the totals of `Store` can be
  off: by one for each bucket and other thread, and never downwards.
- `store_peak`: an insertion that starts while a removal has emptied its slot but
  not pushed it takes a fresh slot. Afterwards the touched capacity exceeds the
  largest number of elements ever contained, which the documentation says it
  equals. It remains an upper bound of that number.
- `memory_race`: the exchanges that take a lock are Release, the loads before them
  Relaxed, so nothing acquires what the last holder released, and the accesses of
  two holders in turn are a data race. `AccessesPublished` shows that the other
  half is in place: with AcqRel exchanges the race would be gone.

### Known limits

Reading the code for the models also showed what no run is about:

- A guard leaked with the safe `mem::forget` makes debug builds panic when the
  store is dropped or consumed (`Header::drop`, `Header::reset`). Elements are still
  dropped once (`ElementsLeaveOnce`), and nobody else is harmed (`SafeWithLeaks`).
- At a block of 2^31 slots `capacity` of a release build does not return
  (`cap_loop`, excluded in `CallsReturn`). In a debug build each failing insertion
  advances the counter, and 2^31 of them would wrap it and hand out slots again. The
  code does nothing against that. `MaxCounter` keeps the model below it, so the
  properties of `Bucket` and their proofs hold up to the wrap and not beyond.
- 16 buckets can have more slots together than a `u32` counts, and then the sums
  in `RwStore::capacity` overflow. `CapacityWithinCallHolds` excludes this (`FitsU32`).
  Short of it the allocated total is right, and the touched total is right except for
  the counters past their heads of `bucket_touched`.
- `GenBucketIter::next` calls itself for each slot that is empty, and for each block
  (`iter.rs`, line 211), up to 2^31 times in a row. `NextReturns` shows that the
  recursion ends, not that the stack holds it: the models have no stack. A compiler
  that turns the tail call into a loop avoids the problem, but Rust promises no such
  thing.
- `expand` gives the old head to `Block::new` before it is sure of a new one. If the
  layout does not fit the address space, a debug build panics there and frees the
  blocks of the bucket, to which Ids and the queue still point.
- `remove_locked` forgets the guard before it asserts that it is its own store's,
  so the panic leaves the element locked (`NativeIds` has this step).
- The hash of a thread is reduced to few bits by `arbitrary_bucket_id`, so two
  threads may insert into the same buckets in step, although the comment says
  that threads get different results.

## Proofs

The theorems hold for every value of the constants that the named assumptions
allow. None of the properties is inductive as it stands; each proof module
begins with the invariant that is, has one lemma per action that shows that the
action keeps it, and ends with the theorems.

| Module | Theorems state |
| --- | --- |
| `SlotProofs` | all invariants and action properties of `slot_safety`; `ReentrantReadNeverBlocks`; that the reader bits count the guards (`GuardsCounted`); the refinement `ImplementsLock` |
| `SlotExclusiveProofs` | `ElementsLeaveOnce`, `ReadersBalanced`, `SafeWithLeaks` |
| `MemoryOrderProofs` | `AccessesPublished`, `ReuseAfterRemoval`; that every behaviour of `MemSpec` is one of `Slot` |
| `BucketProofs` | all four invariants of `bucket_safety`, `NeverHandedTwice` |
| `StoreProofs` | `SlotsConserved`, `MovedOnce`, `MatchMeansOccupied`; `CapacityWithinCall` while the slots, and what the counters are past their heads, fit a `u32`; the refinement `ImplementsMap` |
| `StoreIterProofs` | `IterationExact`, `DroppedOnce`, `SizeHintIsUpperBound`; the refinement `ImplementsIterMap`, of the store with its exclusive operations |
| `NativeIdsProofs` | `NativeIdsResolve`, `QueuesOwnSlots`, `IdsUnique` |

What is assumed: threads are finitely many, limits are positive, and values like
`NoSlot` and `NoThread` are none of the things they stand beside. `U32` is a power of two
(`U32Assumption` says it by divisors: a proper divisor, doubled, divides again).
`MaxCounterAssumption` leaves the bucket's counter room for two steps of every
thread below `U32`, as discussed under Bucket. `PlacesAssumption` keeps the names
of threads apart from the places order passes through.

### Slot

`Inv` conjoins:

- `LockInv`, `CountInv`: the reader bits say write locked while the write guard
  exists, and otherwise count at least the read guards; guards carry the header's
  ordinal. Needed for the field widths and for exclusion, and stated as bounds
  because a leaked guard leaves its count behind.
- `IdInv`: ordinals in circulation are at most the header's, and equal to it only
  while it is occupied. So an exchange on a matching ordinal finds an element,
  and a fresh ordinal is fresh.
- `OwnInv`: an unoccupied slot is on offer, retired, or owned by exactly one
  thread (`Holder`), which is inserting into it or removing from it.
- `CellInv`: where the element is at each of these points.
- `CallInv`, `ParkInv`: what local variables, the queue and its mutex hold at
  each position.
- `TypeOK`, `NoLostWakeup`, `ReentrantReadNeverBlocks` themselves.

Without leaks the count is exact (`GuardsCounted`), which every step keeps on top
of `Inv`. The steps by which a locking call returns, retries or goes on to park without
changing the header are shared (`ReturnStep`, `GoStep`, `SlowStep`,
`IncrementStep`, `TransitionedStep`). `Outcomes` says where the answers "absent"
and "timed out" come from. The refinement maps the element to the header's
ordinal while it is occupied, and the number of spent ordinals to the ordinal,
plus one while it is occupied; `occupy`, the successful exchanges and the swaps
are the abstract steps, everything else stutters.

### The end of a slot's life

`ExclusiveInv` has `GoneInv` (the elements that have left are those that were
inserted and are not in the cell) in all states, `SharedInv` while the store is
shared and `EndedInv` after it was consumed or dropped. `SharedInv` is `Inv` of
`SlotProofs`, `GuardsCounted` until a guard is leaked, and `LiveInv`: an occupied
header names an element that was inserted, and so does a removal that is about
to move it out. That is what lets `Slot::drop` and `Block::take` trust the header
alone. `Inv` survives a leak because it only bounds the count; so `SafeWithLeaks`
follows as its parts do in `SlotProofs`.

### Order of accesses

A step of `MemoryOrder` is a step of `Slot` (`OrderKeepsSlot`), so `Inv` of `SlotProofs`
holds. `MemInv` adds `WriterKnows`, that the holder of the write lock has seen all
writes the word has not (without it, its unlock would not publish them), and
`HandedOver`, that an empty slot on its way from the removal over the queue to the
next insertion carries the knowledge of the removal along.

### Bucket

`Inv` conjoins:

- `LockInv`: the readers are the threads at positions inside the lock, and a
  writer that is in is alone.
- `ListInv`: each block is half the one before it, down to one slot; in a release
  build blocks without slots may stand in front of the largest.
- `CounterInv`: the counter plus the steps that running calls may still add to it
  is below the bound `MaxCounter` allows, so arithmetic on it does not wrap (the bound is
  the model's, not the code's: see Known limits); it has passed the head by at most one
  for each call that missed and one for a second look; and a thread that is about
  to expand has seen the head used up, which is why no slot is leaked. The
  properties say none of this about calls that are half way.
- `LocationInv`: only a call that is about to leave the lock has a slot, and the
  slow path has one while blocks can grow.
- `HandedExactly`: the slots handed out are the older blocks and the head up to
  the counter.
- `CountInv`: all blocks together have twice the head's slots less one, which is
  what `head_size_to_total_size` computes, and a running `capacity` has seen a
  head of now or of earlier.

`NeverHandedTwice` then needs that `scramble_slot` maps the positions of a block
one to one into it. That is the lemma `ScrambleInjective` of `BlockListProofs`: three
is coprime to a power of two, and the product overflows only in the largest
block, by a multiple of its length. That the recursive function behind
`head_size_to_total_size` has a value at all takes an induction, which is written
out for a set of numbers (`NatSetInduction`, `TotalExists`).

### Store

`Inv` conjoins `ShapeInv` (a slot exists exactly if it lies in a block of its bucket;
the counter of a bucket without blocks stays 0), `OwnerInv` (each slot that was handed out is
occupied, queued once, owned by one running call or retired, and never two of these),
`IdInv` (an Id's ordinal is at most its slot's, and equal only while the element is
there) and `MovedOnce` (an element is moved out by exactly one removal; `store_safety`
does not check it, as a removal is one step here, but `DroppedOnce` of `iter_safety`
implies it). In the refinement, an Id maps to its slot's element while
the ordinals match. Filling the slot, the header's change in a removal, and a
lookup are the steps of the map; finding a slot, queueing it and counting stutter.

`CapacityWithinCallHolds` adds `CapacityInv` to `Inv`:

- `ListInv`: the blocks of a bucket halve from the head down to one slot, so that
  `head_size_to_total_size` and `touched_size` compute from the head what the whole
  list has, and one more for each step of the counter past the head (`ListSizes`).
- `CountInv`: a bucket has as many slots, and as many of them handed out, as its
  list and its counter say, where the counter stops counting at the head's end
  (`taken`). So what a bucket reports is what it has at that moment, and what its
  counter is past its head (`overshoot`) besides (`BucketReports`).
- `MissInv`: that excess is at most one for each call that has missed in the bucket
  and not come back to it, because adding a block resets the counter.
- `SumInv`: a total, less the excess it has counted (`past`), is at most the number of slots in the buckets already asked, and
  together with those in the buckets still ahead at least the number at the call
  (`Within`). Slots that appear on either side while the call runs keep both; when
  no bucket is ahead they are the property.

The theorem's hypothesis `[]FitsU32` says that all buckets together have fewer slots
than a `u32` counts, by one per bucket and other thread (`Others`) for the excess. It is
needed: the sum in `RwStore::capacity` is a `u32`, and 16 buckets can have more. One
bucket alone cannot: its head has at most 2^31 slots.

### Iteration

A store that was consumed has slots nobody owns, so `IterInv` keeps of the
invariant of `StoreProofs` only `RemainsInv` in all states, and `OwnerInv` and `IdInv`
while the store is shared or borrowed by `iter_mut`. It adds `NamedInv` (an occupied
slot has its Id), `ListInv` of `StoreProofs`, `ItersInv` (the iterators that are left
are those of the first buckets, one each, on a list that halves and not past the
end of its head) and `ExactInv`, which states
`IterationExact` by what an iterator has still to visit (`ToVisit`) instead of
what elements are there: a slot comes up once because the scrambled positions of
a block differ. For `SizeHintIsUpperBound` the slots ahead in a bucket are
numbered, the blocks behind the head below its length (lengths double, so the
numbers of different blocks do not meet) and the head's by the position at which
they come up; so there are at most as many as the hint says.

### Several stores

`Inv` conjoins `StoreInv` (stores have different ids below the counter), `MemoryInv`
(memory of no store begins again at ordinal 0), `IdInv` (an Id that passes the check
of a store lies in that store's memory and has an ordinal its slot has reached; Ids of
stores that are gone pass no check), `GuardInv` and `QueuesOwnSlots`.

### Only model-checked

- Liveness, which the prover does not cover: `NoForgottenWaiter`, `Settles`,
  `TimedCallsReturn`, `CallsReturn`, `NextReturns`.
- `PredicatesAgree` and `ImplementsWord`: the bit operations of the `Bitwise` module are
  RECURSIVE operators, which the prover's arithmetic backend does not handle. They
  are kept in `HeaderBits` and `HeaderWord`, which no proof module uses.
- The violation runs, which are about single behaviours.

`CapacityWithinCall` is not claimed for a store with more slots than a `u32` counts,
where it is false (see Known limits).

## Plan

Every component that is listed as modelled has its invariants and action
properties both checked and proved. Left are the bits of the header word: with
the masks stated by division and remainder instead of `Bitwise`, `PredicatesAgree`
would come into the prover's reach; and liveness, which waits for the prover.

## Not modelled

- The layout of blocks in memory: alignment, offsets, the limits of `Layout`, the
  cast in `Slot::drop`; an allocator that returns null, which `Block::new` does not
  look at.
- The generator behind `arbitrary_bucket_id` and the hash that seeds it: the choice
  of a bucket is arbitrary in `Store`, so what is shown holds for every generator.
- `Debug` implementations, marker traits, the arithmetic of `Instant`.
- The stand-ins for loom, the loom tests and the benchmarks.
