----------------------------- MODULE StoreProofs ------------------------------
(***************************************************************************)
(* The store proved correct for any number of threads, buckets, elements   *)
(* and insertions, any width of u32 and any RESERVED_ID: slots are neither *)
(* lost nor shared, an element leaves once, and the store implements a map *)
(* from Ids to elements (StoreMap).  Inv is the inductive invariant: types *)
(* (TypeOK), which slots exist (ShapeInv), who has each of them            *)
(* (OwnerInv), how the Ids in circulation compare with the ordinals of     *)
(* their slots (IdInv), and what was moved out (MovedOnce).  What capacity *)
(* returns rests on a second one, CapacityInv: blocks double (ListInv), so *)
(* a bucket's report counts its slots (CountInv), and the totals of a call *)
(* account for the buckets before and behind it, up to how far the         *)
(* counters it has read were past their heads (SumInv), which is at most   *)
(* one for each call that has missed there (MissInv).                      *)
(***************************************************************************)
EXTENDS Store, BlockListProofs, SequenceTheorems

\* The names of slots: bucket, length of the block, place in it.
Triples == Nat \X Nat \X Nat

\* The slot named s is in one of the blocks of a bucket's list.
InBlocks(list, s) ==
    \E i \in 1 .. Len(list) : s[2] = list[i] /\ s[3] \in 0 .. (s[2] - 1)

\* The types of the state; those of sum are in SumInv, out and
\* peak are only written.
TypeOK ==
    /\ blocks \in [Buckets -> Seq(Lengths)]
    /\ next_unused_slot \in [Buckets -> Nat]
    /\ slots \in [DOMAIN slots -> [id : Nat, element : Elements \cup {NoElement}]]
    /\ DOMAIN slots \subseteq Triples
    /\ erasures \in Seq(DOMAIN slots)
    /\ pc \in [Threads -> {"idle", "bucket", "slow", "insert", "push", "capacity"}]
    /\ bucket \in [Threads -> Buckets]
    /\ slot \in [Threads -> DOMAIN slots \cup {NoSlot}]
    /\ moved \in [Ids -> Nat]
    /\ Ids \subseteq [slot : DOMAIN slots, ordinal : Nat]

\* The slots that exist are those of the blocks, whose lengths are at most the
\* head's; the counter of a bucket without a block does not move.
ShapeInv ==
    /\ \A s \in Triples : s \in DOMAIN slots <=> s[1] \in Buckets /\ InBlocks(blocks[s[1]], s)
    /\ \A b \in Buckets :
           /\ blocks[b] = <<>> => next_unused_slot[b] = 0
           /\ \A i \in 1 .. Len(blocks[b]) : blocks[b][i] <= head_len(blocks[b])

\* The calls that have taken a slot: about to fill it, or about to queue it.
Holding == {"insert", "push"}

\* The queue holds s; no slot is in it twice.
Queued(q, s) == \E i \in 1 .. Len(q) : q[i] = s
QueuedOnce(q) == \A i, j \in 1 .. Len(q) : q[i] = q[j] => i = j

\* A running call has s; no two calls have the same slot.
Held(f, s) == \E t \in Threads : f[t] = s
HeldOnce(f) == \A t, u \in Threads : f[t] = f[u] /\ f[t] # NoSlot => t = u

\* A slot handed out is occupied, queued, held by one call or retired, and only
\* one of these; a slot not handed out is none of them.
OwnerInv ==
    /\ \A t \in Threads : slot[t] # NoSlot <=> pc[t] \in Holding
    /\ HeldOnce(slot)
    /\ QueuedOnce(erasures)
    /\ \A s \in DOMAIN slots :
           /\ slots[s].element # NoElement =>
                  ~Queued(erasures, s) /\ ~Held(slot, s) /\ slots[s].id # RESERVED_ID
           /\ Queued(erasures, s) => ~Held(slot, s) /\ slots[s].id # RESERVED_ID
           /\ Held(slot, s) => slots[s].id # RESERVED_ID
           /\ s \in Handed <=> \/ slots[s].element # NoElement
                               \/ Queued(erasures, s)
                               \/ Held(slot, s)
                               \/ slots[s].id = RESERVED_ID

\* Ordinals only grow, so an Id's is at most its slot's; while they are equal, the
\* element inserted under the Id is still there.
IdInv ==
    \A id \in Ids :
        /\ id.ordinal <= slots[id.slot].id
        /\ slots[id.slot].id = id.ordinal => slots[id.slot].element # NoElement

\* The inductive invariant.
Inv == TypeOK /\ ShapeInv /\ OwnerInv /\ IdInv /\ MovedOnce

-----------------------------------------------------------------------------
\* The name that next_insert_location puts together is a triple.
LEMMA Triple ==
  ASSUME NEW b \in Nat, NEW l \in Nat, NEW p \in Nat
  PROVE  <<b>> \o <<l, p>> = <<b, l, p>>
<1> DEFINE u == <<b>> \o <<l, p>>
           v == <<b, l, p>>
<1>1. u \in Seq(Nat) /\ Len(u) = 3 /\ u[1] = b /\ u[2] = l /\ u[3] = p
  OBVIOUS
<1>2. v \in Seq(Nat) /\ Len(v) = 3 /\ v[1] = b /\ v[2] = l /\ v[3] = p
  OBVIOUS
<1> HIDE DEF u, v
<1>3. \A i \in 1 .. Len(u) : u[i] = v[i]
  BY <1>1, <1>2
<1>4. u = v
  BY <1>1, <1>2, <1>3, SeqEqual
<1> QED BY <1>4 DEF u, v

\* A triple is its three parts, and not NoSlot.
LEMMA SlotNames ==
  ASSUME NEW s \in Triples
  PROVE  /\ s[1] \in Nat /\ s[2] \in Nat /\ s[3] \in Nat /\ s = <<s[1], s[2], s[3]>>
         /\ s # NoSlot
BY NoSlotAssumption DEF Triples

\* A bucket's head and blocks as numbers.
LEMMA BucketFacts ==
  ASSUME TypeOK, ShapeInv, NEW b \in Buckets
  PROVE  LET h == head_len(blocks[b])
         IN  /\ h \in Nat /\ next_unused_slot[b] \in Nat
             /\ blocks[b] \in Seq(Lengths) /\ Len(blocks[b]) \in Nat /\ b \in Nat
             /\ blocks[b] = <<>> => /\ h = 0 /\ Len(blocks[b]) = 0
                                    /\ next_unused_slot[b] = 0
             /\ blocks[b] # <<>> =>
                   h \in Lengths /\ h = blocks[b][1] /\ 1 \in 1 .. Len(blocks[b])
             /\ \A i \in 1 .. Len(blocks[b]) :
                   blocks[b][i] \in Nat \ {0} /\ blocks[b][i] <= h
<1> DEFINE list == blocks[b]
<1>1. list \in Seq(Lengths) /\ next_unused_slot[b] \in Nat /\ b \in Nat
  BY BucketsAssumption DEF TypeOK, Buckets
<1>2. /\ list = <<>> => next_unused_slot[b] = 0
      /\ \A i \in 1 .. Len(list) : list[i] <= head_len(list)
  BY DEF ShapeInv
<1> HIDE DEF list
<1>3. CASE list = <<>>
  BY <1>1, <1>2, <1>3 DEF head_len, list
<1>4. CASE list # <<>>
  <2>1. /\ Len(list) \in Nat \ {0} /\ Head(list) = list[1]
        /\ \A i \in 1 .. Len(list) : list[i] \in Lengths
    BY <1>1, <1>4
  <2>2. \A i \in 1 .. Len(list) : list[i] \in Nat \ {0}
    BY <2>1, LengthsInHalf
  <2>3. 1 \in 1 .. Len(list) /\ head_len(list) = list[1]
    BY <1>4, <2>1 DEF head_len
  <2> QED BY <1>1, <1>2, <1>4, <2>1, <2>2, <2>3 DEF list
<1> QED BY <1>3, <1>4

\* The counter is what was taken of the head and what it is past it.
LEMMA CounterParts ==
  ASSUME TypeOK, ShapeInv, NEW b \in Buckets
  PROVE  /\ taken(b) \in Nat /\ taken(b) <= head_len(blocks[b])
         /\ overshoot(b) \in Nat /\ next_unused_slot[b] = taken(b) + overshoot(b)
         /\ room(b) => taken(b) = next_unused_slot[b] /\ next_unused_slot[b] < head_len(blocks[b])
         /\ ~room(b) => taken(b) = head_len(blocks[b])
BY BucketFacts DEF taken, overshoot, Lesser, room

\* Where a slot that exists is.
LEMMA SlotInBlock ==
  ASSUME TypeOK, ShapeInv, NEW s \in DOMAIN slots
  PROVE  /\ s \in Triples /\ s[1] \in Buckets
         /\ s[2] \in Nat \ {0} /\ s[3] \in 0 .. (s[2] - 1)
         /\ s[2] <= head_len(blocks[s[1]])
<1>1. s \in Triples /\ s[1] \in Buckets /\ InBlocks(blocks[s[1]], s)
  BY DEF TypeOK, ShapeInv
<1>2. PICK i \in 1 .. Len(blocks[s[1]]) : s[2] = blocks[s[1]][i] /\ s[3] \in 0 .. (s[2] - 1)
  BY <1>1 DEF InBlocks
<1> QED BY <1>1, <1>2, BucketFacts

\* A call gets a slot of bucket b, under the read lock or under the write lock.
Gets(t, b) ==
    /\ pc[t] = "bucket" \/ (pc[t] = "slow" /\ bucket[t] = b)
    /\ room(b) \/ ~doubling_overflows(head_len(blocks[b]))
    /\ HandOut(t, b)

\* A call finds bucket b's head used up.
Misses(t, b) == ~room(b) /\ next_insert_location(t, b)

\* The effect of Bucket::next_insert_location when the head has room.
LEMMA RoomCase ==
  ASSUME Inv, NEW t \in Threads, NEW b \in Buckets, Gets(t, b), room(b)
  PROVE  LET h == head_len(blocks[b])
             n == next_unused_slot[b]
         IN  /\ h \in Lengths /\ n \in 0 .. (h - 1)
             /\ blocks' = blocks /\ slots' = slots
             /\ next_unused_slot' = [next_unused_slot EXCEPT ![b] = n + 1]
             /\ slot' = [slot EXCEPT ![t] = <<b, h, scramble_slot(h, n)>>]
<1> DEFINE h == head_len(blocks[b])
           n == next_unused_slot[b]
<1>1. /\ h \in Nat /\ n \in Nat /\ b \in Nat /\ blocks[b] # <<>> /\ h \in Lengths
  BY BucketFacts DEF Inv, room
<1>2. n \in 0 .. (h - 1)
  BY <1>1 DEF room
<1>3. /\ blocks' = blocks
      /\ next_unused_slot' = [next_unused_slot EXCEPT ![b] = n + 1]
      /\ slots' = [s \in DOMAIN slots \cup {} |->
                      IF s \in {} THEN [id |-> 0, element |-> NoElement] ELSE slots[s]]
      /\ slot' = [slot EXCEPT ![t] = <<b>> \o slot_address(h, n)]
  BY Zenon DEF Gets, HandOut, Go
<1>4. slots' = slots
  BY <1>3 DEF Inv, TypeOK
<1>5. <<b>> \o slot_address(h, n) = <<b, h, scramble_slot(h, n)>>
  <2>1. scramble_slot(h, n) \in Nat
    BY <1>1, <1>2, ScrambleRange
  <2> QED BY <1>1, <2>1, Triple DEF slot_address
<1> QED BY <1>1, <1>2, <1>3, <1>4, <1>5

\* Its effect when a block is added.
LEMMA GrowCase ==
  ASSUME Inv, NEW t \in Threads, NEW b \in Buckets, Gets(t, b), ~room(b)
  PROVE  LET h == head_len(blocks[b])
             x == block_size(blocks[b])
         IN  /\ x \in Lengths /\ h < x /\ taken(b) = h
             /\ blocks' = [blocks EXCEPT ![b] = <<x>> \o blocks[b]]
             /\ slots' = [s \in DOMAIN slots \cup NewSlots(b, x) |->
                             IF s \in NewSlots(b, x) THEN [id |-> 0, element |-> NoElement]
                                                     ELSE slots[s]]
             /\ next_unused_slot' = [next_unused_slot EXCEPT ![b] = 1]
             /\ slot' = [slot EXCEPT ![t] = <<b, x, scramble_slot(x, 0)>>]
<1> DEFINE h == head_len(blocks[b])
           x == block_size(blocks[b])
<1>1. /\ h \in Nat /\ b \in Nat
      /\ blocks[b] = <<>> => h = 0
      /\ blocks[b] # <<>> => h \in Lengths
  BY BucketFacts DEF Inv
<1>2. /\ ~doubling_overflows(h)
      /\ blocks' = [blocks EXCEPT ![b] = <<x>> \o blocks[b]]
      /\ next_unused_slot' = [next_unused_slot EXCEPT ![b] = 0 + 1]
      /\ slots' = [s \in DOMAIN slots \cup NewSlots(b, x) |->
                      IF s \in NewSlots(b, x) THEN [id |-> 0, element |-> NoElement]
                                              ELSE slots[s]]
      /\ slot' = [slot EXCEPT ![t] = <<b>> \o slot_address(x, 0)]
  BY Zenon DEF Gets, HandOut, Go
<1>3. x \in Lengths /\ x \in Nat \ {0} /\ h < x
  <2>1. CASE blocks[b] = <<>>
    BY <1>1, <2>1, FirstLength DEF block_size, INITIAL_BLOCK_SIZE
  <2>2. CASE blocks[b] # <<>>
    <3>1. x = (h * RESIZE_FACTOR) % U32
      BY <2>2 DEF block_size
    <3>2. x = 2 * h /\ 2 * h \in Lengths
      BY <1>1, <1>2, <2>2, <3>1, NextLength
    <3>3. h # 0
      BY <1>1, <2>2, LengthsInHalf
    <3> QED BY <1>1, <3>2, <3>3
  <2> QED BY <2>1, <2>2
<1>4. <<b>> \o slot_address(x, 0) = <<b, x, scramble_slot(x, 0)>>
  <2>1. 0 \in 0 .. (x - 1)
    BY <1>3
  <2>2. scramble_slot(x, 0) \in Nat
    BY <1>3, <2>1, ScrambleRange
  <2> QED BY <1>1, <1>3, <2>2, Triple DEF slot_address
<1>5. taken(b) = h /\ 0 + 1 = 1
  BY CounterParts DEF Inv
<1> QED BY <1>2, <1>3, <1>4, <1>5, Zenon

\* What the rest needs to know of a slot that is handed out: s is a slot that
\* was not handed out before, and the slots that are new are empty.
Fresh(t, s) ==
    /\ slot' = [slot EXCEPT ![t] = s]
    /\ DOMAIN slots \subseteq DOMAIN slots'
    /\ slots' \in [DOMAIN slots' -> [id : Nat, element : Elements \cup {NoElement}]]
    /\ \A x \in DOMAIN slots : slots'[x] = slots[x]
    /\ \A x \in DOMAIN slots' \ DOMAIN slots :
           slots'[x] = [id |-> 0, element |-> NoElement]
    /\ s \in DOMAIN slots'
    /\ s \notin Handed
    /\ Handed' = Handed \cup {s}

\* A slot of the head is fresh: the counter has not reached it, and scramble_slot
\* is injective.
LEMMA FreshRoom ==
  ASSUME Inv, NEW t \in Threads, NEW b \in Buckets, Gets(t, b), room(b)
  PROVE  /\ \E s : Fresh(t, s)
         /\ ShapeInv' /\ DOMAIN slots' \subseteq Triples
         /\ blocks' \in [Buckets -> Seq(Lengths)]
         /\ next_unused_slot' \in [Buckets -> Nat]
<1> DEFINE h == head_len(blocks[b])
           n == next_unused_slot[b]
           s == <<b, h, scramble_slot(h, n)>>
<1>0. TypeOK /\ ShapeInv
  BY DEF Inv
<1>1. /\ h \in Lengths /\ n \in 0 .. (h - 1)
      /\ blocks' = blocks /\ slots' = slots
      /\ next_unused_slot' = [next_unused_slot EXCEPT ![b] = n + 1]
      /\ slot' = [slot EXCEPT ![t] = s]
  BY RoomCase
<1>2. /\ h \in Nat /\ n \in Nat /\ n + 1 <= h /\ b \in Nat
      /\ h = blocks[b][1] /\ 1 \in 1 .. Len(blocks[b])
  BY <1>0, <1>1, BucketFacts
<1>3. scramble_slot(h, n) \in 0 .. (h - 1) /\ scramble_slot(h, n) \in Nat
  BY <1>1, <1>2, ScrambleRange
<1>4. s \in Triples /\ s[1] = b /\ s[2] = h /\ s[3] = scramble_slot(h, n)
  BY <1>2, <1>3 DEF Triples
<1>5. s \in DOMAIN slots
  <2>1. InBlocks(blocks[s[1]], s)
    BY <1>2, <1>3, <1>4 DEF InBlocks
  <2> QED BY <1>0, <1>4, <2>1 DEF ShapeInv
<1> HIDE DEF s
<1>6. \A c \in Buckets : taken(c)' = IF c = b THEN n + 1 ELSE taken(c)
  <2>1. \A c \in Buckets : next_unused_slot'[c] = IF c = b THEN n + 1
                                                         ELSE next_unused_slot[c]
    BY <1>0, <1>1 DEF TypeOK
  <2> QED BY <1>1, <1>2, <2>1 DEF taken, Lesser
<1>13. taken(b) = n
  BY <1>0, CounterParts
<1>7. next_unused_slot' \in [Buckets -> Nat]
  BY <1>0, <1>1, <1>2 DEF TypeOK
<1>8. ShapeInv'
  <2>1. \A c \in Buckets : blocks'[c] = <<>> => next_unused_slot'[c] = 0
    <3>1. ASSUME NEW c \in Buckets, blocks'[c] = <<>> PROVE next_unused_slot'[c] = 0
      <4>1. c # b
        BY <1>1, <1>2, <3>1
      <4> QED BY <1>0, <1>1, <3>1, <4>1 DEF ShapeInv, TypeOK
    <3> QED BY <3>1
  <2> QED BY <1>0, <1>1, <2>1 DEF ShapeInv
<1>9. s \notin Handed
  <2>1. ASSUME NEW m \in 0 .. (n - 1), scramble_slot(h, m) = scramble_slot(h, n)
        PROVE  FALSE
    <3>1. m \in 0 .. (h - 1) /\ m # n
      BY <1>2
    <3> QED BY <1>1, <2>1, <3>1, ScrambleInjective
  <2> QED BY <1>4, <1>13, <2>1 DEF Handed, slot_address
<1>10. ASSUME NEW x \in DOMAIN slots
       PROVE  x \in Handed' <=> x \in Handed \/ x = s
  <2>0. x \in Triples /\ x[1] \in Buckets
    BY <1>0, SlotInBlock
  <2>1. x \in Handed <=>
            \/ x[2] # head_len(blocks[x[1]])
            \/ \E m \in 0 .. (taken(x[1]) - 1) : x[3] = scramble_slot(x[2], m)
    BY <1>10 DEF Handed, slot_address
  <2>2. x \in Handed' <=>
            \/ x[2] # head_len(blocks[x[1]])
            \/ \E m \in 0 .. (taken(x[1])' - 1) : x[3] = scramble_slot(x[2], m)
    BY <1>1, <1>10 DEF Handed, slot_address
  <2>3. CASE x[1] # b
    BY <1>4, <1>6, <2>0, <2>1, <2>2, <2>3
  <2>4. CASE x[1] = b /\ x[2] # h
    BY <1>4, <2>1, <2>2, <2>4
  <2>5. CASE x[1] = b /\ x[2] = h
    <3>1. 0 .. n = (0 .. (n - 1)) \cup {n}
      BY <1>2
    <3>2. x = s <=> x[3] = scramble_slot(h, n)
      BY <1>4, <2>0, <2>5, SlotNames
    <3>3. taken(x[1])' = n + 1
      BY <1>6, <2>0, <2>5
    <3>4. x \in Handed' <=> \E m \in 0 .. n : x[3] = scramble_slot(h, m)
      <4>1. 0 .. (taken(x[1])' - 1) = 0 .. n
        BY <1>2, <3>3
      <4> QED BY <2>2, <2>5, <4>1
    <3>5. x \in Handed <=> \E m \in 0 .. (n - 1) : x[3] = scramble_slot(h, m)
      BY <1>13, <2>1, <2>5
    <3> QED BY <3>1, <3>2, <3>4, <3>5
  <2> QED BY <2>3, <2>4, <2>5
<1>11. Handed' = Handed \cup {s}
  <2>1. Handed \subseteq DOMAIN slots /\ Handed' \subseteq DOMAIN slots
    BY <1>1 DEF Handed
  <2> QED BY <1>5, <1>10, <2>1
<1>12. Fresh(t, s)
  BY <1>0, <1>1, <1>5, <1>9, <1>11 DEF Fresh, TypeOK
<1> QED BY <1>0, <1>1, <1>7, <1>8, <1>12 DEF TypeOK

\* The names of the slots of a new block.
LEMMA NewSlotNames ==
  ASSUME NEW b \in Nat, NEW len \in Nat, NEW x
  PROVE  x \in NewSlots(b, len) <=>
             x \in Triples /\ x[1] = b /\ x[2] = len /\ x[3] \in 0 .. (len - 1)
BY DEF NewSlots, Triples

\* The first slot of a new block is fresh: the block is longer than all others,
\* and the head it replaces was used up, as scramble_slot is onto.
LEMMA FreshGrow ==
  ASSUME Inv, NEW t \in Threads, NEW b \in Buckets, Gets(t, b), ~room(b)
  PROVE  /\ \E s : Fresh(t, s)
         /\ ShapeInv' /\ DOMAIN slots' \subseteq Triples
         /\ blocks' \in [Buckets -> Seq(Lengths)]
         /\ next_unused_slot' \in [Buckets -> Nat]
<1> DEFINE h == head_len(blocks[b])
           len == block_size(blocks[b])
           new == NewSlots(b, len)
           s == <<b, len, scramble_slot(len, 0)>>
           list == <<len>> \o blocks[b]
<1>0. TypeOK /\ ShapeInv
  BY DEF Inv
<1>1. /\ len \in Lengths /\ h < len /\ taken(b) = h
      /\ blocks' = [blocks EXCEPT ![b] = list]
      /\ slots' = [x \in DOMAIN slots \cup new |->
                      IF x \in new THEN [id |-> 0, element |-> NoElement] ELSE slots[x]]
      /\ next_unused_slot' = [next_unused_slot EXCEPT ![b] = 1]
      /\ slot' = [slot EXCEPT ![t] = s]
  BY GrowCase
<1>2. /\ h \in Nat /\ b \in Nat /\ len \in Nat \ {0}
      /\ blocks[b] \in Seq(Lengths) /\ Len(blocks[b]) \in Nat
      /\ \A i \in 1 .. Len(blocks[b]) : blocks[b][i] \in Nat \ {0} /\ blocks[b][i] <= h
  BY <1>0, <1>1, BucketFacts, LengthsInHalf
<1>3. 0 \in 0 .. (len - 1)
  BY <1>2
<1>4. scramble_slot(len, 0) \in 0 .. (len - 1) /\ scramble_slot(len, 0) \in Nat
  BY <1>1, <1>2, <1>3, ScrambleRange
<1>5. s \in Triples /\ s[1] = b /\ s[2] = len /\ s[3] = scramble_slot(len, 0)
  BY <1>2, <1>4 DEF Triples
<1>6. \A x : x \in new <=>
                x \in Triples /\ x[1] = b /\ x[2] = len /\ x[3] \in 0 .. (len - 1)
  BY <1>2, NewSlotNames
<1>7. /\ list \in Seq(Lengths) /\ Len(list) = Len(blocks[b]) + 1
      /\ list[1] = len /\ head_len(list) = len
      /\ \A i \in 1 .. Len(blocks[b]) : list[i + 1] = blocks[b][i]
      /\ \A i \in 2 .. Len(list) : list[i] = blocks[b][i - 1]
  BY <1>1, <1>2 DEF head_len
<1> HIDE DEF s, new, list, len
<1>8. s \in new
  BY <1>4, <1>5, <1>6
<1>9. /\ \A c \in Buckets : blocks'[c] = IF c = b THEN list ELSE blocks[c]
      /\ \A c \in Buckets : next_unused_slot'[c] = IF c = b THEN 1 ELSE next_unused_slot[c]
      /\ blocks' \in [Buckets -> Seq(Lengths)]
      /\ next_unused_slot' \in [Buckets -> Nat]
  BY <1>0, <1>1, <1>7 DEF TypeOK
<1>19. \A c \in Buckets : taken(c)' = IF c = b THEN 1 ELSE taken(c)
  <2> SUFFICES ASSUME NEW c \in Buckets PROVE taken(c)' = IF c = b THEN 1 ELSE taken(c)
    OBVIOUS
  <2>1. CASE c = b
    <3>1. next_unused_slot'[c] = 1 /\ head_len(blocks'[c]) = len /\ 1 <= len
      BY <1>2, <1>7, <1>9, <2>1
    <3> QED BY <2>1, <3>1 DEF taken, Lesser
  <2>2. CASE c # b
    BY <1>9, <2>2 DEF taken
  <2> QED BY <2>1, <2>2
<1>10. /\ DOMAIN slots' = DOMAIN slots \cup new
       /\ \A x \in DOMAIN slots \cup new :
              slots'[x] = IF x \in new THEN [id |-> 0, element |-> NoElement] ELSE slots[x]
  BY <1>1
<1>11. ASSUME NEW x \in DOMAIN slots
       PROVE  x \notin new
  <2>1. x[2] <= head_len(blocks[x[1]]) /\ x[2] \in Nat
    BY <1>0, SlotInBlock
  <2> QED BY <1>1, <1>2, <1>6, <2>1
<1>12. DOMAIN slots' \subseteq Triples
  BY <1>0, <1>6, <1>10 DEF TypeOK
<1>13. ASSUME NEW x \in Triples, x[1] = b
       PROVE  InBlocks(list, x) <=> InBlocks(blocks[b], x) \/ x \in new
  <2>1. ASSUME InBlocks(list, x)
        PROVE  InBlocks(blocks[b], x) \/ x \in new
    <3>1. PICK i \in 1 .. Len(list) : x[2] = list[i] /\ x[3] \in 0 .. (x[2] - 1)
      BY <2>1 DEF InBlocks
    <3>2. CASE i = 1
      BY <1>6, <1>7, <1>13, <3>1, <3>2
    <3>3. CASE i # 1
      <4>1. i - 1 \in 1 .. Len(blocks[b]) /\ list[i] = blocks[b][i - 1]
        BY <1>2, <1>7, <3>3
      <4> QED BY <3>1, <4>1 DEF InBlocks
    <3> QED BY <3>2, <3>3
  <2>2. ASSUME InBlocks(blocks[b], x)
        PROVE  InBlocks(list, x)
    <3>1. PICK i \in 1 .. Len(blocks[b]) : x[2] = blocks[b][i] /\ x[3] \in 0 .. (x[2] - 1)
      BY <2>2 DEF InBlocks
    <3>2. i + 1 \in 1 .. Len(list) /\ list[i + 1] = blocks[b][i]
      BY <1>2, <1>7
    <3> QED BY <3>1, <3>2 DEF InBlocks
  <2>3. ASSUME x \in new
        PROVE  InBlocks(list, x)
    <3>1. 1 \in 1 .. Len(list)
      BY <1>2, <1>7
    <3> QED BY <1>6, <1>7, <2>3, <3>1 DEF InBlocks
  <2> QED BY <2>1, <2>2, <2>3
<1>14. ShapeInv'
  <2>1. ASSUME NEW x \in Triples
        PROVE  x \in DOMAIN slots' <=> x[1] \in Buckets /\ InBlocks(blocks'[x[1]], x)
    <3>1. x \in DOMAIN slots <=> x[1] \in Buckets /\ InBlocks(blocks[x[1]], x)
      BY <1>0 DEF ShapeInv
    <3>2. CASE x[1] = b
      BY <1>9, <1>10, <1>13, <3>1, <3>2
    <3>3. CASE x[1] # b
      BY <1>6, <1>9, <1>10, <3>1, <3>3
    <3> QED BY <3>2, <3>3
  <2>2. ASSUME NEW c \in Buckets
        PROVE  /\ blocks'[c] = <<>> => next_unused_slot'[c] = 0
               /\ \A i \in 1 .. Len(blocks'[c]) : blocks'[c][i] <= head_len(blocks'[c])
    <3>1. CASE c # b
      BY <1>0, <1>9, <3>1 DEF ShapeInv
    <3>2. CASE c = b
      <4>1. blocks'[c] = list /\ list # <<>>
        BY <1>2, <1>7, <1>9, <3>2
      <4>2. ASSUME NEW i \in 1 .. Len(list)
            PROVE  list[i] <= len
        <5>1. CASE i = 1
          BY <1>2, <1>7, <5>1
        <5>2. CASE i # 1
          <6>4. i - 1 \in 1 .. Len(blocks[b]) /\ i \in 2 .. Len(list)
            <7>1. Len(list) = Len(blocks[b]) + 1 /\ Len(blocks[b]) \in Nat
              BY <1>2, <1>7
            <7> QED BY ONLY <5>2, <7>1, i \in 1 .. Len(list)
          <6>1. i - 1 \in 1 .. Len(blocks[b]) /\ list[i] = blocks[b][i - 1]
            BY <1>7, <6>4
          <6>2. blocks[b][i - 1] <= head_len(blocks[b])
            BY <1>0, <6>1 DEF ShapeInv
          <6>3. blocks[b][i - 1] \in Nat /\ head_len(blocks[b]) \in Nat
            BY <1>2, <6>1, LengthsInHalf
          <6> QED BY <1>1, <1>2, <6>1, <6>2, <6>3
        <5> QED BY <5>1, <5>2
      <4> QED BY <1>2, <1>7, <4>1, <4>2
    <3> QED BY <3>1, <3>2
  <2> QED BY <2>1, <2>2 DEF ShapeInv
<1>15. ASSUME NEW x \in DOMAIN slots'
       PROVE  x \in Handed' <=> x \in Handed \/ x = s
  <2>0. x \in Triples /\ x[1] \in Buckets
    BY <1>0, <1>6, <1>10, SlotInBlock
  <2>1. x \in DOMAIN slots =>
          (x \in Handed <=>
            \/ x[2] # head_len(blocks[x[1]])
            \/ \E m \in 0 .. (taken(x[1]) - 1) : x[3] = scramble_slot(x[2], m))
    BY DEF Handed, slot_address
  <2>2. x \in Handed' <=>
            \/ x[2] # head_len(blocks'[x[1]])
            \/ \E m \in 0 .. (taken(x[1])' - 1) : x[3] = scramble_slot(x[2], m)
    BY <1>15 DEF Handed, slot_address
  <2>3. CASE x[1] # b
    <3>1. x \in DOMAIN slots /\ x # s
      BY <1>5, <1>6, <1>10, <2>3
    <3>2. blocks'[x[1]] = blocks[x[1]] /\ taken(x[1])' = taken(x[1])
      BY <1>9, <1>19, <2>0, <2>3
    <3> QED BY <2>1, <2>2, <3>1, <3>2
  <2>4. CASE x[1] = b /\ x \in DOMAIN slots
    <3>1. x[2] <= h /\ x[2] \in Nat \ {0} /\ x[3] \in 0 .. (x[2] - 1)
      BY <1>0, <2>4, SlotInBlock
    <3>2. x[2] # len /\ x # s
      BY <1>1, <1>2, <1>5, <3>1
    <3>3. x \in Handed'
      BY <1>7, <1>9, <2>0, <2>2, <2>4, <3>2
    <3>4. x \in Handed
      <4>1. CASE x[2] # h
        BY <2>1, <2>4, <4>1
      <4>2. CASE x[2] = h
        <5>1. h \in Lengths
          <6>1. blocks[b] # <<>>
            BY <1>0, <3>1, <4>2, BucketFacts
          <6> QED BY <1>0, <6>1, BucketFacts
        <5>2. x[3] \in {scramble_slot(h, m) : m \in 0 .. (h - 1)}
          BY <3>1, <4>2, <5>1, ScrambleOnto
        <5> QED BY <1>1, <2>1, <2>4, <4>2, <5>2
      <4> QED BY <4>1, <4>2
    <3> QED BY <3>3, <3>4
  <2>5. CASE x[1] = b /\ x \notin DOMAIN slots
    <3>1. x \in new /\ x[2] = len /\ x \notin Handed
      BY <1>6, <1>10, <2>5 DEF Handed
    <3>2. head_len(blocks'[x[1]]) = len /\ taken(x[1])' = 1
      BY <1>7, <1>9, <1>19, <2>0, <2>5
    <3>3. 0 .. (1 - 1) = {0}
      OBVIOUS
    <3>4. x \in Handed' <=> x[3] = scramble_slot(len, 0)
      BY <2>2, <3>1, <3>2, <3>3
    <3>5. x = s <=> x[3] = scramble_slot(len, 0)
      BY <1>5, <2>0, <2>5, <3>1, SlotNames
    <3> QED BY <3>1, <3>4, <3>5
  <2> QED BY <2>3, <2>4, <2>5
<1>16. Handed' = Handed \cup {s}
  <2>1. Handed \subseteq DOMAIN slots' /\ Handed' \subseteq DOMAIN slots' /\ s \in DOMAIN slots'
    BY <1>8, <1>10 DEF Handed
  <2> QED BY <1>15, <2>1
<1>17. s \notin Handed
  BY <1>8, <1>11 DEF Handed
<1>18. Fresh(t, s)
  <2>1. slots' \in [DOMAIN slots' -> [id : Nat, element : Elements \cup {NoElement}]]
    <3>1. \A x \in DOMAIN slots' : slots'[x] \in [id : Nat, element : Elements \cup {NoElement}]
      <4>1. [id |-> 0, element |-> NoElement] \in [id : Nat, element : Elements \cup {NoElement}]
        OBVIOUS
      <4> QED BY <1>0, <1>10, <4>1 DEF TypeOK
    <3>2. slots' = [x \in DOMAIN slots' |-> slots'[x]]
      BY <1>1
    <3> QED BY <3>1, <3>2
  <2>2. \A x \in DOMAIN slots : slots'[x] = slots[x]
    BY <1>10, <1>11
  <2>3. \A x \in DOMAIN slots' \ DOMAIN slots : slots'[x] = [id |-> 0, element |-> NoElement]
    BY <1>10
  <2> QED BY <1>1, <1>8, <1>10, <1>16, <1>17, <2>1, <2>2, <2>3 DEF Fresh
<1> QED BY <1>9, <1>12, <1>14, <1>18

\* A call that gets a slot gets a fresh one, and keeps the shape.
LEMMA FreshSlot ==
  ASSUME Inv, NEW t \in Threads, NEW b \in Buckets, Gets(t, b)
  PROVE  /\ \E s : Fresh(t, s)
         /\ ShapeInv' /\ DOMAIN slots' \subseteq Triples
         /\ blocks' \in [Buckets -> Seq(Lengths)]
         /\ next_unused_slot' \in [Buckets -> Nat]
BY FreshRoom, FreshGrow

\* A call that misses moves at most the counter, and that past its head: the slots
\* handed out stay the same.
LEMMA MissCase ==
  ASSUME Inv, NEW t \in Threads, NEW b \in Buckets, Misses(t, b)
  PROVE  /\ blocks' = blocks /\ slots' = slots /\ erasures' = erasures
         /\ sum' = sum /\ out' = out /\ moved' = moved
         /\ pc[t] = "bucket" /\ pc' = [pc EXCEPT ![t] = "slow"] /\ slot' = slot
         /\ bucket' = [bucket EXCEPT ![t] = b]
         /\ next_unused_slot' \in [Buckets -> Nat]
         /\ \A c \in Buckets : taken(c)' = taken(c)
         /\ \A c \in Buckets \ {b} : overshoot(c)' = overshoot(c)
         /\ overshoot(b)' \in Nat /\ overshoot(b)' <= overshoot(b) + 1
         /\ Handed' = Handed /\ ShapeInv'
<1>0. TypeOK /\ ShapeInv /\ OwnerInv
  BY DEF Inv
<1>1. PICK n : n = counter_after_miss(b)
  OBVIOUS
<1>2. /\ blocks' = blocks /\ slots' = slots /\ erasures' = erasures
      /\ sum' = sum /\ out' = out /\ moved' = moved
      /\ pc[t] = "bucket" /\ pc' = [pc EXCEPT ![t] = "slow"]
      /\ slot' = [slot EXCEPT ![t] = NoSlot]
      /\ bucket' = [bucket EXCEPT ![t] = b]
      /\ next_unused_slot' = [next_unused_slot EXCEPT ![b] = n]
  BY <1>1, Zenon DEF Misses, next_insert_location, Go
<1>3. slot' = slot
  <2>1. slot[t] = NoSlot /\ slot \in [Threads -> DOMAIN slots \cup {NoSlot}]
    BY <1>0, <1>2 DEF TypeOK, OwnerInv, Holding
  <2> QED BY <1>2, <2>1
<1>4. /\ n \in Nat /\ next_unused_slot[b] \in Nat /\ head_len(blocks[b]) \in Nat
      /\ next_unused_slot[b] <= n /\ n <= next_unused_slot[b] + 1
      /\ blocks[b] = <<>> => n = 0
      /\ ~(next_unused_slot[b] < head_len(blocks[b]))
  BY <1>0, <1>1, BucketFacts DEF counter_after_miss, Misses, room
<1>5. /\ next_unused_slot' \in [Buckets -> Nat]
      /\ next_unused_slot'[b] = n
      /\ \A c \in Buckets \ {b} : next_unused_slot'[c] = next_unused_slot[c]
  BY <1>0, <1>2, <1>4 DEF TypeOK
<1>6. /\ taken(b) = head_len(blocks[b]) /\ taken(b)' = head_len(blocks[b])
      /\ \A c \in Buckets \ {b} : taken(c)' = taken(c)
  BY <1>2, <1>4, <1>5 DEF taken, Lesser
<1>7. /\ overshoot(b)' \in Nat /\ overshoot(b)' <= overshoot(b) + 1
      /\ \A c \in Buckets \ {b} : overshoot(c)' = overshoot(c)
  BY <1>4, <1>5, <1>6 DEF overshoot
<1>8. \A c \in Buckets : taken(c)' = taken(c)
  BY <1>6
<1>9. Handed' = Handed
  <2>1. \A x \in DOMAIN slots : x[1] \in Buckets
    BY <1>0, SlotInBlock
  <2> QED BY <1>2, <1>8, <2>1 DEF Handed
<1>10. ShapeInv'
  BY <1>0, <1>2, <1>4, <1>5 DEF ShapeInv
<1> QED BY <1>2, <1>3, <1>5, <1>7, <1>8, <1>9, <1>10

-----------------------------------------------------------------------------
\* ConcurrentQueue::pop takes one slot out of the queue.
LEMMA QueueTail ==
  ASSUME NEW S, NEW q \in Seq(S), q # <<>>, QueuedOnce(q)
  PROVE  /\ Tail(q) \in Seq(S) /\ Head(q) \in S /\ Queued(q, Head(q))
         /\ QueuedOnce(Tail(q))
         /\ \A x : Queued(Tail(q), x) <=> Queued(q, x) /\ x # Head(q)
<1> DEFINE r == Tail(q)
<1>1. /\ Len(q) \in Nat \ {0} /\ Head(q) = q[1] /\ Head(q) \in S
      /\ r \in Seq(S) /\ Len(r) = Len(q) - 1
      /\ \A i \in 1 .. Len(r) : r[i] = q[i + 1]
  BY HeadTailProperties
<1> HIDE DEF r
<1>2. \A i \in 1 .. Len(r) : i + 1 \in 1 .. Len(q)
  BY <1>1
<1>3. 1 \in 1 .. Len(q)
  BY <1>1
<1>4. QueuedOnce(r)
  <2>1. ASSUME NEW i \in 1 .. Len(r), NEW j \in 1 .. Len(r), r[i] = r[j]
        PROVE  i = j
    <3>1. i + 1 = j + 1
      BY <1>1, <1>2, <2>1 DEF QueuedOnce
    <3> QED BY <1>1, <3>1
  <2> QED BY <2>1 DEF QueuedOnce
<1>5. ASSUME NEW x, Queued(r, x)
      PROVE  Queued(q, x) /\ x # q[1]
  <2>1. PICK i \in 1 .. Len(r) : r[i] = x
    BY <1>5 DEF Queued
  <2>2. q[i + 1] = x /\ i + 1 \in 1 .. Len(q) /\ i + 1 # 1
    BY <1>1, <1>2, <2>1
  <2> QED BY <1>3, <2>2 DEF Queued, QueuedOnce
<1>6. ASSUME NEW x, Queued(q, x), x # q[1]
      PROVE  Queued(r, x)
  <2>1. PICK i \in 1 .. Len(q) : q[i] = x
    BY <1>6 DEF Queued
  <2>2. i - 1 \in 1 .. Len(r) /\ i - 1 + 1 = i
    BY <1>1, <1>6, <2>1
  <2> QED BY <1>1, <2>1, <2>2 DEF Queued
<1> QED BY <1>1, <1>3, <1>4, <1>5, <1>6 DEF Queued, r

\* ConcurrentQueue::push puts one slot into the queue.
LEMMA QueueAppend ==
  ASSUME NEW S, NEW q \in Seq(S), NEW s \in S, QueuedOnce(q), ~Queued(q, s)
  PROVE  /\ Append(q, s) \in Seq(S)
         /\ QueuedOnce(Append(q, s))
         /\ \A x : Queued(Append(q, s), x) <=> Queued(q, x) \/ x = s
<1> DEFINE r == Append(q, s)
<1>1. /\ r \in Seq(S) /\ Len(r) = Len(q) + 1 /\ Len(q) \in Nat
      /\ \A i \in 1 .. Len(q) : r[i] = q[i]
      /\ r[Len(q) + 1] = s
  BY AppendProperties
<1> HIDE DEF r
<1>2. 1 .. Len(r) = (1 .. Len(q)) \cup {Len(q) + 1}
  BY <1>1
<1>3. QueuedOnce(r)
  BY <1>1, <1>2 DEF QueuedOnce, Queued
<1>4. \A x : Queued(r, x) <=> Queued(q, x) \/ x = s
  BY <1>1, <1>2 DEF Queued
<1> QED BY <1>1, <1>3, <1>4 DEF r

\* A call takes a slot that no call has.
LEMMA HoldTake ==
  ASSUME NEW f, NEW g, NEW t \in Threads, NEW s, s # NoSlot, f[t] = NoSlot, HeldOnce(f),
         ~Held(f, s), g[t] = s, \A u \in Threads \ {t} : g[u] = f[u]
  PROVE  /\ HeldOnce(g)
         /\ \A x : x # NoSlot => (Held(g, x) <=> Held(f, x) \/ x = s)
BY DEF HeldOnce, Held

\* A call lets go of its slot.
LEMMA HoldDrop ==
  ASSUME NEW f, NEW g, NEW t \in Threads, NEW s, s # NoSlot, f[t] = s, HeldOnce(f),
         g[t] = NoSlot, \A u \in Threads \ {t} : g[u] = f[u]
  PROVE  /\ HeldOnce(g)
         /\ \A x : x # NoSlot => (Held(g, x) <=> Held(f, x) /\ x # s)
BY DEF HeldOnce, Held

-----------------------------------------------------------------------------
\* Where a thread may be.
PCs == {"idle", "bucket", "slow", "insert", "push", "capacity"}

\* The facts about threads, queue and slots that the proofs of all steps use.
LEMMA Facts ==
  ASSUME Inv
  PROVE  /\ DOMAIN slot = Threads /\ DOMAIN pc = Threads
         /\ pc \in [Threads -> PCs] /\ slot \in [Threads -> DOMAIN slots \cup {NoSlot}]
         /\ erasures \in Seq(DOMAIN slots)
         /\ HeldOnce(slot) /\ QueuedOnce(erasures)
         /\ \A t \in Threads : pc[t] \notin Holding => slot[t] = NoSlot
         /\ \A t \in Threads : pc[t] \in Holding => slot[t] \in DOMAIN slots
         /\ \A x \in DOMAIN slots : x # NoSlot
BY SlotNames DEF Inv, TypeOK, OwnerInv, PCs

\* Shape and slots unchanged: so are the slots handed out.
LEMMA SameShape ==
  ASSUME Inv, UNCHANGED shape, DOMAIN slots' = DOMAIN slots
  PROVE  /\ ShapeInv' /\ Handed' = Handed
         /\ blocks' \in [Buckets -> Seq(Lengths)]
         /\ next_unused_slot' \in [Buckets -> Nat]
         /\ DOMAIN slots' \subseteq Triples
BY DEF Inv, TypeOK, ShapeInv, Handed, taken, shape

\* insert: the slot taken from the queue passes to the thread.
LEMMA insertOwners ==
  ASSUME Inv, NEW t \in Threads, insert(t)
  PROVE  OwnerInv' /\ slot' \in [Threads -> DOMAIN slots \cup {NoSlot}]
         /\ erasures' \in Seq(DOMAIN slots) /\ pc' \in [Threads -> PCs]
<1> USE Facts
<1>0. /\ slots' = slots /\ Handed' = Handed /\ pc[t] = "idle" /\ slot[t] = NoSlot
      /\ OwnerInv
  BY SameShape DEF insert, Inv, Holding
<1>1. CASE erasures = <<>>
  <2>1. slot' = slot /\ erasures' = erasures /\ pc' = [pc EXCEPT ![t] = "bucket"]
    BY <1>0, <1>1 DEF insert, Go, pop
  <2>2. pc' \in [Threads -> PCs] /\ \A u \in Threads : pc'[u] \in Holding <=> pc[u] \in Holding
    BY <1>0, <2>1 DEF PCs, Holding
  <2> QED BY <1>0, <2>1, <2>2 DEF OwnerInv
<1>2. CASE erasures # <<>>
  <2> DEFINE q == Head(erasures)
  <2>1. /\ slot' = [slot EXCEPT ![t] = q] /\ erasures' = Tail(erasures)
        /\ pc' = [pc EXCEPT ![t] = "insert"]
    BY <1>2 DEF insert, Go, pop
  <2>2. /\ q \in DOMAIN slots /\ erasures' \in Seq(DOMAIN slots)
        /\ QueuedOnce(erasures') /\ Queued(erasures, q)
        /\ \A x : Queued(erasures', x) <=> Queued(erasures, x) /\ x # q
    BY <1>2, <2>1, QueueTail
  <2> HIDE DEF q
  <2>3. slot'[t] = q /\ (\A u \in Threads \ {t} : slot'[u] = slot[u])
        /\ slot' \in [Threads -> DOMAIN slots \cup {NoSlot}]
    BY <2>1, <2>2
  <2>4. ~Held(slot, q) /\ slots[q].id # RESERVED_ID /\ slots[q].element = NoElement
    BY <1>0, <2>2 DEF OwnerInv
  <2>5. /\ HeldOnce(slot')
        /\ \A x : x # NoSlot => (Held(slot', x) <=> Held(slot, x) \/ x = q)
    BY <1>0, <2>2, <2>3, <2>4, HoldTake
  <2>6. pc'[t] = "insert" /\ (\A u \in Threads \ {t} : pc'[u] = pc[u])
        /\ pc' \in [Threads -> PCs]
    BY <2>1 DEF PCs
  <2>7. \A u \in Threads : slot'[u] # NoSlot <=> pc'[u] \in Holding
    BY <1>0, <2>2, <2>3, <2>6 DEF OwnerInv, Holding
  <2> QED BY <1>0, <2>2, <2>3, <2>4, <2>5, <2>6, <2>7 DEF OwnerInv
<1> QED BY <1>1, <1>2

\* A slot is handed out: it had no owner and passes to the thread.
LEMMA GetsOwners ==
  ASSUME Inv, NEW t \in Threads, NEW b \in Buckets, Gets(t, b)
  PROVE  OwnerInv' /\ slot' \in [Threads -> DOMAIN slots' \cup {NoSlot}]
         /\ pc' \in [Threads -> PCs] /\ erasures' = erasures
<1> USE Facts
<1>0. pc[t] \in {"bucket", "slow"} /\ slot[t] = NoSlot /\ OwnerInv
      /\ pc' = [pc EXCEPT ![t] = "insert"] /\ erasures' = erasures
  BY DEF Gets, HandOut, Go, Inv, Holding
<1>1. PICK s : Fresh(t, s)
  BY FreshSlot
<1>2. s \in DOMAIN slots' /\ s # NoSlot /\ DOMAIN slots' \subseteq Triples
      /\ \A x \in DOMAIN slots' : x # NoSlot
  BY <1>1, FreshSlot, SlotNames DEF Fresh
<1>3. slot'[t] = s /\ (\A u \in Threads \ {t} : slot'[u] = slot[u])
      /\ slot' \in [Threads -> DOMAIN slots' \cup {NoSlot}]
  BY <1>1, <1>2 DEF Fresh
<1>4. \A x : x \notin DOMAIN slots => ~Queued(erasures, x)
  BY DEF Queued
<1>5. \A x : x \notin DOMAIN slots /\ x # NoSlot => ~Held(slot, x)
  BY DEF Held
<1>6. ~Queued(erasures, s) /\ ~Held(slot, s) /\ s \notin Handed
  BY <1>0, <1>1, <1>2, <1>4, <1>5 DEF OwnerInv, Fresh
<1>7. /\ HeldOnce(slot')
      /\ \A x : x # NoSlot => (Held(slot', x) <=> Held(slot, x) \/ x = s)
  <2>1. HeldOnce(slot) /\ s # NoSlot /\ slot[t] = NoSlot
    BY <1>0, <1>2
  <2> QED BY ONLY <1>3, <1>6, <2>1, HoldTake
<1>8. pc'[t] = "insert" /\ (\A u \in Threads \ {t} : pc'[u] = pc[u])
      /\ pc' \in [Threads -> PCs]
  BY <1>0 DEF PCs
<1>9. \A u \in Threads : slot'[u] # NoSlot <=> pc'[u] \in Holding
  BY <1>0, <1>2, <1>3, <1>8 DEF OwnerInv, Holding
<1>10. ASSUME NEW x \in DOMAIN slots'
       PROVE  /\ slots'[x].element # NoElement =>
                    /\ ~Queued(erasures, x) /\ ~Held(slot', x)
                    /\ slots'[x].id # RESERVED_ID
              /\ Queued(erasures, x) => ~Held(slot', x) /\ slots'[x].id # RESERVED_ID
              /\ Held(slot', x) => slots'[x].id # RESERVED_ID
              /\ x \in Handed' <=> \/ slots'[x].element # NoElement
                                   \/ Queued(erasures, x)
                                   \/ Held(slot', x)
                                   \/ slots'[x].id = RESERVED_ID
  <2>1. Handed' = Handed \cup {s} /\ x # NoSlot
    BY <1>1, <1>2 DEF Fresh
  <2>2. CASE x \in DOMAIN slots
    <3>1. slots'[x] = slots[x]
      BY <1>1, <2>2 DEF Fresh
    <3> QED BY <1>0, <1>6, <1>7, <2>1, <2>2, <3>1 DEF OwnerInv
  <2>3. CASE x \notin DOMAIN slots
    <3>1. slots'[x].id = 0 /\ slots'[x].element = NoElement /\ RESERVED_ID # 0
      BY <1>1, <2>3, ReservedIdAssumption DEF Fresh
    <3>2. ~Queued(erasures, x) /\ ~Held(slot, x) /\ x \notin Handed
      BY <1>4, <1>5, <2>1, <2>3 DEF Handed
    <3> QED BY <1>7, <2>1, <3>1, <3>2
  <2> QED BY <2>2, <2>3
<1> QED BY <1>0, <1>3, <1>7, <1>8, <1>9, <1>10 DEF OwnerInv

\* Block::insert: the slot passes from the thread to the element.
LEMMA Block_insertOwners ==
  ASSUME Inv, NEW t \in Threads, NEW e \in Elements, Block_insert(t, e)
  PROVE  /\ OwnerInv' /\ slot' \in [Threads -> DOMAIN slots \cup {NoSlot}]
         /\ pc' \in [Threads -> PCs]
         /\ slot[t] \in DOMAIN slots /\ slots[slot[t]].element = NoElement
<1> USE Facts
<1> DEFINE s == slot[t]
<1>0. /\ s \in DOMAIN slots /\ s # NoSlot /\ OwnerInv /\ pc[t] = "insert"
      /\ slots' = [slots EXCEPT ![s].element = e] /\ erasures' = erasures
      /\ slot' = [slot EXCEPT ![t] = NoSlot] /\ pc' = [pc EXCEPT ![t] = "idle"]
      /\ UNCHANGED shape
  BY DEF Block_insert, Go, Inv, Holding
<1> HIDE DEF s
<1>1. /\ DOMAIN slots' = DOMAIN slots
      /\ slots'[s].element = e /\ slots'[s].id = slots[s].id
      /\ \A x \in DOMAIN slots \ {s} : slots'[x] = slots[x]
  BY <1>0 DEF Inv, TypeOK
<1>2. Handed' = Handed
  BY <1>0, <1>1, SameShape
<1>3. slot'[t] = NoSlot /\ (\A u \in Threads \ {t} : slot'[u] = slot[u]) /\ slot[t] = s
      /\ slot' \in [Threads -> DOMAIN slots \cup {NoSlot}]
  BY <1>0 DEF s
<1>4. /\ HeldOnce(slot') /\ Held(slot, s)
      /\ \A x : x # NoSlot => (Held(slot', x) <=> Held(slot, x) /\ x # s)
  <2>1. Held(slot, s)
    BY <1>3 DEF Held
  <2>2. HeldOnce(slot) /\ s # NoSlot
    BY <1>0
  <2> QED BY ONLY <1>3, <2>1, <2>2, HoldDrop
<1>5. pc'[t] = "idle" /\ (\A u \in Threads \ {t} : pc'[u] = pc[u])
      /\ pc' \in [Threads -> PCs]
  BY <1>0 DEF PCs
<1>6. \A u \in Threads : slot'[u] # NoSlot <=> pc'[u] \in Holding
  BY <1>0, <1>3, <1>5 DEF OwnerInv, Holding
<1>7. slots[s].element = NoElement /\ ~Queued(erasures, s) /\ slots[s].id # RESERVED_ID
      /\ s \in Handed
  BY <1>0, <1>4 DEF OwnerInv
<1>8. e # NoElement
  BY ElementsAssumption
<1>9. OwnerInv'
  <2>1. ASSUME NEW x \in DOMAIN slots
        PROVE  /\ slots'[x].element # NoElement =>
                     /\ ~Queued(erasures, x) /\ ~Held(slot', x)
                     /\ slots'[x].id # RESERVED_ID
               /\ Queued(erasures, x) => ~Held(slot', x) /\ slots'[x].id # RESERVED_ID
               /\ Held(slot', x) => slots'[x].id # RESERVED_ID
               /\ x \in Handed <=> \/ slots'[x].element # NoElement
                                   \/ Queued(erasures, x)
                                   \/ Held(slot', x)
                                   \/ slots'[x].id = RESERVED_ID
    <3>0. x # NoSlot
      OBVIOUS
    <3>1. CASE x = s
      BY <1>1, <1>4, <1>7, <1>8, <3>0, <3>1
    <3>2. CASE x # s
      <4>1. slots'[x] = slots[x] /\ (Held(slot', x) <=> Held(slot, x))
        BY <1>1, <1>4, <3>0, <3>2
      <4> QED BY <1>0, <4>1 DEF OwnerInv
    <3> QED BY <3>1, <3>2
  <2> QED BY <1>0, <1>1, <1>2, <1>4, <1>6, <2>1 DEF OwnerInv
<1> QED BY <1>0, <1>3, <1>5, <1>7, <1>9 DEF s

\* push_erasure: the slot passes from the thread to the queue.
LEMMA push_erasureOwners ==
  ASSUME Inv, NEW t \in Threads, push_erasure(t)
  PROVE  OwnerInv' /\ slot' \in [Threads -> DOMAIN slots \cup {NoSlot}]
         /\ erasures' \in Seq(DOMAIN slots) /\ pc' \in [Threads -> PCs]
<1> USE Facts
<1> DEFINE s == slot[t]
<1>0. /\ s \in DOMAIN slots /\ s # NoSlot /\ OwnerInv /\ pc[t] = "push"
      /\ slots' = slots /\ erasures' = Append(erasures, s)
      /\ slot' = [slot EXCEPT ![t] = NoSlot] /\ pc' = [pc EXCEPT ![t] = "idle"]
      /\ UNCHANGED shape
  BY DEF push_erasure, Go, Inv, Holding
<1> HIDE DEF s
<1>1. Handed' = Handed
  BY <1>0, SameShape
<1>2. slot'[t] = NoSlot /\ (\A u \in Threads \ {t} : slot'[u] = slot[u]) /\ slot[t] = s
      /\ slot' \in [Threads -> DOMAIN slots \cup {NoSlot}]
  BY <1>0 DEF s
<1>3. /\ HeldOnce(slot') /\ Held(slot, s)
      /\ \A x : x # NoSlot => (Held(slot', x) <=> Held(slot, x) /\ x # s)
  <2>1. Held(slot, s)
    BY <1>2 DEF Held
  <2>2. HeldOnce(slot) /\ s # NoSlot
    BY <1>0
  <2> QED BY ONLY <1>2, <2>1, <2>2, HoldDrop
<1>4. slots[s].element = NoElement /\ ~Queued(erasures, s) /\ slots[s].id # RESERVED_ID
      /\ s \in Handed
  BY <1>0, <1>3 DEF OwnerInv
<1>5. /\ erasures' \in Seq(DOMAIN slots) /\ QueuedOnce(erasures')
      /\ \A x : Queued(erasures', x) <=> Queued(erasures, x) \/ x = s
  BY <1>0, <1>4, QueueAppend
<1>6. pc'[t] = "idle" /\ (\A u \in Threads \ {t} : pc'[u] = pc[u])
      /\ pc' \in [Threads -> PCs]
  BY <1>0 DEF PCs
<1>7. \A u \in Threads : slot'[u] # NoSlot <=> pc'[u] \in Holding
  BY <1>0, <1>2, <1>6 DEF OwnerInv, Holding
<1>8. OwnerInv'
  BY <1>0, <1>1, <1>3, <1>4, <1>5, <1>7 DEF OwnerInv
<1> QED BY <1>2, <1>5, <1>6, <1>8

\* remove: the slot passes from the element to the thread, or is retired.
LEMMA removeOwners ==
  ASSUME Inv, NEW t \in Threads, NEW id \in Ids, remove(t, id), lookup(id) # NoElement
  PROVE  /\ OwnerInv' /\ slot' \in [Threads -> DOMAIN slots \cup {NoSlot}]
         /\ pc' \in [Threads -> PCs]
<1> USE Facts
<1> DEFINE s == id.slot
<1>0. /\ s \in DOMAIN slots /\ id.ordinal \in Nat /\ OwnerInv /\ pc[t] = "idle"
      /\ slots[s].id = id.ordinal /\ slots[s].element # NoElement
      /\ slots' = [slots EXCEPT ![s] = [id |-> id.ordinal + 1, element |-> NoElement]]
      /\ erasures' = erasures /\ UNCHANGED shape
      /\ IF id.ordinal + 1 # RESERVED_ID
         THEN /\ slot' = [slot EXCEPT ![t] = s]
              /\ pc' = [pc EXCEPT ![t] = "push"]
         ELSE slot' = slot /\ pc' = pc
  BY DEF remove, lookup, erased, may_reuse, Go, Inv, TypeOK
<1>1. s # NoSlot /\ slot[t] = NoSlot
  BY <1>0 DEF Holding
<1> HIDE DEF s
<1>2. /\ DOMAIN slots' = DOMAIN slots
      /\ slots'[s].element = NoElement /\ slots'[s].id = id.ordinal + 1
      /\ \A x \in DOMAIN slots \ {s} : slots'[x] = slots[x]
  BY <1>0
<1>3. Handed' = Handed
  BY <1>0, <1>2, SameShape
<1>4. ~Queued(erasures, s) /\ ~Held(slot, s) /\ s \in Handed
  BY <1>0 DEF OwnerInv
<1>5. CASE id.ordinal + 1 = RESERVED_ID
  BY <1>0, <1>2, <1>3, <1>4, <1>5 DEF OwnerInv
<1>6. CASE id.ordinal + 1 # RESERVED_ID
  <2>1. slot'[t] = s /\ (\A u \in Threads \ {t} : slot'[u] = slot[u])
        /\ slot' \in [Threads -> DOMAIN slots \cup {NoSlot}]
    BY <1>0, <1>6
  <2>2. /\ HeldOnce(slot')
        /\ \A x : x # NoSlot => (Held(slot', x) <=> Held(slot, x) \/ x = s)
    BY <1>1, <1>4, <2>1, HoldTake
  <2>3. pc'[t] = "push" /\ (\A u \in Threads \ {t} : pc'[u] = pc[u])
        /\ pc' \in [Threads -> PCs]
    BY <1>0, <1>6 DEF PCs
  <2>4. \A u \in Threads : slot'[u] # NoSlot <=> pc'[u] \in Holding
    BY <1>0, <1>1, <2>1, <2>3 DEF OwnerInv, Holding
  <2> QED BY <1>0, <1>2, <1>3, <1>4, <1>6, <2>1, <2>2, <2>3, <2>4 DEF OwnerInv
<1> QED BY <1>5, <1>6

\* The steps that leave slots and owners alone.
Idle(t) == (\E id \in Ids : access(t, id)) \/ capacity(t) \/ CapacityOfBucket(t)

\* Accesses and capacity change neither slots nor owners.
LEMMA idleOwners ==
  ASSUME Inv, NEW t \in Threads, Idle(t)
  PROVE  /\ OwnerInv' /\ slot' = slot /\ pc' \in [Threads -> PCs]
         /\ slots' = slots /\ erasures' = erasures /\ moved' = moved /\ UNCHANGED shape
         /\ bucket' = bucket
<1> USE Facts
<1>1. /\ slots' = slots /\ erasures' = erasures /\ moved' = moved /\ UNCHANGED shape
      /\ bucket' = bucket
      /\ pc[t] \notin Holding
      /\ \E p \in {"idle", "capacity"} : pc' = [pc EXCEPT ![t] = p] \/ pc' = pc
      /\ slot' = slot \/ slot' = [slot EXCEPT ![t] = NoSlot]
  BY DEF Idle, access, capacity, CapacityOfBucket, Go, Holding
<1>2. slot' = slot
  BY <1>1
<1>3. Handed' = Handed
  BY <1>1, SameShape
<1>4. /\ pc' \in [Threads -> PCs]
      /\ \A u \in Threads : pc'[u] \in Holding <=> pc[u] \in Holding
  BY <1>1 DEF PCs, Holding
<1> QED BY <1>1, <1>2, <1>3, <1>4 DEF Inv, OwnerInv

-----------------------------------------------------------------------------
\* Ids are not disturbed by steps that keep the slots that exist.
LEMMA SameIds ==
  ASSUME Inv, moved' = moved, DOMAIN slots \subseteq DOMAIN slots',
         \A x \in DOMAIN slots : slots'[x] = slots[x]
  PROVE  /\ IdInv' /\ MovedOnce' /\ Ids' = Ids
         /\ Ids' \subseteq [slot : DOMAIN slots', ordinal : Nat]
         /\ moved' \in [Ids' -> Nat]
         /\ \A id \in Ids : lookup(id)' = lookup(id)
<1>1. Ids' = Ids /\ Ids \subseteq [slot : DOMAIN slots, ordinal : Nat]
      /\ moved \in [Ids -> Nat] /\ IdInv /\ MovedOnce
  BY DEF Inv, TypeOK, Ids
<1>2. \A id \in Ids : id.slot \in DOMAIN slots /\ slots'[id.slot] = slots[id.slot]
  BY <1>1
<1>3. \A id \in Ids : lookup(id)' = lookup(id)
  BY <1>2 DEF lookup
<1>4. IdInv'
  BY <1>1, <1>2 DEF IdInv
<1>5. MovedOnce'
  BY <1>1, <1>3 DEF MovedOnce
<1>6. Ids \subseteq [slot : DOMAIN slots', ordinal : Nat]
  BY <1>1
<1> QED BY <1>1, <1>3, <1>4, <1>5, <1>6

\* The facts about Ids that the proofs use.
LEMMA IdFacts ==
  ASSUME Inv
  PROVE  /\ \A x \in DOMAIN slots :
                slots[x].id \in Nat /\ slots[x].element \in Elements \cup {NoElement}
         /\ \A id \in Ids : /\ id.slot \in DOMAIN slots /\ id.ordinal \in Nat
                            /\ id = [slot |-> id.slot, ordinal |-> id.ordinal]
                            /\ id.ordinal <= slots[id.slot].id
                            /\ slots[id.slot].id = id.ordinal =>
                                   slots[id.slot].element # NoElement
                            /\ moved[id] = IF lookup(id) = NoElement THEN 1 ELSE 0
         /\ \A i, j \in Ids : i.slot = j.slot /\ i.ordinal = j.ordinal => i = j
<1>1. Ids \subseteq [slot : DOMAIN slots, ordinal : Nat] /\ IdInv /\ MovedOnce
  BY DEF Inv, TypeOK
<1>2. \A x \in DOMAIN slots :
          slots[x].id \in Nat /\ slots[x].element \in Elements \cup {NoElement}
  BY DEF Inv, TypeOK
<1>3. \A id \in Ids : id.slot \in DOMAIN slots /\ id.ordinal \in Nat
                      /\ id = [slot |-> id.slot, ordinal |-> id.ordinal]
  BY <1>1
<1>4. \A i, j \in Ids : i.slot = j.slot /\ i.ordinal = j.ordinal => i = j
  BY <1>1
<1> QED BY <1>1, <1>2, <1>3, <1>4 DEF IdInv, MovedOnce

\* Block::insert makes an Id that was never made before.
LEMMA Block_insertIds ==
  ASSUME Inv, NEW t \in Threads, NEW e \in Elements, Block_insert(t, e),
         NEW new, new = [slot |-> slot[t], ordinal |-> slots[slot[t]].id]
  PROVE  /\ new \notin Ids /\ Ids' = Ids \cup {new}
         /\ out' = [id |-> new, element |-> e]
         /\ lookup(new)' = e
         /\ \A i \in Ids : lookup(i)' = lookup(i)
         /\ IdInv' /\ MovedOnce'
         /\ Ids' \subseteq [slot : DOMAIN slots', ordinal : Nat]
         /\ moved' \in [Ids' -> Nat]
         /\ DOMAIN slots' = DOMAIN slots
         /\ slots' \in [DOMAIN slots' -> [id : Nat, element : Elements \cup {NoElement}]]
<1> DEFINE s == slot[t]
           n == slots[s].id
<1>1. /\ s \in DOMAIN slots /\ slots[s].element = NoElement
  BY Block_insertOwners
<1>2. /\ slots' = [slots EXCEPT ![s].element = e]
      /\ moved' = [i \in Ids \cup {new} |-> IF i = new THEN 0 ELSE moved[i]]
      /\ out' = [id |-> new, element |-> e]
  BY Zenon DEF Block_insert, Answer
<1>3. n \in Nat
  BY <1>1, IdFacts
<1>4. new.slot = s /\ new.ordinal = n
  OBVIOUS
<1> HIDE DEF s, n
<1>5. /\ DOMAIN slots' = DOMAIN slots
      /\ slots'[s].element = e /\ slots'[s].id = n
      /\ \A x \in DOMAIN slots \ {s} : slots'[x] = slots[x]
  BY <1>1, <1>2 DEF Inv, TypeOK, n
<1>6. slots' \in [DOMAIN slots' -> [id : Nat, element : Elements \cup {NoElement}]]
  BY <1>1, <1>2 DEF Inv, TypeOK
<1>7. new \notin Ids
  BY <1>1, <1>4, IdFacts DEF n
<1>8. Ids' = Ids \cup {new}
  BY <1>2 DEF Ids
<1>9. lookup(new)' = e
  BY <1>4, <1>5 DEF lookup
<1>10. ASSUME NEW i \in Ids
       PROVE  /\ lookup(i)' = lookup(i)
              /\ i.ordinal <= slots'[i.slot].id
              /\ slots'[i.slot].id = i.ordinal => slots'[i.slot].element # NoElement
  <2>1. CASE i.slot # s
    BY <1>5, <2>1, IdFacts DEF lookup
  <2>2. CASE i.slot = s
    <3>1. i.ordinal # n
      BY <1>1, <2>2, IdFacts DEF n
    <3> QED BY <1>5, <2>2, <3>1, IdFacts DEF lookup, n
  <2> QED BY <2>1, <2>2
<1>11. e # NoElement
  BY ElementsAssumption
<1>12. IdInv'
  BY <1>3, <1>4, <1>5, <1>8, <1>10, <1>11 DEF IdInv
<1>13. moved'[new] = 0 /\ \A i \in Ids : moved'[i] = moved[i]
  BY <1>2, <1>7
<1>14. MovedOnce'
  BY <1>8, <1>9, <1>10, <1>11, <1>13, IdFacts DEF MovedOnce
<1>15. new \in [slot : DOMAIN slots, ordinal : Nat]
  BY <1>1, <1>3 DEF s, n
<1>16. Ids' \subseteq [slot : DOMAIN slots', ordinal : Nat]
  BY <1>5, <1>8, <1>15 DEF Inv, TypeOK
<1>17. moved' \in [Ids' -> Nat]
  BY <1>2, <1>8 DEF Inv, TypeOK
<1> QED BY <1>2, <1>5, <1>6, <1>7, <1>8, <1>9, <1>10, <1>12, <1>14, <1>16, <1>17

\* remove ends what one Id names, and nothing else.
LEMMA removeIds ==
  ASSUME Inv, NEW t \in Threads, NEW id \in Ids, remove(t, id), lookup(id) # NoElement
  PROVE  /\ Ids' = Ids /\ lookup(id)' = NoElement
         /\ \A i \in Ids \ {id} : lookup(i)' = lookup(i)
         /\ IdInv' /\ MovedOnce'
         /\ Ids' \subseteq [slot : DOMAIN slots', ordinal : Nat]
         /\ moved' \in [Ids' -> Nat]
         /\ DOMAIN slots' = DOMAIN slots
         /\ slots' \in [DOMAIN slots' -> [id : Nat, element : Elements \cup {NoElement}]]
<1> DEFINE s == id.slot
           n == id.ordinal
<1>1. /\ s \in DOMAIN slots /\ n \in Nat /\ slots[s].id = n
      /\ slots' = [slots EXCEPT ![s] = [id |-> n + 1, element |-> NoElement]]
      /\ moved' = [moved EXCEPT ![id] = @ + 1]
  BY IdFacts DEF remove, lookup, erased
<1>2. /\ DOMAIN slots' = DOMAIN slots
      /\ slots'[s].element = NoElement /\ slots'[s].id = n + 1
      /\ \A x \in DOMAIN slots \ {s} : slots'[x] = slots[x]
  BY <1>1
<1>3. slots' \in [DOMAIN slots' -> [id : Nat, element : Elements \cup {NoElement}]]
  <2>1. [id |-> n + 1, element |-> NoElement] \in [id : Nat, element : Elements \cup {NoElement}]
    BY <1>1
  <2> QED BY <1>1, <2>1 DEF Inv, TypeOK
<1>4. Ids' = Ids
  BY <1>1 DEF Ids
<1>5. lookup(id)' = NoElement
  BY <1>1, <1>2 DEF lookup
<1>6. ASSUME NEW i \in Ids
      PROVE  /\ i # id => lookup(i)' = lookup(i)
             /\ i.ordinal <= slots'[i.slot].id
             /\ slots'[i.slot].id = i.ordinal => slots'[i.slot].element # NoElement
  <2>1. CASE i.slot # s
    BY <1>2, <2>1, IdFacts DEF lookup
  <2>2. CASE i.slot = s
    <3>1. i.ordinal <= n /\ i.ordinal \in Nat /\ (i # id => i.ordinal # n)
      BY <1>1, <2>2, IdFacts
    <3>2. slots'[i.slot].id # i.ordinal /\ i.ordinal <= slots'[i.slot].id
      BY <1>1, <1>2, <2>2, <3>1
    <3>3. i # id => lookup(i) = NoElement
      BY <1>1, <2>2, <3>1 DEF lookup
    <3> QED BY <3>2, <3>3 DEF lookup
  <2> QED BY <2>1, <2>2
<1>7. IdInv'
  BY <1>4, <1>6 DEF IdInv
<1>8. moved \in [Ids -> Nat] /\ moved[id] = 0
  BY IdFacts DEF Inv, TypeOK
<1>9. moved'[id] = 1 /\ (\A i \in Ids \ {id} : moved'[i] = moved[i]) /\ moved' \in [Ids -> Nat]
  BY <1>1, <1>8
<1>10. MovedOnce'
  BY <1>4, <1>5, <1>6, <1>9, IdFacts DEF MovedOnce
<1>11. Ids' \subseteq [slot : DOMAIN slots', ordinal : Nat]
  BY <1>2, <1>4 DEF Inv, TypeOK
<1> QED BY <1>2, <1>3, <1>4, <1>5, <1>6, <1>7, <1>9, <1>10, <1>11

-----------------------------------------------------------------------------
\* RwStore::new: no block, no slot, no Id, and nothing is running.
LEMMA InvInit == Init => Inv
<1> SUFFICES ASSUME Init PROVE Inv
  OBVIOUS
<1>1. /\ blocks = [b \in Buckets |-> <<>>]
      /\ next_unused_slot = [b \in Buckets |-> 0]
      /\ slots = [s \in {} |-> [id |-> 0, element |-> NoElement]]
      /\ erasures = <<>>
      /\ pc = [t \in Threads |-> "idle"]
      /\ slot = [t \in Threads |-> NoSlot]
      /\ bucket = [t \in Threads |-> 0]
      /\ moved = [i \in {} |-> 0]
  BY DEF Init
<1>2. DOMAIN slots = {} /\ Ids = {}
  BY <1>1 DEF Ids
<1>3. /\ blocks \in [Buckets -> Seq(Lengths)]
      /\ next_unused_slot \in [Buckets -> Nat]
      /\ pc \in [Threads -> {"idle", "bucket", "slow", "insert", "push", "capacity"}]
      /\ bucket \in [Threads -> Buckets]
      /\ slot \in [Threads -> DOMAIN slots \cup {NoSlot}]
      /\ erasures \in Seq(DOMAIN slots)
  BY <1>1, BucketsAssumption DEF Buckets
<1>4. slots \in [DOMAIN slots -> [id : Nat, element : Elements \cup {NoElement}]]
      /\ moved \in [Ids -> Nat]
  BY <1>1, <1>2
<1>5. TypeOK
  BY <1>2, <1>3, <1>4 DEF TypeOK
<1>6. \A b \in Buckets : blocks[b] = <<>> /\ Len(blocks[b]) = 0
                         /\ head_len(blocks[b]) = 0 /\ next_unused_slot[b] = 0
  BY <1>1 DEF head_len
<1>7. ShapeInv
  BY <1>2, <1>6 DEF ShapeInv, InBlocks
<1>8. OwnerInv
  BY <1>1, <1>2 DEF OwnerInv, Holding, HeldOnce, QueuedOnce
<1>9. IdInv /\ MovedOnce
  BY <1>2 DEF IdInv, MovedOnce
<1> QED BY <1>5, <1>7, <1>8, <1>9 DEF Inv

\* A thread's step.
Step(t) ==
    \/ insert(t)
    \/ \E b \in Buckets : Gets(t, b) \/ Misses(t, b)
    \/ \E e \in Elements : Block_insert(t, e)
    \/ \E id \in Ids : remove(t, id)
    \/ push_erasure(t)
    \/ Idle(t)

\* Every step is a step of one thread.
LEMMA Steps == Inv /\ Next => \E t \in Threads : Step(t)
<1> SUFFICES ASSUME Inv, NEW t \in Threads,
                    \/ insert(t)
                    \/ \E b \in Buckets : next_insert_location(t, b)
                    \/ next_insert_location_slow(t)
                    \/ \E e \in Elements : Block_insert(t, e)
                    \/ \E id \in Ids : access(t, id) \/ remove(t, id)
                    \/ push_erasure(t)
                    \/ capacity(t) \/ CapacityOfBucket(t)
             PROVE  Step(t)
  BY DEF Next, arbitrary_bucket_id
<1>1. ASSUME NEW b \in Buckets, next_insert_location(t, b)
      PROVE  Step(t)
  <2>1. CASE room(b)
    <3>1. Gets(t, b)
      BY <1>1, <2>1, Zenon DEF Gets, next_insert_location
    <3> QED BY <3>1 DEF Step
  <2>2. CASE ~room(b)
    BY <1>1, <2>2 DEF Step, Misses
  <2> QED BY <2>1, <2>2
<1>2. CASE next_insert_location_slow(t)
  <2>1. bucket[t] \in Buckets
    BY DEF Inv, TypeOK
  <2>2. Gets(t, bucket[t])
    BY <1>2, Zenon DEF Gets, next_insert_location_slow
  <2> QED BY <2>1, <2>2 DEF Step
<1> QED BY <1>1, <1>2 DEF Step, Idle

\* Every step keeps the invariant.
LEMMA StepInv ==
  ASSUME Inv, NEW t \in Threads, Step(t)
  PROVE  Inv'
<1>0. TypeOK /\ ShapeInv /\ OwnerInv /\ IdInv /\ MovedOnce
  BY DEF Inv
<1>1. CASE insert(t)
  <2>1. slots' = slots /\ moved' = moved /\ UNCHANGED shape /\ bucket' = bucket
    BY <1>1 DEF insert
  <2>2. IdInv' /\ MovedOnce' /\ moved' \in [Ids' -> Nat]
        /\ Ids' \subseteq [slot : DOMAIN slots', ordinal : Nat]
    BY <2>1, SameIds
  <2>3. ShapeInv' /\ blocks' \in [Buckets -> Seq(Lengths)]
        /\ next_unused_slot' \in [Buckets -> Nat] /\ DOMAIN slots' \subseteq Triples
    BY <2>1, SameShape
  <2>4. OwnerInv' /\ slot' \in [Threads -> DOMAIN slots \cup {NoSlot}]
        /\ erasures' \in Seq(DOMAIN slots) /\ pc' \in [Threads -> PCs]
    BY <1>1, insertOwners
  <2>5. TypeOK'
    BY <1>0, <2>1, <2>2, <2>3, <2>4 DEF TypeOK, PCs
  <2> QED BY <2>2, <2>3, <2>4, <2>5 DEF Inv
<1>7. ASSUME NEW b \in Buckets, Misses(t, b)
      PROVE  Inv'
  <2>1. /\ blocks' = blocks /\ slots' = slots /\ erasures' = erasures /\ moved' = moved
        /\ pc[t] = "bucket" /\ pc' = [pc EXCEPT ![t] = "slow"] /\ slot' = slot
        /\ bucket' = [bucket EXCEPT ![t] = b]
        /\ next_unused_slot' \in [Buckets -> Nat] /\ Handed' = Handed /\ ShapeInv'
    BY <1>7, MissCase
  <2>2. IdInv' /\ MovedOnce' /\ moved' \in [Ids' -> Nat]
        /\ Ids' \subseteq [slot : DOMAIN slots', ordinal : Nat]
    BY <2>1, SameIds
  <2>3. TypeOK'
    BY <1>0, <2>1, <2>2 DEF TypeOK
  <2>4. \A u \in Threads : pc'[u] \in Holding <=> pc[u] \in Holding
    BY <2>1, Facts DEF Holding
  <2>5. OwnerInv'
    BY <1>0, <2>1, <2>4 DEF OwnerInv
  <2> QED BY <2>1, <2>2, <2>3, <2>5 DEF Inv
<1>2. ASSUME NEW b \in Buckets, Gets(t, b)
      PROVE  Inv'
  <2>1. PICK s : Fresh(t, s)
    BY <1>2, FreshSlot
  <2>2. /\ DOMAIN slots \subseteq DOMAIN slots' /\ moved' = moved
        /\ slots' \in [DOMAIN slots' -> [id : Nat, element : Elements \cup {NoElement}]]
        /\ \A x \in DOMAIN slots : slots'[x] = slots[x]
    BY <1>2, <2>1 DEF Fresh, Gets, HandOut
  <2>8. bucket' \in [Threads -> Buckets]
    BY <1>0, <1>2, BucketsAssumption DEF Gets, HandOut, TypeOK, Buckets
  <2>3. IdInv' /\ MovedOnce' /\ moved' \in [Ids' -> Nat]
        /\ Ids' \subseteq [slot : DOMAIN slots', ordinal : Nat]
    BY <2>2, SameIds
  <2>4. ShapeInv' /\ blocks' \in [Buckets -> Seq(Lengths)]
        /\ next_unused_slot' \in [Buckets -> Nat] /\ DOMAIN slots' \subseteq Triples
    BY <1>2, FreshSlot
  <2>5. OwnerInv' /\ slot' \in [Threads -> DOMAIN slots' \cup {NoSlot}]
        /\ erasures' = erasures /\ pc' \in [Threads -> PCs]
    BY <1>2, GetsOwners
  <2>6. erasures' \in Seq(DOMAIN slots')
    <3>1. erasures \in Seq(DOMAIN slots)
      BY <1>0 DEF TypeOK
    <3>2. \A i \in 1 .. Len(erasures) : erasures[i] \in DOMAIN slots'
      BY <2>2, <3>1
    <3> QED BY <2>5, <3>1, <3>2
  <2>7. TypeOK'
    BY <2>2, <2>3, <2>4, <2>5, <2>6, <2>8 DEF TypeOK, PCs
  <2> QED BY <2>3, <2>4, <2>5, <2>7 DEF Inv
<1>3. ASSUME NEW e \in Elements, Block_insert(t, e)
      PROVE  Inv'
  <2>1. PICK new : new = [slot |-> slot[t], ordinal |-> slots[slot[t]].id]
    OBVIOUS
  <2>2. /\ IdInv' /\ MovedOnce'
        /\ Ids' \subseteq [slot : DOMAIN slots', ordinal : Nat]
        /\ moved' \in [Ids' -> Nat]
        /\ DOMAIN slots' = DOMAIN slots
        /\ slots' \in [DOMAIN slots' -> [id : Nat, element : Elements \cup {NoElement}]]
    BY <1>3, <2>1, Block_insertIds
  <2>3. UNCHANGED shape /\ erasures' = erasures /\ bucket' = bucket
    BY <1>3 DEF Block_insert
  <2>4. ShapeInv' /\ blocks' \in [Buckets -> Seq(Lengths)]
        /\ next_unused_slot' \in [Buckets -> Nat] /\ DOMAIN slots' \subseteq Triples
    BY <2>2, <2>3, SameShape
  <2>5. OwnerInv' /\ slot' \in [Threads -> DOMAIN slots \cup {NoSlot}]
        /\ pc' \in [Threads -> PCs]
    BY <1>3, Block_insertOwners
  <2>6. TypeOK'
    BY <1>0, <2>2, <2>3, <2>4, <2>5 DEF TypeOK, PCs
  <2> QED BY <2>2, <2>4, <2>5, <2>6 DEF Inv
<1>4. ASSUME NEW id \in Ids, remove(t, id)
      PROVE  Inv'
  <2>1. UNCHANGED shape /\ erasures' = erasures /\ bucket' = bucket
    BY <1>4 DEF remove
  <2>2. CASE lookup(id) = NoElement
    <3>1. slots' = slots /\ moved' = moved /\ pc' = pc /\ slot' = slot
      BY <1>4, <2>2 DEF remove
    <3>2. IdInv' /\ MovedOnce' /\ moved' \in [Ids' -> Nat]
          /\ Ids' \subseteq [slot : DOMAIN slots', ordinal : Nat]
      BY <3>1, SameIds
    <3>3. ShapeInv' /\ blocks' \in [Buckets -> Seq(Lengths)] /\ Handed' = Handed
          /\ next_unused_slot' \in [Buckets -> Nat] /\ DOMAIN slots' \subseteq Triples
      BY <2>1, <3>1, SameShape
    <3>4. TypeOK'
      BY <1>0, <2>1, <3>1, <3>2, <3>3 DEF TypeOK
    <3>5. OwnerInv'
      BY <1>0, <2>1, <3>1, <3>3 DEF OwnerInv
    <3> QED BY <3>2, <3>3, <3>4, <3>5 DEF Inv
  <2>3. CASE lookup(id) # NoElement
    <3>1. /\ IdInv' /\ MovedOnce'
          /\ Ids' \subseteq [slot : DOMAIN slots', ordinal : Nat]
          /\ moved' \in [Ids' -> Nat]
          /\ DOMAIN slots' = DOMAIN slots
          /\ slots' \in [DOMAIN slots' -> [id : Nat, element : Elements \cup {NoElement}]]
      BY <1>4, <2>3, removeIds
    <3>2. ShapeInv' /\ blocks' \in [Buckets -> Seq(Lengths)]
          /\ next_unused_slot' \in [Buckets -> Nat] /\ DOMAIN slots' \subseteq Triples
      BY <2>1, <3>1, SameShape
    <3>3. OwnerInv' /\ slot' \in [Threads -> DOMAIN slots \cup {NoSlot}]
          /\ pc' \in [Threads -> PCs]
      BY <1>4, <2>3, removeOwners
    <3>4. TypeOK'
      BY <1>0, <2>1, <3>1, <3>2, <3>3 DEF TypeOK, PCs
    <3> QED BY <3>1, <3>2, <3>3, <3>4 DEF Inv
  <2> QED BY <2>2, <2>3
<1>5. CASE push_erasure(t)
  <2>1. slots' = slots /\ moved' = moved /\ UNCHANGED shape /\ bucket' = bucket
    BY <1>5 DEF push_erasure
  <2>2. IdInv' /\ MovedOnce' /\ moved' \in [Ids' -> Nat]
        /\ Ids' \subseteq [slot : DOMAIN slots', ordinal : Nat]
    BY <2>1, SameIds
  <2>3. ShapeInv' /\ blocks' \in [Buckets -> Seq(Lengths)]
        /\ next_unused_slot' \in [Buckets -> Nat] /\ DOMAIN slots' \subseteq Triples
    BY <2>1, SameShape
  <2>4. OwnerInv' /\ slot' \in [Threads -> DOMAIN slots \cup {NoSlot}]
        /\ erasures' \in Seq(DOMAIN slots) /\ pc' \in [Threads -> PCs]
    BY <1>5, push_erasureOwners
  <2>5. TypeOK'
    BY <1>0, <2>1, <2>2, <2>3, <2>4 DEF TypeOK, PCs
  <2> QED BY <2>2, <2>3, <2>4, <2>5 DEF Inv
<1>6. CASE Idle(t)
  <2>1. /\ OwnerInv' /\ slot' = slot /\ pc' \in [Threads -> PCs]
        /\ slots' = slots /\ erasures' = erasures /\ moved' = moved /\ UNCHANGED shape
        /\ bucket' = bucket
    BY <1>6, idleOwners
  <2>2. IdInv' /\ MovedOnce' /\ moved' \in [Ids' -> Nat]
        /\ Ids' \subseteq [slot : DOMAIN slots', ordinal : Nat]
    BY <2>1, SameIds
  <2>3. ShapeInv' /\ blocks' \in [Buckets -> Seq(Lengths)]
        /\ next_unused_slot' \in [Buckets -> Nat] /\ DOMAIN slots' \subseteq Triples
    BY <2>1, SameShape
  <2>4. TypeOK'
    BY <1>0, <2>1, <2>2, <2>3 DEF TypeOK, PCs
  <2> QED BY <2>1, <2>2, <2>3, <2>4 DEF Inv
<1> QED BY <1>1, <1>2, <1>3, <1>4, <1>5, <1>6, <1>7 DEF Step

\* So does a step that changes nothing.
LEMMA StutterInv == Inv /\ UNCHANGED vars => Inv'
<1> SUFFICES ASSUME Inv, UNCHANGED vars PROVE Inv'
  OBVIOUS
<1>1. /\ blocks' = blocks /\ next_unused_slot' = next_unused_slot /\ slots' = slots
      /\ erasures' = erasures /\ pc' = pc /\ slot' = slot /\ moved' = moved
      /\ UNCHANGED shape /\ bucket' = bucket
  BY DEF vars, shape
<1>2. ShapeInv' /\ Handed' = Handed
  BY <1>1, SameShape
<1>3. IdInv' /\ MovedOnce' /\ Ids' = Ids
  BY <1>1, SameIds
<1>4. OwnerInv'
  BY <1>1, <1>2 DEF Inv, OwnerInv
<1>5. TypeOK'
  BY <1>1, <1>3 DEF Inv, TypeOK
<1> QED BY <1>2, <1>3, <1>4, <1>5 DEF Inv

\* Inv holds in every state that the operations of the store, interleaved in any
\* way, lead to.
THEOREM Invariance == Spec => []Inv
<1>1. Inv /\ [Next]_vars => Inv'
  BY Steps, StepInv, StutterInv
<1> QED BY InvInit, <1>1, PTL DEF Spec

-----------------------------------------------------------------------------
\* The places of a slot in the queue, counted.
LEMMA QueuedCount ==
  ASSUME NEW q, Len(q) \in Nat, QueuedOnce(q), NEW s
  PROVE  Cardinality({i \in 1 .. Len(q) : q[i] = s}) = IF Queued(q, s) THEN 1 ELSE 0
<1>1. CASE Queued(q, s)
  <2>1. PICK i \in 1 .. Len(q) : q[i] = s
    BY <1>1 DEF Queued
  <2>2. {j \in 1 .. Len(q) : q[j] = s} = {i}
    BY <2>1 DEF QueuedOnce
  <2> QED BY <1>1, <2>2, FS_Singleton
<1>2. CASE ~Queued(q, s)
  <2>1. {j \in 1 .. Len(q) : q[j] = s} = {}
    BY <1>2 DEF Queued
  <2> QED BY <1>2, <2>1, FS_EmptySet
<1> QED BY <1>1, <1>2

\* The calls that have a slot, counted.
LEMMA HeldCount ==
  ASSUME NEW f, HeldOnce(f), NEW s, s # NoSlot
  PROVE  Cardinality({t \in Threads : f[t] = s}) = IF Held(f, s) THEN 1 ELSE 0
<1>1. CASE Held(f, s)
  <2>1. PICK t \in Threads : f[t] = s
    BY <1>1 DEF Held
  <2>2. {u \in Threads : f[u] = s} = {t}
    BY <2>1 DEF HeldOnce
  <2> QED BY <1>1, <2>2, FS_Singleton
<1>2. CASE ~Held(f, s)
  <2>1. {u \in Threads : f[u] = s} = {}
    BY <1>2 DEF Held
  <2> QED BY <1>2, <2>1, FS_EmptySet
<1> QED BY <1>1, <1>2

\* The owners of a slot, added up.
LEMMA Conserved == Inv => SlotsConserved
<1> SUFFICES ASSUME Inv, NEW s \in DOMAIN slots
             PROVE  Owners(s) = IF s \in Handed THEN 1 ELSE 0
  BY DEF SlotsConserved
<1>1. /\ HeldOnce(slot) /\ QueuedOnce(erasures) /\ s # NoSlot /\ Len(erasures) \in Nat
      /\ OwnerInv
  BY Facts DEF Inv
<1>2. Cardinality({i \in 1 .. Len(erasures) : erasures[i] = s})
          = IF Queued(erasures, s) THEN 1 ELSE 0
  BY <1>1, QueuedCount
<1>3. Cardinality({t \in Threads : slot[t] = s}) = IF Held(slot, s) THEN 1 ELSE 0
  BY <1>1, HeldCount
<1>4. s \in Occupied <=> slots[s].element # NoElement
  BY DEF Occupied
<1>5. Owners(s) = (IF slots[s].element # NoElement THEN 1 ELSE 0)
                  + (IF Queued(erasures, s) THEN 1 ELSE 0)
                  + (IF Held(slot, s) THEN 1 ELSE 0)
                  + (IF slots[s].id = RESERVED_ID THEN 1 ELSE 0)
  BY <1>2, <1>3, <1>4 DEF Owners
<1>6. /\ slots[s].element # NoElement =>
             ~Queued(erasures, s) /\ ~Held(slot, s) /\ slots[s].id # RESERVED_ID
      /\ Queued(erasures, s) => ~Held(slot, s) /\ slots[s].id # RESERVED_ID
      /\ Held(slot, s) => slots[s].id # RESERVED_ID
      /\ s \in Handed <=> \/ slots[s].element # NoElement
                          \/ Queued(erasures, s)
                          \/ Held(slot, s)
                          \/ slots[s].id = RESERVED_ID
  BY <1>1 DEF OwnerInv
<1> QED BY <1>5, <1>6

\* Every slot that a bucket has handed out has exactly one owner, whatever
\* insertions and removals run at once: none is lost on its way through
\* push_erasure and the queue, and no two insertions meet in one.
THEOREM EverySlotHasOneOwner == Spec => []SlotsConserved
BY Invariance, Conserved, PTL

\* An element is moved out by exactly one removal or is still in the store:
\* removals that race for one Id never both read the cell.
THEOREM RemovedAtMostOnce == Spec => []MovedOnce
<1>1. Inv => MovedOnce
  BY DEF Inv
<1> QED BY Invariance, <1>1, PTL

\* An Id whose ordinal matches its slot names an occupied slot, which the lock
\* operations of Header and get_exclusive rely on.
THEOREM MatchingOrdinalIsOccupied == Spec => []MatchMeansOccupied
<1>1. Inv => MatchMeansOccupied
  <2> SUFFICES ASSUME Inv, NEW id \in Ids, slots[id.slot].id = id.ordinal
               PROVE  id.slot \in Occupied
    BY DEF MatchMeansOccupied
  <2> QED BY IdFacts DEF Occupied
<1> QED BY Invariance, <1>1, PTL

-----------------------------------------------------------------------------
\* The map of the refinement: what the Ids in circulation name.
Named == [id \in Ids |-> lookup(id)]

\* The empty store is the empty map.
LEMMA MapInit == Init => Map!Init
<1> SUFFICES ASSUME Init PROVE Map!Init
  OBVIOUS
<1>1. Ids = {} /\ out = [id |-> NoElement, element |-> NoElement]
  BY DEF Init, Ids
<1> QED BY <1>1 DEF Map!Init

\* The map is unchanged where every Id names what it named.
LEMMA MapStutter ==
  ASSUME Ids' = Ids, \A id \in Ids : lookup(id)' = lookup(id)
  PROVE  Named' = Named
BY DEF Named

\* Block::insert is an insertion into the map, under an Id that is new.
LEMMA MapInsert ==
  ASSUME Inv, NEW t \in Threads, NEW e \in Elements, Block_insert(t, e)
  PROVE  Map!Insert
<1>1. PICK new : new = [slot |-> slot[t], ordinal |-> slots[slot[t]].id]
  OBVIOUS
<1>2. /\ new \notin Ids /\ Ids' = Ids \cup {new}
      /\ out' = [id |-> new, element |-> e]
      /\ lookup(new)' = e
      /\ \A i \in Ids : lookup(i)' = lookup(i)
  BY <1>1, Block_insertIds
<1>3. Named' = [id \in Ids \cup {new} |-> IF id = new THEN e ELSE Named[id]]
  BY <1>2 DEF Named
<1>4. out'.id = new /\ DOMAIN Named = Ids
  BY <1>2 DEF Named
<1> QED BY <1>2, <1>3, <1>4 DEF Map!Insert, Map!Answer, Map!Ids, Named

\* read and write answer what the map has for the Id.
LEMMA MapAccess ==
  ASSUME Inv, NEW t \in Threads, NEW id \in Ids, access(t, id)
  PROVE  Map!Access(id)
<1>1. Ids' = Ids /\ (\A i \in Ids : lookup(i)' = lookup(i))
      /\ out' = [id |-> id, element |-> lookup(id)]
  BY DEF access, Ids, lookup, Answer
<1>2. Named' = Named /\ Named[id] = lookup(id)
  BY <1>1, MapStutter DEF Named
<1> QED BY <1>1, <1>2 DEF Map!Access, Map!Answer, Named

\* remove is a removal from the map, also of an Id that names nothing.
LEMMA MapRemove ==
  ASSUME Inv, NEW t \in Threads, NEW id \in Ids, remove(t, id)
  PROVE  Map!Remove(id)
<1>1. out' = [id |-> id, element |-> lookup(id)] /\ Named[id] = lookup(id)
  BY DEF remove, Answer, Named
<1>2. /\ Ids' = Ids /\ lookup(id)' = NoElement
      /\ \A i \in Ids \ {id} : lookup(i)' = lookup(i)
  <2>1. CASE lookup(id) = NoElement
    BY <2>1 DEF remove, Ids, lookup
  <2>2. CASE lookup(id) # NoElement
    BY <2>2, removeIds
  <2> QED BY <2>1, <2>2
<1>3. Named' = [Named EXCEPT ![id] = NoElement]
  BY <1>2 DEF Named
<1> QED BY <1>1, <1>3 DEF Map!Remove, Map!Answer, Named

\* Every step of the store is a step of the map or leaves it alone.
LEMMA MapStep ==
  ASSUME Inv, [Next]_vars
  PROVE  [Map!Next]_(Map!vars)
<1>1. ASSUME out' = out, Named' = Named
      PROVE  UNCHANGED Map!vars
  BY <1>1 DEF Map!vars, Named
<1>2. ASSUME moved' = moved, DOMAIN slots \subseteq DOMAIN slots',
             \A x \in DOMAIN slots : slots'[x] = slots[x], out' = out
      PROVE  UNCHANGED Map!vars
  BY <1>1, <1>2, SameIds, MapStutter
<1>3. ASSUME NEW id \in Ids
      PROVE  id \in Map!Ids
  BY DEF Map!Ids
<1>4. ASSUME NEW t \in Threads, Step(t)
      PROVE  [Map!Next]_(Map!vars)
  <2>1. CASE insert(t) \/ push_erasure(t)
    BY <1>2, <2>1 DEF insert, push_erasure
  <2>2. ASSUME NEW b \in Buckets, Gets(t, b)
        PROVE  UNCHANGED Map!vars
    <3>1. PICK s : Fresh(t, s)
      BY <2>2, FreshSlot
    <3>2. moved' = moved /\ out' = out
      BY <2>2 DEF Gets, HandOut
    <3> QED BY <1>2, <3>1, <3>2 DEF Fresh
  <2>7. ASSUME NEW b \in Buckets, Misses(t, b)
        PROVE  UNCHANGED Map!vars
    BY <1>2, <2>7, MissCase
  <2>3. ASSUME NEW e \in Elements, Block_insert(t, e)
        PROVE  Map!Next
    BY <2>3, MapInsert DEF Map!Next
  <2>4. ASSUME NEW id \in Ids, remove(t, id)
        PROVE  Map!Next
    BY <1>3, <2>4, MapRemove DEF Map!Next
  <2>5. ASSUME NEW id \in Ids, access(t, id)
        PROVE  Map!Next
    BY <1>3, <2>5, MapAccess DEF Map!Next
  <2>6. CASE capacity(t) \/ CapacityOfBucket(t)
    BY <1>2, <2>6 DEF capacity, CapacityOfBucket
  <2> QED BY <1>4, <2>1, <2>2, <2>3, <2>4, <2>5, <2>6, <2>7 DEF Step, Idle
<1>5. CASE UNCHANGED vars
  BY <1>2, <1>5 DEF vars
<1> QED BY <1>4, <1>5, Steps

\* The store implements the map: every answer of insert, read, write and remove
\* is the one a map from Ids to elements gives, no Id is given out twice, and no
\* operation on one Id disturbs another.
THEOREM Refinement == Spec => ImplementsMap
<1>1. Inv /\ [Next]_vars => [Map!Next]_(Map!vars)
  BY MapStep
<1> QED BY MapInit, Invariance, <1>1, PTL DEF Spec, ImplementsMap, Map!Spec

-----------------------------------------------------------------------------
\* The blocks of a list: each is half the one before, the last has one slot.
Halving(list) ==
    /\ list # <<>> => list[Len(list)] = INITIAL_BLOCK_SIZE
    /\ \A i \in 1 .. (Len(list) - 1) : list[i] = 2 * list[i + 1]
    /\ \A i, j \in 1 .. Len(list) : i < j => list[i] >= 2 * list[j]

\* expand doubles, so every bucket's list halves.
ListInv == \A b \in Buckets : Halving(blocks[b])

\* The blocks of a list that halves as numbers: they differ from one another.
LEMMA HalvingFacts ==
  ASSUME NEW list \in Seq(Lengths), Halving(list)
  PROVE  /\ Len(list) \in Nat /\ head_len(list) \in Nat
         /\ \A i \in 1 .. Len(list) : list[i] \in Lengths /\ list[i] \in Nat \ {0}
         /\ list # <<>> => /\ head_len(list) = list[1] /\ 1 \in 1 .. Len(list)
                           /\ head_len(list) \in Lengths
         /\ \A i, j \in 1 .. Len(list) : list[i] = list[j] => i = j
<1>1. Len(list) \in Nat /\ \A i \in 1 .. Len(list) : list[i] \in Lengths
  OBVIOUS
<1>2. \A i \in 1 .. Len(list) : list[i] \in Nat \ {0}
  BY <1>1, LengthsInHalf
<1>3. list # <<>> => head_len(list) = list[1] /\ 1 \in 1 .. Len(list)
  BY <1>1 DEF head_len
<1>4. head_len(list) \in Nat
  BY <1>1, <1>2, <1>3 DEF head_len
<1>5. ASSUME NEW i \in 1 .. Len(list), NEW j \in 1 .. Len(list), list[i] = list[j]
      PROVE  i = j
  <2>1. i < j => list[i] >= 2 * list[j]
    BY DEF Halving
  <2>2. j < i => list[j] >= 2 * list[i]
    BY DEF Halving
  <2> QED BY <1>1, <1>2, <1>5, <2>1, <2>2
<1> QED BY <1>1, <1>2, <1>3, <1>4, <1>5

\* A list halves in front of which expand has put a block of twice the length.
LEMMA HalvingGrow ==
  ASSUME NEW list \in Seq(Lengths), Halving(list), NEW x \in Lengths,
         list = <<>> => x = INITIAL_BLOCK_SIZE,
         list # <<>> => x = 2 * head_len(list)
  PROVE  Halving(<<x>> \o list)
<1>1. PICK big : big = <<x>> \o list
  OBVIOUS
<1>2. /\ Len(big) = Len(list) + 1 /\ big[1] = x /\ Len(list) \in Nat
      /\ \A i \in 2 .. Len(big) : big[i] = list[i - 1]
  BY <1>1
<1>3. /\ \A i \in 1 .. Len(list) : list[i] \in Nat \ {0}
      /\ list # <<>> => head_len(list) = list[1] /\ 1 \in 1 .. Len(list)
      /\ x \in Nat \ {0}
  BY HalvingFacts, LengthsInHalf
<1>4. big[Len(big)] = INITIAL_BLOCK_SIZE
  <2>1. CASE list = <<>>
    BY <1>2, <2>1
  <2>2. CASE list # <<>>
    <3>1. Len(big) \in 2 .. Len(big)
      BY <1>2, <1>3, <2>2
    <3>2. big[Len(big)] = list[Len(list)]
      BY <1>2, <3>1
    <3> QED BY <2>2, <3>2 DEF Halving
  <2> QED BY <2>1, <2>2
<1>5. ASSUME NEW i \in 1 .. (Len(big) - 1) PROVE big[i] = 2 * big[i + 1]
  <2>1. i + 1 \in 2 .. Len(big) /\ big[i + 1] = list[(i + 1) - 1] /\ (i + 1) - 1 = i
    BY <1>2
  <2>2. CASE i = 1
    BY <1>2, <1>3, <2>1, <2>2
  <2>3. CASE i # 1
    <3>1. i \in 2 .. Len(big) /\ i - 1 \in 1 .. (Len(list) - 1) /\ (i - 1) + 1 = i
      BY <1>2, <2>3
    <3>2. list[i - 1] = 2 * list[(i - 1) + 1]
      BY <3>1 DEF Halving
    <3> QED BY <1>2, <2>1, <3>1, <3>2
  <2> QED BY <2>2, <2>3
<1>6. ASSUME NEW i \in 1 .. Len(big), NEW j \in 1 .. Len(big), i < j
      PROVE  big[i] >= 2 * big[j]
  <2>1. j \in 2 .. Len(big) /\ j - 1 \in 1 .. Len(list) /\ big[j] = list[j - 1]
    BY <1>2, <1>6
  <2>2. CASE i = 1
    <3>1. list # <<>> /\ 1 \in 1 .. Len(list)
      BY <1>2, <1>3, <2>1
    <3>2. j - 1 # 1 => list[1] >= 2 * list[j - 1]
      BY <2>1, <3>1 DEF Halving
    <3>3. list[j - 1] <= list[1]
      BY <1>3, <2>1, <3>1, <3>2
    <3>4. x = 2 * list[1] /\ list[1] \in Nat /\ list[j - 1] \in Nat
      BY <1>3, <2>1, <3>1
    <3> QED BY <1>2, <2>1, <2>2, <3>3, <3>4
  <2>3. CASE i # 1
    <3>1. /\ i \in 2 .. Len(big) /\ i - 1 \in 1 .. Len(list) /\ i - 1 < j - 1
          /\ big[i] = list[i - 1]
      BY <1>2, <1>6, <2>3
    <3>2. list[i - 1] >= 2 * list[j - 1]
      BY <2>1, <3>1 DEF Halving
    <3> QED BY <2>1, <3>1, <3>2
  <2> QED BY <2>2, <2>3
<1> QED BY <1>1, <1>4, <1>5, <1>6 DEF Halving

\* Steps of the shared store keep its lists halving: expand doubles.
LEMMA ListStep ==
  ASSUME Inv, ListInv, NEW t \in Threads, Step(t)
  PROVE  ListInv'
<1>1. ASSUME UNCHANGED shape PROVE ListInv'
  BY <1>1 DEF ListInv, shape
<1>7. ASSUME NEW b \in Buckets, Misses(t, b) PROVE ListInv'
  <2>1. blocks' = blocks
    BY <1>7, MissCase
  <2> QED BY <2>1 DEF ListInv
<1>2. ASSUME NEW b \in Buckets, Gets(t, b) PROVE ListInv'
  <2>1. CASE room(b)
    <3>1. blocks' = blocks
      BY <1>2, <2>1, RoomCase
    <3> QED BY <3>1 DEF ListInv
  <2>2. CASE ~room(b)
    <3>1. PICK x : x = block_size(blocks[b])
      OBVIOUS
    <3>2. PICK list : list = blocks[b]
      OBVIOUS
    <3>3. x \in Lengths /\ blocks' = [blocks EXCEPT ![b] = <<x>> \o list]
      BY <1>2, <2>2, <3>1, <3>2, GrowCase
    <3>4. list \in Seq(Lengths) /\ Halving(list)
      BY <3>2 DEF Inv, TypeOK, ListInv
    <3>5. ~doubling_overflows(head_len(list))
      BY <1>2, <2>2, <3>2 DEF Gets
    <3>6. list = <<>> => x = INITIAL_BLOCK_SIZE
      BY <3>1, <3>2 DEF block_size
    <3>7. list # <<>> => x = 2 * head_len(list)
      <4>1. list # <<>> => head_len(list) \in Lengths
        BY <3>4, HalvingFacts
      <4>2. list # <<>> => x = (head_len(list) * RESIZE_FACTOR) % U32
        BY <3>1, <3>2 DEF block_size
      <4> QED BY <3>5, <4>1, <4>2, NextLength
    <3>8. Halving(<<x>> \o list)
      BY <3>3, <3>4, <3>6, <3>7, HalvingGrow
    <3>9. \A c \in Buckets : blocks'[c] = IF c = b THEN <<x>> \o list ELSE blocks[c]
      BY <3>3 DEF Inv, TypeOK
    <3> QED BY <3>8, <3>9 DEF ListInv
  <2> QED BY <2>1, <2>2
<1>3. ASSUME NEW e \in Elements, Block_insert(t, e) PROVE UNCHANGED shape
  BY <1>3 DEF Block_insert
<1>4. ASSUME NEW id \in Ids, remove(t, id) PROVE UNCHANGED shape
  BY <1>4 DEF remove
<1>5. CASE insert(t) \/ push_erasure(t)
  BY <1>1, <1>5 DEF insert, push_erasure
<1>6. CASE Idle(t)
  BY <1>1, <1>6 DEF Idle, access, capacity, CapacityOfBucket
<1> QED BY <1>1, <1>2, <1>3, <1>4, <1>5, <1>6, <1>7 DEF Step

\* A remainder of a number between the divisor and twice the divisor.
LEMMA ModOnce ==
  ASSUME NEW u \in Nat \ {0}, NEW x \in Nat, u <= x, x < 2 * u
  PROVE  x % u = x - u
<1>1. x < 3 * u /\ ~(x < u)
  OBVIOUS
<1> QED BY ONLY <1>1, u \in Nat \ {0}, x \in Nat, x < 2 * u, SmallMod

\* The slots of a list, and those of them that are handed out when n of the
\* head's are.
AllocatedIn(list) == IF list = <<>> THEN 0 ELSE 2 * head_len(list) - 1
TouchedIn(list, n) == IF list = <<>> THEN 0 ELSE head_len(list) - 1 + n

\* head_size_to_total_size and touched_size find them from the head's length
\* alone.  While last is in the head no subtraction wraps; past its end two do,
\* and make up for each other unless the result is beyond a u32.
LEMMA ListSizes ==
  ASSUME NEW list \in Seq(Lengths), Halving(list), NEW last \in Nat,
         last <= head_len(list) \/ (list # <<>> /\ TouchedIn(list, last) < U32)
  PROVE  /\ head_size_to_total_size(head_len(list)) = AllocatedIn(list)
         /\ touched_size(head_len(list), last) = TouchedIn(list, last)
<1>1. PICK h : h = head_len(list)
  OBVIOUS
<1>2. touched_size(h, last) =
          (head_size_to_total_size(h) + U32 - ((h + U32 - last) % U32)) % U32
  BY DEF touched_size
<1>3. U32 \in Nat \ {0, 1}
  BY U32Assumption
<1>4. CASE list = <<>>
  <2>1. h = 0 /\ last = 0
    BY <1>1, <1>4 DEF head_len
  <2>2. U32 % U32 = 0
    <3>1. U32 \in Nat \ {0} /\ U32 <= U32 /\ U32 < 2 * U32 /\ U32 - U32 = 0
      BY <1>3
    <3> QED BY ONLY <3>1, ModOnce
  <2>3. h + U32 - last = U32
    BY <1>3, <2>1
  <2>4. head_size_to_total_size(h) + U32 - 0 = U32 /\ head_size_to_total_size(h) = 0
    BY <1>3, <2>1, TotalOfNothing
  <2> QED BY <1>1, <1>2, <1>4, <2>2, <2>3, <2>4 DEF AllocatedIn, TouchedIn
<1>5. CASE list # <<>>
  <2>1. h \in Lengths /\ h = list[1] /\ h = Head(list)
    <3>1. h = Head(list)
      BY <1>1, <1>5 DEF head_len
    <3> QED BY <1>1, <1>5, <3>1, HalvingFacts
  <2>2. h \in Nat \ {0} /\ 2 * h <= U32
    BY <2>1, LengthsInHalf
  <2>7. h - 1 + last < U32
    <3>1. TouchedIn(list, last) = h - 1 + last
      BY <1>1, <1>5 DEF TouchedIn
    <3> QED BY <1>1, <1>3, <2>2, <3>1
  <2>3. head_size_to_total_size(h) = 2 * h - 1
    <3>1. list \in Seq(Nat \ {0})
      BY LengthsInHalf
    <3> QED BY <1>5, <2>1, <3>1, TotalOfList DEF Halving
  <2>4. (h + U32 - last) % U32 = IF last <= h THEN h - last ELSE h + U32 - last
    <3>1. PICK x : x = h + U32 - last
      OBVIOUS
    <3>2. CASE last <= h
      <4>1. /\ U32 \in Nat \ {0} /\ x \in Nat /\ U32 <= x /\ x < 2 * U32
            /\ x - U32 = h - last
        BY <1>3, <2>2, <3>1, <3>2
      <4>2. x % U32 = h - last
        BY ONLY <4>1, ModOnce
      <4> QED BY <3>1, <3>2, <4>2
    <3>3. CASE ~(last <= h)
      <4>1. U32 \in Nat \ {0} /\ x \in Nat /\ x < U32
        BY <1>3, <2>2, <2>7, <3>1, <3>3
      <4>2. x % U32 = x
        BY ONLY <4>1
      <4> QED BY <3>1, <3>3, <4>2
    <3> QED BY <3>2, <3>3
  <2>5. PICK y : y = (2 * h - 1) + U32 - ((h + U32 - last) % U32)
    OBVIOUS
  <2>6. y % U32 = h - 1 + last
    <3>1. CASE last <= h
      <4>1. /\ U32 \in Nat \ {0} /\ y \in Nat /\ U32 <= y /\ y < 2 * U32
            /\ y - U32 = h - 1 + last
        BY <1>3, <2>2, <2>4, <2>5, <3>1
      <4> QED BY ONLY <4>1, ModOnce
    <3>2. CASE ~(last <= h)
      <4>1. U32 \in Nat \ {0} /\ y \in Nat /\ y < U32 /\ y = h - 1 + last
        BY <1>3, <2>2, <2>4, <2>5, <2>7, <3>2
      <4> QED BY ONLY <4>1
    <3> QED BY <3>1, <3>2
  <2> QED BY <1>1, <1>2, <1>5, <2>3, <2>5, <2>6 DEF AllocatedIn, TouchedIn
<1> QED BY <1>4, <1>5

-----------------------------------------------------------------------------
\* The slots of one bucket, of those before it, and of it and those behind.
Of(S, b) == {s \in S : s[1] = b}
Before(S, b) == {s \in S : s[1] < b}
From(S, b) == {s \in S : s[1] >= b}

\* A bucket has as many slots, and as many of them handed out, as its list and
\* its counter say.
CountInv ==
    /\ IsFiniteSet(DOMAIN slots)
    /\ \A b \in Buckets :
           /\ Cardinality(Of(DOMAIN slots, b)) = AllocatedIn(blocks[b])
           /\ Cardinality(Of(Handed, b)) = TouchedIn(blocks[b], taken(b))

\* The calls that have missed in bucket b and have not come back to it.
Missed(b) == {t \in Threads : pc[t] = "slow" /\ bucket[t] = b}

\* A counter is past its head by at most one for each of them: expand resets it.
MissInv == \A b \in Buckets : overshoot(b) <= Cardinality(Missed(b))

\* A total n over the buckets before b, of a call that found since slots in S: no
\* more than there are by now, and with all that is ahead no less than there were.
Within(n, S, b, since) ==
    /\ n \in Nat /\ since \in Nat
    /\ n <= Cardinality(Before(S, b))
    /\ since <= n + Cardinality(From(S, b))

\* The totals of a capacity call.
Sums == [bucket : Nat, touched : Nat, allocated : Nat, since : Nat \X Nat, past : Nat]

\* The calls beside the one that asks for the capacity.
Others == Cardinality(Threads) - 1

\* The totals r of a call; the touched one has too much in it what the counters
\* were past their heads, at most one for each bucket and other thread.
SumsWithin(r) ==
    /\ r.bucket <= BUCKET_COUNT
    /\ Within(r.touched - r.past, Handed, r.bucket, r.since[1])
    /\ Within(r.allocated, DOMAIN slots, r.bucket, r.since[2])
    /\ r.past <= r.bucket * Others

\* The totals of the capacity calls under way.
SumInv ==
    /\ sum \in [Threads -> Sums]
    /\ \A t \in Threads : pc[t] = "capacity" => SumsWithin(sum[t])

\* What capacity relies on.
CapacityInv == ListInv /\ CountInv /\ MissInv /\ SumInv

\* The buckets together have fewer slots than a u32 counts, by as much as the
\* counters may be past their heads.
FitsU32 == Cardinality(DOMAIN slots) + BUCKET_COUNT * Others < U32

\* Two sets that have nothing in common, counted.
LEMMA DisjointCount ==
  ASSUME NEW A, NEW B, IsFiniteSet(A), IsFiniteSet(B), A \cap B = {}
  PROVE  /\ IsFiniteSet(A \cup B)
         /\ Cardinality(A \cup B) = Cardinality(A) + Cardinality(B)
         /\ Cardinality(A) \in Nat /\ Cardinality(B) \in Nat
<1>1. /\ IsFiniteSet(A \cup B)
      /\ Cardinality(A \cup B) =
             Cardinality(A) + Cardinality(B) - Cardinality(A \cap B)
  BY FS_Union
<1>2. Cardinality(A) \in Nat /\ Cardinality(B) \in Nat /\ Cardinality(A \cap B) = 0
  BY FS_CardinalityType, FS_EmptySet
<1> QED BY <1>1, <1>2

\* Going on to the next bucket moves its slots from behind to before.
LEMMA BucketsApart ==
  ASSUME NEW S, S \subseteq Triples, IsFiniteSet(S), NEW b \in Nat
  PROVE  /\ IsFiniteSet(Of(S, b)) /\ IsFiniteSet(Before(S, b)) /\ IsFiniteSet(From(S, b))
         /\ Cardinality(S) = Cardinality(Before(S, b)) + Cardinality(From(S, b))
         /\ Cardinality(Before(S, b + 1)) = Cardinality(Before(S, b)) + Cardinality(Of(S, b))
         /\ Cardinality(From(S, b)) = Cardinality(Of(S, b)) + Cardinality(From(S, b + 1))
         /\ Cardinality(Of(S, b)) \in Nat /\ Cardinality(Before(S, b)) \in Nat
         /\ Cardinality(From(S, b)) \in Nat /\ Cardinality(From(S, b + 1)) \in Nat
<1>1. \A s \in S : s[1] \in Nat
  BY SlotNames
<1>2. /\ Before(S, b) \cap From(S, b) = {} /\ S = Before(S, b) \cup From(S, b)
      /\ Before(S, b) \cap Of(S, b) = {}
      /\ Before(S, b + 1) = Before(S, b) \cup Of(S, b)
      /\ Of(S, b) \cap From(S, b + 1) = {}
      /\ From(S, b) = Of(S, b) \cup From(S, b + 1)
  BY <1>1 DEF Before, From, Of
<1>3. /\ Of(S, b) \subseteq S /\ Before(S, b) \subseteq S
      /\ From(S, b) \subseteq S /\ From(S, b + 1) \subseteq S
  BY DEF Before, From, Of
<1>4. /\ IsFiniteSet(Of(S, b)) /\ IsFiniteSet(Before(S, b))
      /\ IsFiniteSet(From(S, b)) /\ IsFiniteSet(From(S, b + 1))
  BY <1>3, FS_Subset
<1> QED BY <1>2, <1>4, DisjointCount

\* A call starts with nothing before it.
LEMMA WithinStarts ==
  ASSUME NEW S, S \subseteq Triples, IsFiniteSet(S)
  PROVE  Within(0, S, 0, Cardinality(S))
<1>1. \A s \in S : s[1] \in Nat
  BY SlotNames
<1>2. Before(S, 0) = {} /\ From(S, 0) = S
  BY <1>1 DEF Before, From
<1>3. Cardinality(S) \in Nat /\ Cardinality({}) = 0
  BY FS_CardinalityType, FS_EmptySet
<1> QED BY <1>2, <1>3 DEF Within

\* Slots that are added while the call runs, on either side, do no harm.
LEMMA WithinGrows ==
  ASSUME NEW S, NEW T, S \subseteq T, T \subseteq Triples, IsFiniteSet(T),
         NEW b \in Nat, NEW n, NEW since, Within(n, S, b, since)
  PROVE  Within(n, T, b, since)
<1>1. /\ IsFiniteSet(Before(T, b)) /\ IsFiniteSet(From(T, b))
  BY BucketsApart
<1>2. Before(S, b) \subseteq Before(T, b) /\ From(S, b) \subseteq From(T, b)
  BY DEF Before, From
<1>3. /\ Cardinality(Before(S, b)) <= Cardinality(Before(T, b))
      /\ Cardinality(From(S, b)) <= Cardinality(From(T, b))
      /\ IsFiniteSet(Before(S, b)) /\ IsFiniteSet(From(S, b))
  BY <1>1, <1>2, FS_Subset
<1>4. /\ Cardinality(Before(S, b)) \in Nat /\ Cardinality(From(S, b)) \in Nat
      /\ Cardinality(Before(T, b)) \in Nat /\ Cardinality(From(T, b)) \in Nat
  BY <1>1, <1>3, FS_CardinalityType
<1> QED BY <1>3, <1>4 DEF Within

\* Adding a bucket's slots to the total, which does not wrap.
LEMMA WithinAdds ==
  ASSUME NEW S, S \subseteq Triples, IsFiniteSet(S), Cardinality(S) < U32,
         NEW b \in Nat, NEW n, NEW since, Within(n, S, b, since)
  PROVE  Within((n + Cardinality(Of(S, b))) % U32, S, b + 1, since)
<1> DEFINE o == Cardinality(Of(S, b))
           p == Cardinality(Before(S, b))
           q == Cardinality(Before(S, b + 1))
           f == Cardinality(From(S, b))
           g == Cardinality(From(S, b + 1))
           c == Cardinality(S)
<1>1. /\ o \in Nat /\ p \in Nat /\ f \in Nat /\ g \in Nat
      /\ c = p + f /\ q = p + o /\ f = o + g
  BY BucketsApart
<1>2. n \in Nat /\ since \in Nat /\ n <= p /\ since <= n + f
  BY DEF Within
<1>3. c < U32 /\ U32 \in Nat \ {0}
  BY U32Assumption
<1> SUFFICES Within((n + o) % U32, S, b + 1, since)
  OBVIOUS
<1> HIDE DEF o, p, q, f, g, c
<1>4. n + o < U32 /\ n + o \in Nat
  BY <1>1, <1>2, <1>3
<1>5. (n + o) % U32 = n + o
  BY <1>3, <1>4
<1>6. n + o <= q /\ since <= (n + o) + g
  BY <1>1, <1>2
<1> QED BY <1>2, <1>4, <1>5, <1>6 DEF Within, q, g

\* Adding a bucket's slots to a total n that is p too large, and what the bucket's
\* counter is past its head to p; the sum does not wrap.
LEMMA WithinAddsPast ==
  ASSUME NEW S, S \subseteq Triples, IsFiniteSet(S), NEW b \in Nat, NEW since,
         NEW n \in Nat, NEW p \in Nat, NEW v \in Nat,
         Cardinality(S) + (p + v) < U32, Within(n - p, S, b, since)
  PROVE  /\ (n + (Cardinality(Of(S, b)) + v)) % U32 \in Nat
         /\ Within(((n + (Cardinality(Of(S, b)) + v)) % U32) - (p + v), S, b + 1, since)
<1>1. PICK o : o = Cardinality(Of(S, b))
  OBVIOUS
<1>2. PICK m : m = n - p
  OBVIOUS
<1>3. /\ o \in Nat /\ m \in Nat /\ m + o <= Cardinality(S) /\ Cardinality(S) \in Nat
  <2>1. m \in Nat /\ m <= Cardinality(Before(S, b))
    BY <1>2 DEF Within
  <2>2. /\ Cardinality(S) = Cardinality(Before(S, b)) + Cardinality(From(S, b))
        /\ Cardinality(From(S, b)) = o + Cardinality(From(S, b + 1))
        /\ Cardinality(From(S, b + 1)) \in Nat /\ o \in Nat
        /\ Cardinality(Before(S, b)) \in Nat
    BY <1>1, BucketsApart
  <2> QED BY <2>1, <2>2
<1>4. Cardinality(S) < U32 /\ U32 \in Nat \ {0}
  BY <1>3, U32Assumption
<1>5. Within((m + o) % U32, S, b + 1, since)
  BY <1>1, <1>2, <1>4, WithinAdds
<1>6. (m + o) % U32 = m + o
  <2>1. m + o \in Nat /\ m + o < U32
    BY <1>3, <1>4
  <2> QED BY ONLY <1>4, <2>1
<1>7. (n + (o + v)) % U32 = n + (o + v)
  <2>1. n + (o + v) \in Nat /\ n + (o + v) < U32
    BY <1>2, <1>3, <1>4
  <2> QED BY ONLY <1>4, <2>1
<1>8. (n + (o + v)) - (p + v) = m + o /\ n + (o + v) \in Nat
  BY <1>2, <1>3
<1>9. PICK w : w = (n + (o + v)) % U32
  OBVIOUS
<1>10. w \in Nat /\ w - (p + v) = (m + o) % U32
  <2>1. w = n + (o + v)
    BY ONLY <1>7, <1>9
  <2>2. w \in Nat /\ w - (p + v) = m + o
    BY <1>8, <2>1
  <2> QED BY ONLY <1>6, <2>2
<1>11. Within(w - (p + v), S, b + 1, since)
  BY <1>5, <1>10
<1> QED BY <1>1, <1>9, <1>10, <1>11

\* After the last bucket all slots are before.
LEMMA WithinEnds ==
  ASSUME NEW S, S \subseteq Triples, \A s \in S : s[1] \in Buckets,
         NEW n, NEW since, Within(n, S, BUCKET_COUNT, since)
  PROVE  since <= n /\ n <= Cardinality(S)
<1>1. \A s \in S : s[1] < BUCKET_COUNT /\ ~(s[1] >= BUCKET_COUNT)
  BY BucketsAssumption DEF Buckets
<1>2. Before(S, BUCKET_COUNT) = S /\ From(S, BUCKET_COUNT) = {}
  BY <1>1 DEF Before, From
<1> QED BY <1>2, FS_EmptySet DEF Within

-----------------------------------------------------------------------------
\* The slots of the store as the lemmas above need them.
LEMMA SlotSets ==
  ASSUME Inv, IsFiniteSet(DOMAIN slots)
  PROVE  /\ DOMAIN slots \subseteq Triples /\ Handed \subseteq DOMAIN slots
         /\ \A s \in DOMAIN slots : s[1] \in Buckets
         /\ IsFiniteSet(Handed)
         /\ Cardinality(Handed) <= Cardinality(DOMAIN slots)
         /\ Cardinality(Handed) \in Nat /\ Cardinality(DOMAIN slots) \in Nat
<1>1. DOMAIN slots \subseteq Triples /\ Handed \subseteq DOMAIN slots
  BY DEF Inv, TypeOK, Handed
<1>2. \A s \in DOMAIN slots : s[1] \in Buckets
  BY SlotInBlock DEF Inv
<1>3. IsFiniteSet(Handed) /\ Cardinality(Handed) <= Cardinality(DOMAIN slots)
  BY <1>1, FS_Subset
<1> QED BY <1>1, <1>2, <1>3, FS_CardinalityType

\* What a bucket reports is what it has, and what its counter is past its head.
LEMMA BucketReports ==
  ASSUME Inv, CapacityInv, NEW b \in Buckets,
         Cardinality(Of(Handed, b)) + overshoot(b) < U32
  PROVE  /\ bucket_touched(b) = Cardinality(Of(Handed, b)) + overshoot(b)
         /\ bucket_allocated(b) = Cardinality(Of(DOMAIN slots, b))
<1>1. /\ blocks[b] \in Seq(Lengths) /\ Halving(blocks[b])
      /\ next_unused_slot[b] \in Nat /\ head_len(blocks[b]) \in Nat
      /\ blocks[b] = <<>> => next_unused_slot[b] = 0 /\ head_len(blocks[b]) = 0
  BY BucketFacts DEF Inv, CapacityInv, ListInv
<1>2. /\ Cardinality(Of(Handed, b)) = TouchedIn(blocks[b], taken(b))
      /\ Cardinality(Of(DOMAIN slots, b)) = AllocatedIn(blocks[b])
  BY DEF CapacityInv, CountInv
<1>3. /\ taken(b) \in Nat /\ overshoot(b) \in Nat
      /\ next_unused_slot[b] = taken(b) + overshoot(b)
  BY CounterParts DEF Inv
<1>4. TouchedIn(blocks[b], next_unused_slot[b]) =
          TouchedIn(blocks[b], taken(b)) + overshoot(b)
  BY <1>1, <1>3 DEF TouchedIn
<1>5. \/ next_unused_slot[b] <= head_len(blocks[b])
      \/ blocks[b] # <<>> /\ TouchedIn(blocks[b], next_unused_slot[b]) < U32
  BY <1>1, <1>2, <1>4
<1>6. /\ bucket_touched(b) = TouchedIn(blocks[b], next_unused_slot[b])
      /\ bucket_allocated(b) = AllocatedIn(blocks[b])
  BY <1>1, <1>5, ListSizes DEF bucket_touched, bucket_allocated
<1> QED BY <1>2, <1>4, <1>6

\* A new block has as many slots as its length says.
LEMMA NewSlotsCount ==
  ASSUME NEW b \in Nat, NEW len \in Nat \ {0}
  PROVE  IsFiniteSet(NewSlots(b, len)) /\ Cardinality(NewSlots(b, len)) = len
<1> DEFINE I == 0 .. (len - 1)
           f == [i \in I |-> <<b, len, i>>]
<1>1. f \in Bijection(I, NewSlots(b, len))
  BY DEF NewSlots, Bijection, Injection, Surjection, IsInjective
<1>2. IsFiniteSet(I) /\ Cardinality(I) = len
  BY FS_Interval
<1> HIDE DEF I, f
<1> QED BY <1>1, <1>2, FS_Bijection DEF ExistsBijection

\* Handing out a slot of the head counts one more.
LEMMA CountRoom ==
  ASSUME Inv, CountInv, NEW t \in Threads, NEW b \in Buckets,
         Gets(t, b), room(b)
  PROVE  CountInv' /\ DOMAIN slots \subseteq DOMAIN slots' /\ Handed \subseteq Handed'
<1>1. PICK s : Fresh(t, s)
  BY FreshSlot
<1>2. PICK h : h = head_len(blocks[b])
  OBVIOUS
<1>3. PICK n : n = next_unused_slot[b]
  OBVIOUS
<1>4. PICK p : p = scramble_slot(h, n)
  OBVIOUS
<1>5. /\ h \in Lengths /\ n \in 0 .. (h - 1) /\ blocks' = blocks /\ slots' = slots
      /\ next_unused_slot' = [next_unused_slot EXCEPT ![b] = n + 1]
      /\ slot' = [slot EXCEPT ![t] = <<b, h, p>>]
  BY <1>2, <1>3, <1>4, RoomCase
<1>12. taken(b) = n
  BY <1>3, CounterParts DEF Inv
<1>13. /\ taken(b)' = n + 1
       /\ \A c \in Buckets \ {b} : taken(c)' = taken(c)
  <2>1. next_unused_slot'[b] = n + 1 /\ n + 1 <= h /\ n \in Nat
    BY <1>5, LengthsInHalf DEF Inv, TypeOK
  <2>2. \A c \in Buckets \ {b} : next_unused_slot'[c] = next_unused_slot[c]
    BY <1>5 DEF Inv, TypeOK
  <2> QED BY <1>2, <1>5, <2>1, <2>2 DEF taken, Lesser
<1>6. s = <<b, h, p>> /\ s[1] = b
  <2>1. slot' = [slot EXCEPT ![t] = s]
    BY <1>1 DEF Fresh
  <2> QED BY <1>5, <2>1, Facts
<1>7. s \notin Handed /\ Handed' = Handed \cup {s}
  BY <1>1 DEF Fresh
<1>8. /\ IsFiniteSet(DOMAIN slots) /\ IsFiniteSet(Of(Handed, b))
      /\ Cardinality(Of(Handed, b)) = h - 1 + n
  <2>1. IsFiniteSet(DOMAIN slots)
    BY DEF CountInv
  <2>2. Of(Handed, b) \subseteq Handed
    BY DEF Of
  <2>3. blocks[b] # <<>>
    BY <1>2, <1>3, <1>5, BucketFacts DEF Inv
  <2> QED BY <1>2, <1>12, <2>1, <2>2, <2>3, SlotSets, FS_Subset DEF CountInv, TouchedIn
<1>9. s \notin Of(Handed, b)
  BY <1>7 DEF Of
<1>10. Cardinality(Of(Handed, b) \cup {s}) = h - 1 + (n + 1)
  <2>1. Cardinality(Of(Handed, b) \cup {s}) = (h - 1 + n) + 1
    BY <1>8, <1>9, FS_AddElement
  <2>2. h \in Nat
    BY <1>5, LengthsInHalf
  <2> QED BY <1>5, <2>1, <2>2
<1>11. ASSUME NEW c \in Buckets
       PROVE  /\ Cardinality(Of(DOMAIN slots', c)) = AllocatedIn(blocks'[c])
              /\ Cardinality(Of(Handed', c)) = TouchedIn(blocks'[c], taken(c)')
  <2>1. Cardinality(Of(DOMAIN slots', c)) = AllocatedIn(blocks'[c])
    BY <1>5 DEF CountInv
  <2>2. CASE c = b
    <3>1. Of(Handed', c) = Of(Handed, b) \cup {s}
      BY <1>6, <1>7, <2>2 DEF Of
    <3>3. taken(c)' = n + 1
      BY <1>13, <2>2
    <3>2. blocks[b] # <<>>
      BY <1>2, <1>3, <1>5, BucketFacts DEF Inv
    <3> QED BY <1>2, <1>5, <1>10, <2>1, <2>2, <3>1, <3>2, <3>3 DEF TouchedIn
  <2>3. CASE c # b
    <3>1. Of(Handed', c) = Of(Handed, c)
      BY <1>6, <1>7, <2>3 DEF Of
    <3>2. taken(c)' = taken(c)
      BY <1>13, <2>3
    <3> QED BY <1>5, <2>1, <3>1, <3>2 DEF CountInv
  <2> QED BY <2>2, <2>3
<1> QED BY <1>5, <1>7, <1>8, <1>11 DEF CountInv

\* Adding a block counts its slots, and hands out the first.
LEMMA CountGrow ==
  ASSUME Inv, CountInv, NEW t \in Threads, NEW b \in Buckets,
         Gets(t, b), ~room(b)
  PROVE  CountInv' /\ DOMAIN slots \subseteq DOMAIN slots' /\ Handed \subseteq Handed'
<1>1. PICK s : Fresh(t, s)
  BY FreshSlot
<1>2. PICK h : h = head_len(blocks[b])
  OBVIOUS
<1>3. PICK x : x = block_size(blocks[b])
  OBVIOUS
<1>4. PICK p : p = scramble_slot(x, 0)
  OBVIOUS
<1>5. PICK N : N = NewSlots(b, x)
  OBVIOUS
<1>6. /\ x \in Lengths /\ h < x /\ taken(b) = h
      /\ blocks' = [blocks EXCEPT ![b] = <<x>> \o blocks[b]]
      /\ DOMAIN slots' = DOMAIN slots \cup N
      /\ next_unused_slot' = [next_unused_slot EXCEPT ![b] = 1]
      /\ slot' = [slot EXCEPT ![t] = <<b, x, p>>]
  BY <1>2, <1>3, <1>4, <1>5, GrowCase
<1>7. /\ b \in Nat /\ x \in Nat \ {0} /\ h \in Nat
      /\ blocks[b] \in Seq(Lengths) /\ blocks[b] = <<>> => h = 0
  BY <1>2, <1>6, BucketFacts, LengthsInHalf DEF Inv
<1>8. x = IF blocks[b] = <<>> THEN 1 ELSE 2 * h
  <2>1. ~doubling_overflows(head_len(blocks[b]))
    BY DEF Gets
  <2>2. blocks[b] # <<>> => h \in Lengths
    BY <1>2, BucketFacts DEF Inv
  <2> QED BY <1>2, <1>3, <2>1, <2>2, NextLength DEF block_size, INITIAL_BLOCK_SIZE
<1>9. s[1] = b
  <2>1. slot' = [slot EXCEPT ![t] = s]
    BY <1>1 DEF Fresh
  <2>2. s = <<b, x, p>>
    BY <1>6, <2>1, Facts
  <2> QED BY <2>2
<1>10. s \notin Handed /\ Handed' = Handed \cup {s} /\ DOMAIN slots' = DOMAIN slots \cup N
  BY <1>1, <1>6 DEF Fresh
<1>11. /\ IsFiniteSet(DOMAIN slots) /\ IsFiniteSet(Of(Handed, b))
       /\ IsFiniteSet(Of(DOMAIN slots, b))
       /\ Cardinality(Of(Handed, b)) = TouchedIn(blocks[b], h)
       /\ Cardinality(Of(DOMAIN slots, b)) = AllocatedIn(blocks[b])
  <2>1. IsFiniteSet(DOMAIN slots)
    BY DEF CountInv
  <2>2. Of(Handed, b) \subseteq Handed /\ Of(DOMAIN slots, b) \subseteq DOMAIN slots
    BY DEF Of
  <2> QED BY <1>6, <2>1, <2>2, SlotSets, FS_Subset DEF CountInv
<1>12. IsFiniteSet(N) /\ Cardinality(N) = x
  BY <1>5, <1>7, NewSlotsCount
<1>13. \A y \in N : y[1] = b /\ y[2] = x
  BY <1>5, <1>7, NewSlotNames
<1>14. \A y \in Of(DOMAIN slots, b) : y \notin N
  <2> SUFFICES ASSUME NEW y \in DOMAIN slots, y[1] = b, y[2] = x PROVE FALSE
    BY <1>13 DEF Of
  <2>1. y[2] <= h
    BY <1>2, SlotInBlock DEF Inv
  <2> QED BY <1>6, <1>7, <2>1
<1>15. Cardinality(Of(DOMAIN slots, b) \cup N) = 2 * x - 1
  <2>1. Of(DOMAIN slots, b) \cap N = {}
    BY <1>14
  <2>2. Cardinality(Of(DOMAIN slots, b) \cup N) = AllocatedIn(blocks[b]) + x
    BY <1>11, <1>12, <2>1, DisjointCount
  <2>3. AllocatedIn(blocks[b]) = IF blocks[b] = <<>> THEN 0 ELSE 2 * h - 1
    BY <1>2 DEF AllocatedIn
  <2> QED BY <1>7, <1>8, <2>2, <2>3
<1>16. Cardinality(Of(Handed, b) \cup {s}) = x - 1 + 1
  <2>1. s \notin Of(Handed, b)
    BY <1>10 DEF Of
  <2>2. Cardinality(Of(Handed, b) \cup {s}) = TouchedIn(blocks[b], h) + 1
    BY <1>11, <2>1, FS_AddElement
  <2>3. TouchedIn(blocks[b], h) = IF blocks[b] = <<>> THEN 0 ELSE h - 1 + h
    BY <1>2 DEF TouchedIn
  <2> QED BY <1>7, <1>8, <2>2, <2>3
<1>17. ASSUME NEW c \in Buckets
       PROVE  /\ Cardinality(Of(DOMAIN slots', c)) = AllocatedIn(blocks'[c])
              /\ Cardinality(Of(Handed', c)) = TouchedIn(blocks'[c], taken(c)')
  <2>1. CASE c = b
    <3>1. Of(Handed', c) = Of(Handed, b) \cup {s}
      BY <1>9, <1>10, <2>1 DEF Of
    <3>2. Of(DOMAIN slots', c) = Of(DOMAIN slots, b) \cup N
      BY <1>10, <1>13, <2>1 DEF Of
    <3>3. blocks'[c] = <<x>> \o blocks[b]
      BY <1>6, <2>1 DEF Inv, TypeOK
    <3>4. blocks'[c] # <<>> /\ head_len(blocks'[c]) = x
      BY <1>6, <1>7, <3>3 DEF head_len
    <3>5. taken(c)' = 1
      <4>1. next_unused_slot'[c] = 1
        BY <1>6, <2>1 DEF Inv, TypeOK
      <4> QED BY <1>7, <3>4, <4>1 DEF taken, Lesser
    <3> QED BY <1>15, <1>16, <3>1, <3>2, <3>4, <3>5 DEF AllocatedIn, TouchedIn
  <2>2. CASE c # b
    <3>1. Of(Handed', c) = Of(Handed, c)
      BY <1>9, <1>10, <2>2 DEF Of
    <3>2. Of(DOMAIN slots', c) = Of(DOMAIN slots, c)
      BY <1>10, <1>13, <2>2 DEF Of
    <3>3. blocks'[c] = blocks[c]
      BY <1>6, <2>2 DEF Inv, TypeOK
    <3>4. taken(c)' = taken(c)
      <4>1. next_unused_slot'[c] = next_unused_slot[c]
        BY <1>6, <2>2 DEF Inv, TypeOK
      <4> QED BY <3>3, <4>1 DEF taken
    <3> QED BY <3>1, <3>2, <3>3, <3>4 DEF CountInv
  <2> QED BY <2>1, <2>2
<1>18. IsFiniteSet(DOMAIN slots')
  BY <1>10, <1>11, <1>12, FS_Union
<1> QED BY <1>10, <1>17, <1>18 DEF CountInv

-----------------------------------------------------------------------------
\* The number of other threads, of which those that have missed are some.
LEMMA MissedOthers ==
  ASSUME NEW t \in Threads, pc[t] # "slow", NEW b
  PROVE  /\ Others \in Nat /\ IsFiniteSet(Missed(b))
         /\ Cardinality(Missed(b)) \in Nat /\ Cardinality(Missed(b)) <= Others
<1>1. /\ IsFiniteSet(Threads) /\ IsFiniteSet(Threads \ {t})
      /\ Cardinality(Threads \ {t}) = Cardinality(Threads) - 1
  BY StoreThreadsAssumption, FS_RemoveElement
<1>2. Missed(b) \subseteq Threads \ {t}
  BY DEF Missed
<1>3. IsFiniteSet(Missed(b)) /\ Cardinality(Missed(b)) <= Cardinality(Threads \ {t})
  BY <1>1, <1>2, FS_Subset
<1> QED BY <1>1, <1>3, FS_CardinalityType DEF Others

\* A step that moves no counter, and after which the same calls have missed.
LEMMA MissKept ==
  ASSUME MissInv, UNCHANGED shape, bucket' = bucket,
         \A u \in Threads : pc'[u] = "slow" <=> pc[u] = "slow"
  PROVE  MissInv'
<1>1. \A b \in Buckets : overshoot(b)' = overshoot(b)
  BY DEF overshoot, taken, shape
<1>2. \A b \in Buckets : Missed(b)' = Missed(b)
  BY DEF Missed
<1> QED BY <1>1, <1>2 DEF MissInv

\* Misses and the slots handed out after them keep the counters near their heads.
LEMMA MissStep ==
  ASSUME Inv, MissInv, NEW t \in Threads, NEW b \in Buckets, Gets(t, b) \/ Misses(t, b)
  PROVE  MissInv'
<1> USE Facts
<1>1. bucket \in [Threads -> Buckets] /\ IsFiniteSet(Threads)
  BY StoreThreadsAssumption DEF Inv, TypeOK
<1>2. CASE Misses(t, b)
  <2>1. /\ pc[t] = "bucket" /\ pc' = [pc EXCEPT ![t] = "slow"]
        /\ bucket' = [bucket EXCEPT ![t] = b]
        /\ \A c \in Buckets \ {b} : overshoot(c)' = overshoot(c)
        /\ overshoot(b)' <= overshoot(b) + 1 /\ overshoot(b) \in Nat
        /\ overshoot(b)' \in Nat
    BY <1>2, MissCase, CounterParts DEF Inv
  <2>2. /\ pc'[t] = "slow" /\ bucket'[t] = b
        /\ \A u \in Threads \ {t} : pc'[u] = pc[u] /\ bucket'[u] = bucket[u]
    BY <1>1, <2>1
  <2>3. Missed(b)' = Missed(b) \cup {t} /\ t \notin Missed(b)
    BY <2>1, <2>2 DEF Missed
  <2>4. \A c \in Buckets \ {b} : Missed(c)' = Missed(c)
    BY <2>1, <2>2 DEF Missed
  <2>5. Cardinality(Missed(b)') = Cardinality(Missed(b)) + 1 /\ Cardinality(Missed(b)) \in Nat
    <3>1. Missed(b) \subseteq Threads
      BY DEF Missed
    <3>2. IsFiniteSet(Missed(b))
      BY <1>1, <3>1, FS_Subset
    <3> QED BY <2>3, <3>2, FS_AddElement, FS_CardinalityType
  <2>6. overshoot(b)' <= Cardinality(Missed(b)')
    BY <2>1, <2>5 DEF MissInv
  <2>7. \A c \in Buckets \ {b} : overshoot(c)' <= Cardinality(Missed(c)')
    BY <2>1, <2>4 DEF MissInv
  <2> QED BY <2>6, <2>7 DEF MissInv
<1>3. CASE Gets(t, b)
  <2>1. /\ pc' = [pc EXCEPT ![t] = "insert"] /\ bucket' = [bucket EXCEPT ![t] = 0]
        /\ pc[t] = "slow" => bucket[t] = b
    BY <1>3 DEF Gets, HandOut, Go
  <2>2. /\ pc'[t] = "insert"
        /\ \A u \in Threads \ {t} : pc'[u] = pc[u] /\ bucket'[u] = bucket[u]
    BY <1>1, <2>1
  <2>3. \A c \in Buckets \ {b} : Missed(c)' = Missed(c)
    BY <2>1, <2>2 DEF Missed
  <2>4. \A c \in Buckets \ {b} : overshoot(c)' = overshoot(c)
    <3>1. CASE room(b)
      <4>1. blocks' = blocks /\ \E n : next_unused_slot' = [next_unused_slot EXCEPT ![b] = n]
        BY <1>3, <3>1, RoomCase
      <4>2. \A c \in Buckets \ {b} : next_unused_slot'[c] = next_unused_slot[c]
        BY <4>1 DEF Inv, TypeOK
      <4> QED BY <4>1, <4>2 DEF overshoot, taken
    <3>2. CASE ~room(b)
      <4>1. /\ \E l : blocks' = [blocks EXCEPT ![b] = l]
            /\ next_unused_slot' = [next_unused_slot EXCEPT ![b] = 1]
        BY <1>3, <3>2, GrowCase
      <4>2. \A c \in Buckets \ {b} : /\ next_unused_slot'[c] = next_unused_slot[c]
                                     /\ blocks'[c] = blocks[c]
        BY <4>1 DEF Inv, TypeOK
      <4> QED BY <4>2 DEF overshoot, taken
    <3> QED BY <3>1, <3>2
  <2>5. overshoot(b)' = 0
    <3>1. next_unused_slot'[b] <= head_len(blocks'[b]) /\ next_unused_slot'[b] \in Nat
      <4>1. CASE room(b)
        <5>1. PICK n : n = next_unused_slot[b]
          OBVIOUS
        <5>2. PICK h : h = head_len(blocks[b])
          OBVIOUS
        <5>3. /\ blocks' = blocks /\ n \in 0 .. (h - 1) /\ h \in Lengths
              /\ next_unused_slot' = [next_unused_slot EXCEPT ![b] = n + 1]
          BY <1>3, <4>1, <5>1, <5>2, RoomCase
        <5>4. next_unused_slot'[b] = n + 1 /\ n + 1 <= h /\ n \in Nat
          BY <5>3, LengthsInHalf DEF Inv, TypeOK
        <5> QED BY <5>2, <5>3, <5>4
      <4>2. CASE ~room(b)
        <5>1. PICK x : x = block_size(blocks[b])
          OBVIOUS
        <5>2. /\ x \in Lengths /\ blocks' = [blocks EXCEPT ![b] = <<x>> \o blocks[b]]
              /\ next_unused_slot' = [next_unused_slot EXCEPT ![b] = 1]
          BY <1>3, <4>2, <5>1, GrowCase
        <5>3. blocks'[b] = <<x>> \o blocks[b] /\ next_unused_slot'[b] = 1
          BY <5>2 DEF Inv, TypeOK
        <5>4. blocks[b] \in Seq(Lengths) /\ x \in Nat \ {0}
          BY <5>2, LengthsInHalf DEF Inv, TypeOK
        <5>5. head_len(blocks'[b]) = x
          BY <5>2, <5>3, <5>4 DEF head_len
        <5> QED BY <5>3, <5>4, <5>5
      <4> QED BY <4>1, <4>2
    <3> QED BY <3>1 DEF overshoot, taken, Lesser
  <2>6. Cardinality(Missed(b)') \in Nat
    <3>1. Missed(b)' \subseteq Threads
      BY DEF Missed
    <3> QED BY <1>1, <3>1, FS_Subset, FS_CardinalityType
  <2> QED BY <2>3, <2>4, <2>5, <2>6 DEF MissInv
<1> QED BY <1>2, <1>3

-----------------------------------------------------------------------------
\* A step of somebody else keeps the totals of a call within their bounds.
LEMMA SumKept ==
  ASSUME Inv, Inv', SumInv, IsFiniteSet(DOMAIN slots'),
         DOMAIN slots \subseteq DOMAIN slots', Handed \subseteq Handed', UNCHANGED sum,
         \A u \in Threads : pc'[u] = "capacity" => pc[u] = "capacity"
  PROVE  SumInv'
<1>1. PICK D : D = DOMAIN slots'
  OBVIOUS
<1>2. PICK H : H = Handed'
  OBVIOUS
<1>3. D \subseteq Triples /\ IsFiniteSet(D) /\ DOMAIN slots \subseteq D
  BY <1>1 DEF Inv, TypeOK
<1>4. H \subseteq Triples /\ IsFiniteSet(H) /\ Handed \subseteq H
  <2>1. Handed' \subseteq DOMAIN slots'
    BY DEF Handed
  <2> QED BY <1>1, <1>2, <1>3, <2>1, FS_Subset
<1>5. ASSUME NEW u \in Threads, pc'[u] = "capacity"
      PROVE  SumsWithin(sum[u])'
  <2>1. PICK r : r = sum[u]
    OBVIOUS
  <2>2. /\ r.bucket <= BUCKET_COUNT /\ r.bucket \in Nat /\ r.past <= r.bucket * Others
        /\ Within(r.touched - r.past, Handed, r.bucket, r.since[1])
        /\ Within(r.allocated, DOMAIN slots, r.bucket, r.since[2])
    BY <1>5, <2>1 DEF SumInv, SumsWithin, Sums
  <2>3. Within(r.touched - r.past, H, r.bucket, r.since[1])
    BY <1>4, <2>2, WithinGrows
  <2>4. Within(r.allocated, D, r.bucket, r.since[2])
    BY <1>3, <2>2, WithinGrows
  <2>5. sum'[u] = r
    BY <2>1
  <2> QED BY <1>1, <1>2, <2>2, <2>3, <2>4, <2>5 DEF SumsWithin
<1> QED BY <1>5 DEF SumInv

\* The first step of a capacity call.
LEMMA capacityStep ==
  ASSUME Inv, SumInv, CountInv, Handed' = Handed, NEW t \in Threads, capacity(t)
  PROVE  SumInv'
<1>1. /\ DOMAIN slots \subseteq Triples /\ Handed \subseteq Triples
      /\ IsFiniteSet(DOMAIN slots) /\ IsFiniteSet(Handed)
      /\ Cardinality(Handed) \in Nat /\ Cardinality(DOMAIN slots) \in Nat
  BY SlotSets DEF CountInv
<1>2. PICK r : r = [NoSum EXCEPT !.since = Counted]
  OBVIOUS
<1>3. r \in Sums
  BY <1>1, <1>2 DEF Counted, NoSum, Sums
<1>4. sum' = [sum EXCEPT ![t] = r] /\ pc' = [pc EXCEPT ![t] = "capacity"] /\ slots' = slots
  BY <1>2 DEF capacity, Go
<1>5. /\ sum'[t] = r /\ \A u \in Threads \ {t} : sum'[u] = sum[u] /\ pc'[u] = pc[u]
      /\ sum' \in [Threads -> Sums]
  BY <1>3, <1>4, Facts DEF SumInv
<1>6. /\ r.bucket = 0 /\ r.touched = 0 /\ r.allocated = 0 /\ r.past = 0
      /\ r.since[1] = Cardinality(Handed) /\ r.since[2] = Cardinality(DOMAIN slots)
  BY <1>2 DEF Counted, NoSum
<1>7. /\ Within(0, Handed, 0, r.since[1])
      /\ Within(0, DOMAIN slots, 0, r.since[2])
  BY <1>1, <1>6, WithinStarts
<1>8. Others \in Int
  BY StoreThreadsAssumption, FS_CardinalityType DEF Others
<1>9. SumsWithin(r)
  <2>1. r.touched - r.past = 0 /\ r.past <= r.bucket * Others /\ r.bucket <= BUCKET_COUNT
    BY <1>6, <1>8, BucketsAssumption
  <2> QED BY <1>6, <1>7, <2>1 DEF SumsWithin
<1>10. \A u \in Threads : pc'[u] = "capacity" => SumsWithin(sum'[u])
  BY <1>4, <1>5, <1>9 DEF SumInv
<1> QED BY <1>4, <1>5, <1>10 DEF SumInv, SumsWithin

\* The record of a call with its totals advanced.
LEMMA TotalsAdvanced ==
  ASSUME NEW s \in Sums, NEW i \in Nat, NEW x \in Nat, NEW y \in Nat, NEW p \in Nat, NEW r,
         r = [s EXCEPT !.bucket = i, !.touched = x, !.allocated = y, !.past = p]
  PROVE  /\ r \in Sums
         /\ r.bucket = i /\ r.touched = x /\ r.allocated = y /\ r.since = s.since
         /\ r.past = p
BY DEF Sums

\* The bound on what the counters are past their heads, one bucket on.
LEMMA PastBound ==
  ASSUME NEW i \in Nat, NEW m \in Nat, NEW p \in Nat, NEW v \in Nat, p <= i * m, v <= m,
         i + 1 <= BUCKET_COUNT
  PROVE  p + v <= (i + 1) * m /\ p + v <= BUCKET_COUNT * m
<1>1. (i + 1) * m = i * m + m /\ i * m \in Nat
  OBVIOUS
<1>2. PICK d \in Nat : BUCKET_COUNT = (i + 1) + d
  <2>1. BUCKET_COUNT - (i + 1) \in Nat /\ BUCKET_COUNT = (i + 1) + (BUCKET_COUNT - (i + 1))
    BY BucketsAssumption
  <2> QED BY <2>1
<1>3. BUCKET_COUNT * m = (i + 1) * m + d * m /\ d * m \in Nat
  BY <1>2
<1> QED BY <1>1, <1>3

\* A capacity call asks the next bucket, or returns.
LEMMA CapacityOfBucketStep ==
  ASSUME Inv, CapacityInv, FitsU32, Handed' = Handed, NEW t \in Threads,
         CapacityOfBucket(t)
  PROVE  SumInv'
<1>1. /\ DOMAIN slots \subseteq Triples /\ Handed \subseteq Triples
      /\ IsFiniteSet(DOMAIN slots) /\ IsFiniteSet(Handed)
      /\ Cardinality(DOMAIN slots) \in Nat /\ Cardinality(Handed) \in Nat
      /\ Cardinality(Handed) <= Cardinality(DOMAIN slots)
  BY SlotSets DEF CapacityInv, CountInv
<1>2. PICK s : s = sum[t]
  OBVIOUS
<1>3. pc[t] = "capacity" /\ slots' = slots
  BY DEF CapacityOfBucket
<1>4. /\ s \in Sums /\ sum \in [Threads -> Sums] /\ s.bucket <= BUCKET_COUNT
      /\ Within(s.touched - s.past, Handed, s.bucket, s.since[1])
      /\ Within(s.allocated, DOMAIN slots, s.bucket, s.since[2])
      /\ s.past <= s.bucket * Others
  BY <1>2, <1>3 DEF CapacityInv, SumInv, SumsWithin
<1>7. s.bucket \in Nat /\ s.touched \in Nat /\ s.allocated \in Nat /\ s.past \in Nat
  BY <1>4 DEF Sums
<1>5. CASE more_buckets(s.bucket)
  <2>1. s.bucket \in Buckets /\ s.bucket + 1 <= BUCKET_COUNT
    BY <1>7, <1>5, BucketsAssumption DEF more_buckets, Buckets
  <2>9. PICK v : v = overshoot(s.bucket)
    OBVIOUS
  <2>10. v \in Nat /\ v <= Others /\ Others \in Nat
    <3>1. v \in Nat /\ v <= Cardinality(Missed(s.bucket))
      BY <2>1, <2>9, CounterParts DEF Inv, CapacityInv, MissInv
    <3>2. pc[t] # "slow"
      BY <1>3
    <3>3. /\ Others \in Nat /\ Cardinality(Missed(s.bucket)) \in Nat
          /\ Cardinality(Missed(s.bucket)) <= Others
      BY <3>2, MissedOthers
    <3> QED BY <3>1, <3>3
  <2>11. s.past + v <= (s.bucket + 1) * Others /\ s.past + v <= BUCKET_COUNT * Others
    BY <1>4, <1>7, <2>1, <2>10, PastBound
  <2>12. /\ Cardinality(Handed) + (s.past + v) < U32 /\ Cardinality(DOMAIN slots) < U32
    <3>1. PICK m : m = BUCKET_COUNT * Others
      OBVIOUS
    <3>2. Cardinality(DOMAIN slots) + m < U32 /\ s.past + v <= m /\ s.past + v \in Nat /\ m \in Nat
      BY <1>7, <2>10, <2>11, <3>1, BucketsAssumption DEF FitsU32
    <3> QED BY <1>1, <3>2, U32Assumption
  <2>13. /\ bucket_touched(s.bucket) = Cardinality(Of(Handed, s.bucket)) + v
         /\ bucket_allocated(s.bucket) = Cardinality(Of(DOMAIN slots, s.bucket))
    <3>1. Cardinality(Of(Handed, s.bucket)) \in Nat
          /\ Cardinality(Of(Handed, s.bucket)) <= Cardinality(Handed)
      <4>1. Of(Handed, s.bucket) \subseteq Handed
        BY DEF Of
      <4> QED BY <1>1, <4>1, FS_Subset, FS_CardinalityType
    <3>2. Cardinality(Of(Handed, s.bucket)) + overshoot(s.bucket) < U32
      BY <1>1, <1>7, <2>9, <2>10, <2>12, <3>1, U32Assumption
    <3> QED BY <2>1, <2>9, <3>2, BucketReports
  <2>2. PICK x : x = (s.touched + bucket_touched(s.bucket)) % U32
    OBVIOUS
  <2>3. PICK y : y = (s.allocated + bucket_allocated(s.bucket)) % U32
    OBVIOUS
  <2>4. /\ x \in Nat /\ Within(x - (s.past + v), Handed, s.bucket + 1, s.since[1])
        /\ Within(y, DOMAIN slots, s.bucket + 1, s.since[2])
    <3>1. x \in Nat /\ Within(x - (s.past + v), Handed, s.bucket + 1, s.since[1])
      BY <1>1, <1>4, <1>7, <2>2, <2>10, <2>12, <2>13, WithinAddsPast
    <3>2. Within(y, DOMAIN slots, s.bucket + 1, s.since[2])
      BY <1>1, <1>4, <1>7, <2>3, <2>12, <2>13, WithinAdds
    <3> QED BY <3>1, <3>2
  <2>5. PICK r : r = [s EXCEPT !.bucket = s.bucket + 1, !.touched = x, !.allocated = y,
                              !.past = s.past + v]
    OBVIOUS
  <2>6. /\ r \in Sums /\ r.bucket = s.bucket + 1 /\ r.touched = x /\ r.allocated = y
        /\ r.since = s.since /\ r.past = s.past + v
    <3>1. x \in Nat /\ y \in Nat /\ s.bucket + 1 \in Nat /\ s.past + v \in Nat
      BY <1>7, <2>4, <2>10 DEF Within
    <3>2. PICK i : i = s.bucket + 1
      OBVIOUS
    <3>3. PICK p : p = s.past + v
      OBVIOUS
    <3>4. /\ s \in Sums /\ i \in Nat /\ x \in Nat /\ y \in Nat /\ p \in Nat
          /\ r = [s EXCEPT !.bucket = i, !.touched = x, !.allocated = y, !.past = p]
      BY <1>4, <2>5, <3>1, <3>2, <3>3
    <3>5. /\ r \in Sums /\ r.bucket = i /\ r.touched = x /\ r.allocated = y
          /\ r.since = s.since /\ r.past = p
      BY ONLY <3>4 DEF Sums
    <3> QED BY <3>2, <3>3, <3>5
  <2>7. pc' = pc /\ sum' = [sum EXCEPT ![t] = r]
    <3>1. /\ pc' = pc
          /\ sum' = [sum EXCEPT
                        ![t].bucket = @ + 1,
                        ![t].touched = (@ + bucket_touched(s.bucket)) % U32,
                        ![t].allocated = (@ + bucket_allocated(s.bucket)) % U32,
                        ![t].past = @ + overshoot(s.bucket)]
      BY <1>2, <1>5, Zenon DEF CapacityOfBucket
    <3>2. PICK i : i = bucket_touched(s.bucket)
      OBVIOUS
    <3>3. PICK j : j = bucket_allocated(s.bucket)
      OBVIOUS
    <3>4. sum' = [sum EXCEPT ![t] = [s EXCEPT !.bucket = s.bucket + 1,
                                             !.touched = (s.touched + i) % U32,
                                             !.allocated = (s.allocated + j) % U32,
                                             !.past = s.past + v]]
      BY <1>2, <1>4, <2>9, <3>1, <3>2, <3>3
    <3> QED BY <2>2, <2>3, <2>5, <3>1, <3>2, <3>3, <3>4
  <2>8. /\ sum'[t] = r /\ \A u \in Threads \ {t} : sum'[u] = sum[u]
        /\ sum' \in [Threads -> Sums]
    BY <1>4, <2>6, <2>7
  <2>14. SumsWithin(r)
    BY <2>1, <2>4, <2>6, <2>11 DEF SumsWithin
  <2>15. \A u \in Threads : pc'[u] = "capacity" => SumsWithin(sum'[u])
    BY <2>7, <2>8, <2>14 DEF CapacityInv, SumInv
  <2> QED BY <1>3, <2>8, <2>15 DEF SumInv, SumsWithin
<1>6. CASE ~more_buckets(s.bucket)
  <2>1. pc' = [pc EXCEPT ![t] = "idle"] /\ sum' = [sum EXCEPT ![t] = NoSum]
    BY <1>2, <1>6, Zenon DEF CapacityOfBucket
  <2>2. NoSum \in Sums
    BY DEF NoSum, Sums
  <2>3. /\ sum' \in [Threads -> Sums] /\ pc'[t] = "idle"
        /\ \A u \in Threads \ {t} : sum'[u] = sum[u] /\ pc'[u] = pc[u]
    BY <1>4, <2>1, <2>2, Facts
  <2>4. \A u \in Threads : pc'[u] = "capacity" => SumsWithin(sum'[u])
    BY <2>3 DEF CapacityInv, SumInv
  <2> QED BY <1>3, <2>3, <2>4 DEF SumInv, SumsWithin
<1> QED BY <1>5, <1>6

\* Shape and slots unchanged: so are the counts.
LEMMA CountKept ==
  ASSUME Inv, CountInv, UNCHANGED shape, DOMAIN slots' = DOMAIN slots
  PROVE  CountInv' /\ Handed' = Handed
<1>1. Handed' = Handed /\ blocks' = blocks /\ next_unused_slot' = next_unused_slot
  BY SameShape DEF shape
<1>2. \A b \in Buckets : taken(b)' = taken(b)
  BY <1>1 DEF taken
<1> QED BY <1>1, <1>2 DEF CountInv, Of

\* A step that hands out no slot and is not capacity's.
LEMMA CapacityKept ==
  ASSUME Inv, Inv', CapacityInv, UNCHANGED shape, DOMAIN slots' = DOMAIN slots,
         UNCHANGED sum, bucket' = bucket, NEW t \in Threads, pc[t] # "slow",
         NEW p \in PCs \ {"capacity", "slow"},
         pc' = [pc EXCEPT ![t] = p] \/ pc' = pc
  PROVE  CountInv' /\ MissInv' /\ SumInv'
<1>1. CountInv' /\ Handed' = Handed
  BY CountKept DEF CapacityInv
<1>2. IsFiniteSet(DOMAIN slots')
  BY <1>1 DEF CountInv
<1>3. \A u \in Threads : pc'[u] = "capacity" => pc[u] = "capacity"
  BY Facts
<1>4. MissInv'
  <2>1. \A u \in Threads : pc'[u] = "slow" <=> pc[u] = "slow"
    BY Facts
  <2> QED BY <2>1, MissKept DEF CapacityInv
<1> QED BY <1>1, <1>2, <1>3, <1>4, SumKept DEF CapacityInv

\* Every step keeps the totals within their bounds.
LEMMA CapacityStep ==
  ASSUME Inv, CapacityInv, FitsU32, NEW t \in Threads, Step(t)
  PROVE  CapacityInv'
<1>1. Inv' /\ ListInv'
  BY StepInv, ListStep DEF CapacityInv
<1> SUFFICES CountInv' /\ MissInv' /\ SumInv'
  BY <1>1 DEF CapacityInv
<1>2. {"bucket", "insert", "push", "idle"} \subseteq PCs \ {"capacity", "slow"}
  BY DEF PCs
<1>3. CASE insert(t)
  <2>1. /\ UNCHANGED shape /\ slots' = slots /\ sum' = sum /\ bucket' = bucket
        /\ pc[t] # "slow"
        /\ pc' = [pc EXCEPT ![t] = "bucket"] \/ pc' = [pc EXCEPT ![t] = "insert"]
    BY <1>3 DEF insert, Go
  <2> QED BY <1>1, <1>2, <2>1, CapacityKept
<1>9. ASSUME NEW b \in Buckets, Misses(t, b)
      PROVE  CountInv' /\ MissInv' /\ SumInv'
  <2>1. /\ blocks' = blocks /\ slots' = slots /\ sum' = sum /\ Handed' = Handed
        /\ pc' = [pc EXCEPT ![t] = "slow"]
        /\ \A c \in Buckets : taken(c)' = taken(c)
    BY <1>9, MissCase
  <2>2. CountInv'
    BY <2>1 DEF CapacityInv, CountInv
  <2>3. \A u \in Threads : pc'[u] = "capacity" => pc[u] = "capacity"
    BY <2>1, Facts
  <2>4. SumInv'
    BY <1>1, <2>1, <2>2, <2>3, SumKept DEF CapacityInv, CountInv
  <2>5. MissInv'
    BY <1>9, MissStep DEF CapacityInv
  <2> QED BY <2>2, <2>4, <2>5
<1>4. ASSUME NEW b \in Buckets, Gets(t, b)
      PROVE  CountInv' /\ MissInv' /\ SumInv'
  <2>5. MissInv'
    BY <1>4, MissStep DEF CapacityInv
  <2>1. CountInv' /\ DOMAIN slots \subseteq DOMAIN slots' /\ Handed \subseteq Handed'
    BY <1>4, CountRoom, CountGrow DEF CapacityInv
  <2>2. sum' = sum /\ pc' = [pc EXCEPT ![t] = "insert"]
    BY <1>4 DEF Gets, HandOut, Go
  <2>3. \A u \in Threads : pc'[u] = "capacity" => pc[u] = "capacity"
    BY <2>2, Facts
  <2>4. IsFiniteSet(DOMAIN slots')
    BY <2>1 DEF CountInv
  <2> QED BY <1>1, <2>1, <2>2, <2>3, <2>4, <2>5, SumKept DEF CapacityInv
<1>5. ASSUME NEW e \in Elements, Block_insert(t, e)
      PROVE  CountInv' /\ MissInv' /\ SumInv'
  <2>1. /\ UNCHANGED shape /\ DOMAIN slots' = DOMAIN slots /\ sum' = sum
        /\ bucket' = bucket /\ pc[t] # "slow" /\ pc' = [pc EXCEPT ![t] = "idle"]
    BY <1>5 DEF Block_insert, Go
  <2> QED BY <1>1, <1>2, <2>1, CapacityKept
<1>6. ASSUME NEW id \in Ids, remove(t, id)
      PROVE  CountInv' /\ MissInv' /\ SumInv'
  <2>1. /\ UNCHANGED shape /\ DOMAIN slots' = DOMAIN slots /\ sum' = sum
        /\ bucket' = bucket /\ pc[t] # "slow"
        /\ pc' = [pc EXCEPT ![t] = "push"] \/ pc' = pc
    BY <1>6 DEF remove, Go
  <2> QED BY <1>1, <1>2, <2>1, CapacityKept
<1>7. CASE push_erasure(t)
  <2>1. /\ UNCHANGED shape /\ slots' = slots /\ sum' = sum
        /\ bucket' = bucket /\ pc[t] # "slow" /\ pc' = [pc EXCEPT ![t] = "idle"]
    BY <1>7 DEF push_erasure, Go
  <2> QED BY <1>1, <1>2, <2>1, CapacityKept
<1>8. CASE Idle(t)
  <2>1. slots' = slots /\ UNCHANGED shape /\ bucket' = bucket
    BY <1>8, idleOwners
  <2>6. MissInv'
    <3>1. /\ pc[t] # "slow"
          /\ \E p \in {"idle", "capacity"} : pc' = [pc EXCEPT ![t] = p] \/ pc' = pc
      BY <1>8 DEF Idle, access, capacity, CapacityOfBucket, Go
    <3>2. \A u \in Threads : pc'[u] = "slow" <=> pc[u] = "slow"
      BY <3>1, Facts
    <3> QED BY <2>1, <3>2, MissKept DEF CapacityInv
  <2>2. CountInv' /\ Handed' = Handed
    BY <2>1, CountKept DEF CapacityInv
  <2>3. ASSUME NEW id \in Ids, access(t, id) PROVE SumInv'
    <3>1. sum' = sum /\ pc' = pc /\ pc[t] # "slow"
      BY <2>3 DEF access
    <3> QED BY <1>1, <1>2, <2>1, <3>1, CapacityKept
  <2>4. CASE capacity(t)
    BY <2>2, <2>4, <2>6, capacityStep DEF CapacityInv
  <2>5. CASE CapacityOfBucket(t)
    BY <2>2, <2>5, <2>6, CapacityOfBucketStep
  <2> QED BY <1>8, <2>2, <2>3, <2>4, <2>5, <2>6 DEF Idle
<1> QED BY <1>3, <1>4, <1>5, <1>6, <1>7, <1>8, <1>9 DEF Step

\* So does a step that changes nothing.
LEMMA CapacityStutter == Inv /\ CapacityInv /\ UNCHANGED vars => CapacityInv'
<1> SUFFICES ASSUME Inv, CapacityInv, UNCHANGED vars PROVE CapacityInv'
  OBVIOUS
<1>1. UNCHANGED shape /\ blocks' = blocks /\ slots' = slots /\ sum' = sum /\ pc' = pc
      /\ bucket' = bucket
  BY DEF vars, shape
<1>3. MissInv'
  BY <1>1, MissKept DEF CapacityInv
<1>2. CountInv' /\ Handed' = Handed
  BY <1>1, CountKept DEF CapacityInv
<1> QED BY <1>1, <1>2, <1>3 DEF CapacityInv, ListInv, SumInv, SumsWithin, Within, Before,
                               From

\* A new store has nothing to count.
LEMMA CapacityInit == Init => CapacityInv
<1> SUFFICES ASSUME Init PROVE CapacityInv
  OBVIOUS
<1>1. DOMAIN slots = {} /\ Handed = {}
  BY DEF Init, Handed
<1>2. \A b \in Buckets : blocks[b] = <<>>
  BY DEF Init
<1>3. ListInv
  BY <1>2 DEF ListInv, Halving
<1>4. \A b : Of({}, b) = {}
  BY DEF Of
<1>5. CountInv
  BY <1>1, <1>2, <1>4, FS_EmptySet DEF CountInv, AllocatedIn, TouchedIn
<1>6. SumInv
  BY DEF Init, SumInv, NoSum, Sums
<1>7. MissInv
  <2>1. ASSUME NEW b \in Buckets PROVE overshoot(b) <= Cardinality(Missed(b))
    <3>1. overshoot(b) = 0
      BY <1>2 DEF Init, overshoot, taken, Lesser, head_len
    <3>2. Missed(b) = {}
      BY DEF Init, Missed
    <3> QED BY <3>1, <3>2, FS_EmptySet
  <2> QED BY <2>1 DEF MissInv
<1> QED BY <1>3, <1>5, <1>6, <1>7 DEF CapacityInv

\* When a call returns, all buckets are before it.
LEMMA CapacityReturns ==
  ASSUME Inv, CapacityInv, NEW t \in Threads, Step(t),
         NEW u \in Threads, pc[u] = "capacity", pc'[u] = "idle"
  PROVE  LET touched == sum[u].touched - sum[u].past
         IN  /\ sum[u].since[1] <= touched /\ touched <= Counted[1]
             /\ sum[u].since[2] <= sum[u].allocated
             /\ sum[u].allocated <= Counted[2]
             /\ sum[u].past <= BUCKET_COUNT * (Cardinality(Threads) - 1)
<1>1. CapacityOfBucket(u) /\ ~more_buckets(sum[u].bucket)
  <2>1. CASE u = t
    <3>1. CapacityOfBucket(t)
      BY <2>1 DEF Step, Idle, insert, Gets, Misses, next_insert_location, Block_insert,
                  remove, push_erasure, access, capacity
    <3>2. more_buckets(sum[t].bucket) => pc' = pc
      BY <3>1, Zenon DEF CapacityOfBucket
    <3> QED BY <2>1, <3>1, <3>2
  <2>2. CASE u # t
    <3>1. pc'[u] = pc[u]
      BY <2>2, Facts DEF Step, Idle, insert, Gets, Misses, HandOut, next_insert_location,
               Block_insert, remove, push_erasure, access, capacity, CapacityOfBucket, Go
    <3> QED BY <3>1
  <2> QED BY <2>1, <2>2
<1>2. PICK r : r = sum[u]
  OBVIOUS
<1>3. /\ r.bucket \in Nat /\ r.bucket <= BUCKET_COUNT
      /\ Within(r.touched - r.past, Handed, r.bucket, r.since[1])
      /\ Within(r.allocated, DOMAIN slots, r.bucket, r.since[2])
      /\ r.past <= r.bucket * Others
  BY <1>2 DEF CapacityInv, SumInv, SumsWithin, Sums
<1>4. r.bucket = BUCKET_COUNT
  BY <1>1, <1>2, <1>3, BucketsAssumption DEF more_buckets
<1>5. /\ DOMAIN slots \subseteq Triples /\ Handed \subseteq DOMAIN slots
      /\ \A s \in DOMAIN slots : s[1] \in Buckets
  BY SlotSets DEF CapacityInv, CountInv
<1>6. r.since[1] <= r.touched - r.past /\ r.touched - r.past <= Cardinality(Handed)
  BY <1>3, <1>4, <1>5, WithinEnds
<1>7. r.since[2] <= r.allocated /\ r.allocated <= Cardinality(DOMAIN slots)
  BY <1>3, <1>4, <1>5, WithinEnds
<1> QED BY <1>2, <1>3, <1>4, <1>6, <1>7 DEF Counted, Others

\* What capacity returns, although the buckets are asked at different moments while
\* others hand out slots, add blocks and push counters past the ends of heads: the
\* allocated total lies between the allocated capacities at its call and at its
\* return, and so does the touched total less what the counters it read were past
\* their heads, which is at most one for each bucket and other thread.  This as
\* long as the u32 that capacity adds up in (lib.rs, capacity) does not wrap.
THEOREM CapacityWithinCallHolds == Spec /\ []FitsU32 => CapacityWithinCall
<1>1. Inv /\ CapacityInv /\ FitsU32 /\ [Next]_vars => CapacityInv'
  BY Steps, CapacityStep, CapacityStutter
<1>2. Inv /\ CapacityInv /\ [Next]_vars =>
        [\A t \in Threads :
            pc[t] = "capacity" /\ pc'[t] = "idle" =>
                LET touched == sum[t].touched - sum[t].past
                IN  /\ sum[t].since[1] <= touched /\ touched <= Counted[1]
                    /\ sum[t].since[2] <= sum[t].allocated
                    /\ sum[t].allocated <= Counted[2]
                    /\ sum[t].past <= BUCKET_COUNT * (Cardinality(Threads) - 1)]_vars
  BY Steps, CapacityReturns
<1> QED BY <1>1, <1>2, Invariance, CapacityInit, PTL DEF Spec, CapacityWithinCall
=============================================================================
