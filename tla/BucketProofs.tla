----------------------------- MODULE BucketProofs -----------------------------
(***************************************************************************)
(* The bucket proved correct for any number of threads and any width of    *)
(* u32.  Inv is the inductive invariant: who is inside the read-write lock *)
(* (LockInv), the shape of the list of blocks (ListInv), how far the       *)
(* counter runs past the head (CounterInv), which calls hold a slot        *)
(* (LocationInv), which slots were handed out (HandedExactly) and how many *)
(* the blocks have (CountInv).                                             *)
(***************************************************************************)
EXTENDS Bucket, BlockListProofs

\* The threads that are at one of the positions in P, by a function f or now.
Those(f, P) == {t \in Threads : f[t] \in P}
At(P) == Those(pc, P)

\* Positions: with the read lock; from claiming the write lock on; inside it;
\* before the first look; after it; at expand; with the outcome.
ReadPCs == {"fast", "release", "miss", "cap_load", "cap_release"}
WritePCs == {"drain", "recheck", "expand", "write_release"}
InsidePCs == {"recheck", "expand", "write_release"}
RoomPCs == {"read", "fast"}
MissPCs == {"miss", "write", "drain", "recheck"}
ExpandPCs == {"expand"}
GivenPCs == {"release", "write_release"}

\* The lock: readers are the threads inside it as such, the writer is the only
\* one at a write position, and no reader is left once it is in.
LockInv ==
    /\ readers = At(ReadPCs)
    /\ \A t \in Threads : writer = t <=> pc[t] \in WritePCs
    /\ At(InsidePCs) # {} => readers = {}

\* The list: lengths that double up to the head, from INITIAL_BLOCK_SIZE on, and
\* in a release build blocks without slots in front of the largest.
ListInv ==
    /\ \A i \in 1 .. Len(blocks) : blocks[i] = 0 \/ blocks[i] \in Lengths
    /\ \A i, j \in 1 .. Len(blocks) :
           i < j /\ blocks[i] # 0 => blocks[j] # 0 /\ blocks[j] < blocks[i]
    /\ \A i \in 1 .. (Len(blocks) - 1) :
           blocks[i] # 0 => blocks[i] = 2 * blocks[i + 1]
    /\ blocks # <<>> => blocks[Len(blocks)] = INITIAL_BLOCK_SIZE
    /\ overflow_checks /\ blocks # <<>> => Head(blocks) # 0

\* The counter: with two for every call that has not looked and one for every
\* call that will look again it is within the bound, so it does not wrap; it has
\* passed the head by no more than the calls that missed; and the thread at
\* expand has seen the head used up.
CounterInv ==
    /\ Threads # {} =>
           next_unused_slot + 2 * Cardinality(At(RoomPCs))
               + Cardinality(At(MissPCs))
             < MaxCounter + 2 * Cardinality(Threads)
    /\ CanGrow =>
           next_unused_slot <= head_len(blocks)
               + Cardinality(At(MissPCs))
               + 2 * Cardinality(At(ExpandPCs))
    /\ At(ExpandPCs) # {} => next_unused_slot >= head_len(blocks)

\* Only a call that is about to leave holds a slot, and the slow path always does.
LocationInv ==
    \A t \in Threads :
        /\ pc[t] \notin {"release", "write_release"} => location[t] = <<>>
        /\ pc[t] = "write_release" /\ CanGrow => location[t] # <<>>

\* The slots of the blocks from number k on.
SlotsFrom(list, k) == UNION {SlotsOf(list[i]) : i \in k .. Len(list)}

\* The slots that exist are 2 * head - 1, which is also what the loop computes,
\* and a running capacity call has seen the head of now or of earlier.
CountInv ==
    /\ IsFiniteSet(SlotsFrom(blocks, 1))
    /\ blocks = <<>> => Allocated = 0
    /\ \A i \in 1 .. Len(blocks) : blocks[i] # 0 =>
           /\ head_size_to_total_size(blocks[i]) = 2 * blocks[i] - 1
           /\ 2 * blocks[i] - 1 <= Allocated
           /\ i = 1 => 2 * blocks[i] - 1 = Allocated
    /\ \A t \in Threads :
           \/ seen[t].head_size = 0
           \/ \E i \in 1 .. Len(blocks) : seen[t].head_size = blocks[i]

\* The inductive invariant.
Inv ==
    /\ TypeOK
    /\ LockInv
    /\ ListInv
    /\ CounterInv
    /\ LocationInv
    /\ HandedExactly
    /\ CountInv

-----------------------------------------------------------------------------
\* Every step is one of the steps of one thread.
LEMMA Cases ==
  ASSUME Next
  PROVE  \E t \in Threads :
            \/ ReadLock(t, "read", "fast") \/ ReadLock(t, "cap_read", "cap_load")
            \/ WriteClaim(t) \/ WriteLock(t) \/ WriteRelease(t)
            \/ Fast(t) \/ Recheck(t) \/ expand(t) \/ ExpandPanics(t)
            \/ ReadUnlock(t, "release", "idle") /\ UNCHANGED seen
            \/ Miss(t) \/ CapLoad(t) \/ CapRelease(t)
            \/ next_insert_location(t) \/ capacity(t)
BY DEF Next, Step, Acquire

\* What the arithmetic of u32 stays within.
LEMMA WordRange == U32 \in Nat \ {0, 1} /\ 0 \in Words /\ \A n \in Nat : n % U32 \in Words
BY U32Assumption DEF Words

\* slot_address gives a pair of words.
LEMMA SlotType ==
  ASSUME NEW len \in Words \ {0}, NEW s \in Nat
  PROVE  slot_address(len, s) \in Words \X Words
<1>1. len \in Nat \ {0} /\ U32 \in Nat \ {0} /\ len < U32 /\ s * 3 \in Nat
  BY WordRange DEF Words
<1>2. (s * 3) % U32 \in Nat
  BY <1>1
<1>3. ((s * 3) % U32) % len \in 0 .. (len - 1)
  BY <1>1, <1>2
<1> QED BY <1>1, <1>3 DEF slot_address, scramble_slot, Words

\* next_insert_location keeps the types, whatever list and counter it is given.
LEMMA OfferTypes ==
  ASSUME TypeOK, NEW t \in Threads, NEW list \in Seq(Words), NEW n \in Words,
         NEW hit \in PCs, NEW miss \in PCs, Offer(t, list, n, hit, miss)
  PROVE  /\ next_unused_slot' \in Words
         /\ handed' \subseteq Words \X Words
         /\ pc' \in [Threads -> PCs]
         /\ location' \in [Threads -> Seq(handed')]
         /\ \A u \in Threads : Len(location'[u]) <= 1
<1>1. CASE list = <<>>
  BY <1>1 DEF Offer, TypeOK, Go
<1>2. CASE list # <<>> /\ ~(n < Head(list))
  <2>1. n + 1 \in Nat
    BY WordRange DEF Words
  <2> QED BY <1>2, <2>1, WordRange DEF Offer, TypeOK, Go
<1>3. CASE list # <<>> /\ n < Head(list)
  <2> DEFINE l == slot_address(Head(list), n)
  <2>1. Head(list) \in Words \ {0} /\ n \in Nat /\ n + 1 \in Nat
    <3>1. Head(list) \in Words
      BY <1>3
    <3>2. n \in Nat /\ n + 1 \in Nat /\ Head(list) \in Nat
      BY <3>1, U32Assumption DEF Words
    <3> QED BY <1>3, <3>1, <3>2
  <2>2. l \in Words \X Words
    BY <2>1, SlotType
  <2>3. /\ next_unused_slot' = (n + 1) % U32
        /\ handed' = handed \cup {l}
        /\ location' = [location EXCEPT ![t] = <<l>>]
        /\ pc' = [pc EXCEPT ![t] = hit]
    BY <1>3, Zenon DEF Offer, Go
  <2> HIDE DEF l
  <2>4. \A s \in Seq(handed) : s \in Seq(handed')
    BY <2>3
  <2>5. <<l>> \in Seq(handed') /\ Len(<<l>>) = 1
    BY <2>3
  <2>6. location' \in [Threads -> Seq(handed')] /\ \A u \in Threads : Len(location'[u]) <= 1
    BY <2>3, <2>4, <2>5 DEF TypeOK
  <2> QED BY <2>1, <2>2, <2>3, <2>6, WordRange DEF TypeOK
<1> QED BY <1>1, <1>2, <1>3

\* The empty sequence, which stands for no slot.
LEMMA EmptyIsShort == \A S : <<>> \in Seq(S) /\ Len(<<>>) = 0
OBVIOUS

\* Every step keeps the types.
LEMMA TypeStep ==
  ASSUME TypeOK, [Next]_vars
  PROVE  TypeOK'
<1>1. CASE UNCHANGED vars
  BY <1>1 DEF TypeOK, vars
<1>2. ASSUME NEW t \in Threads,
             \/ ReadLock(t, "read", "fast") \/ ReadLock(t, "cap_read", "cap_load")
             \/ WriteClaim(t) \/ WriteLock(t) \/ WriteRelease(t)
             \/ ReadUnlock(t, "release", "idle") /\ UNCHANGED seen
             \/ ExpandPanics(t) \/ Miss(t)
             \/ next_insert_location(t) \/ capacity(t)
      PROVE  TypeOK'
  <2>1. /\ UNCHANGED <<overflow_checks, blocks, next_unused_slot, handed, seen>>
        /\ readers' \in {readers, readers \cup {t}, readers \ {t}}
        /\ writer' \in {writer, t, NoThread}
        /\ location' \in {location, [location EXCEPT ![t] = <<>>]}
    BY <1>2 DEF ReadLock, WriteClaim, WriteLock, WriteRelease, ReadUnlock, Miss,
       ExpandPanics, next_insert_location, capacity, listVars
  <2>2. \E p \in PCs : pc' = [pc EXCEPT ![t] = p]
    BY <1>2 DEF ReadLock, WriteClaim, WriteLock, WriteRelease, ReadUnlock, Miss,
       ExpandPanics, next_insert_location, capacity, Go, PCs
  <2>3. pc' \in [Threads -> PCs]
    BY <2>2 DEF TypeOK
  <2>4. /\ location' \in [Threads -> Seq(handed')]
        /\ \A u \in Threads : Len(location'[u]) <= 1
    <3>1. CASE location' = location
      BY <2>1, <3>1 DEF TypeOK
    <3>2. CASE location' = [location EXCEPT ![t] = <<>>]
      BY <2>1, <3>2, EmptyIsShort DEF TypeOK
    <3> QED BY <2>1, <3>1, <3>2
  <2> QED BY <2>1, <2>3, <2>4 DEF TypeOK
<1>3. ASSUME NEW t \in Threads, CapLoad(t)
      PROVE  TypeOK'
  <2>1. head_len(blocks) \in Words
    BY WordRange DEF TypeOK, head_len
  <2> QED BY <1>3, <2>1 DEF TypeOK, CapLoad, Go, PCs, listVars
<1>4. ASSUME NEW t \in Threads, CapRelease(t)
      PROVE  TypeOK'
  <2>1. NoSeen \in [head_size : Words, used : Words]
    BY WordRange DEF NoSeen
  <2>2. seen' \in [Threads -> [head_size : Words, used : Words]]
    BY <1>4, <2>1 DEF TypeOK, CapRelease
  <2>3. pc' \in [Threads -> PCs]
    BY <1>4 DEF TypeOK, CapRelease, ReadUnlock, Go, PCs
  <2>4. /\ location' \in [Threads -> Seq(handed')]
        /\ \A u \in Threads : Len(location'[u]) <= 1
    BY <1>4, EmptyIsShort DEF TypeOK, CapRelease, ReadUnlock, listVars
  <2>5. UNCHANGED <<listVars, writer>> /\ readers' = readers \ {t}
    BY <1>4 DEF CapRelease, ReadUnlock
  <2> QED BY <2>2, <2>3, <2>4, <2>5 DEF TypeOK, listVars
<1>5. ASSUME NEW t \in Threads, Fast(t)
      PROVE  TypeOK'
  <2>1. Offer(t, blocks, next_unused_slot, "release", "miss")
    BY <1>5 DEF Fast
  <2> QED BY <1>5, <2>1, OfferTypes DEF TypeOK, Fast, PCs
<1>6. ASSUME NEW t \in Threads, Recheck(t)
      PROVE  TypeOK'
  <2>1. Offer(t, blocks, next_unused_slot, "write_release", "expand")
    BY <1>6 DEF Recheck
  <2> QED BY <1>6, <2>1, OfferTypes DEF TypeOK, Recheck, PCs
<1>7. ASSUME NEW t \in Threads, expand(t)
      PROVE  TypeOK'
  <2>1. Offer(t, blocks', 0, "write_release", "write_release")
    BY <1>7 DEF expand
  <2>2. block_size(blocks) \in Words
    <3>1. head_len(blocks) \in Nat
      <4>1. CASE blocks # <<>>
        <5>1. Head(blocks) \in Words
          BY <4>1 DEF TypeOK
        <5> QED BY <4>1, <5>1, U32Assumption DEF Words, head_len
      <4> QED BY <4>1 DEF head_len
    <3>2. head_len(blocks) * RESIZE_FACTOR \in Nat
      BY <3>1 DEF RESIZE_FACTOR
    <3>3. INITIAL_BLOCK_SIZE \in Words
      BY WordRange DEF INITIAL_BLOCK_SIZE, Words
    <3> QED BY <3>2, <3>3, WordRange DEF block_size
  <2>3. blocks' \in Seq(Words)
    BY <1>7, <2>2 DEF expand, TypeOK
  <2> QED BY <1>7, <2>1, <2>3, OfferTypes, WordRange DEF TypeOK, expand, PCs
<1> QED BY <1>1, <1>2, <1>3, <1>4, <1>5, <1>6, <1>7, Cases

-----------------------------------------------------------------------------
\* Threads are counted within their number.
LEMMA CountsType ==
  ASSUME NEW f, NEW P
  PROVE  /\ IsFiniteSet(Those(f, P)) /\ Cardinality(Those(f, P)) \in Nat
         /\ Cardinality(Those(f, P)) <= Cardinality(Threads)
         /\ Cardinality(Threads) \in Nat
BY ThreadsAssumption, FS_Subset, FS_CardinalityType DEF Those

\* Threads at different positions are counted separately.
LEMMA CountsDisjoint ==
  ASSUME NEW f, NEW P, NEW Q, P \cap Q = {}
  PROVE  Cardinality(Those(f, P \cup Q))
            = Cardinality(Those(f, P)) + Cardinality(Those(f, Q))
<1> DEFINE A == Those(f, P)
           B == Those(f, Q)
<1>1. IsFiniteSet(A) /\ IsFiniteSet(B) /\ Cardinality(A) \in Nat /\ Cardinality(B) \in Nat
  BY CountsType
<1>2. A \cap B = {} /\ A \cup B = Those(f, P \cup Q)
  BY DEF Those
<1> HIDE DEF A, B
<1>3. Cardinality(A \cup B) = Cardinality(A) + Cardinality(B) - Cardinality(A \cap B)
  BY <1>1, FS_Union
<1>4. Cardinality(A \cap B) = 0
  BY <1>2, FS_EmptySet
<1>5. Cardinality(A \cup B) = Cardinality(A) + Cardinality(B)
  BY <1>1, <1>3, <1>4
<1> QED BY <1>2, <1>5 DEF A, B

\* How a count changes when one thread moves.
LEMMA CountsMove ==
  ASSUME NEW f, NEW g, NEW t \in Threads, NEW p, NEW P,
         g[t] = p, \A u \in Threads \ {t} : g[u] = f[u]
  PROVE  /\ Cardinality(Those(f, P)) \in Nat
         /\ Cardinality(Those(g, P)) \in Nat
         /\ (f[t] \in P <=> p \in P) => Cardinality(Those(g, P)) = Cardinality(Those(f, P))
         /\ f[t] \in P /\ p \notin P =>
                Cardinality(Those(g, P)) + 1 = Cardinality(Those(f, P))
         /\ f[t] \notin P /\ p \in P =>
                Cardinality(Those(g, P)) = Cardinality(Those(f, P)) + 1
<1>1. IsFiniteSet(Those(f, P)) /\ Cardinality(Those(f, P)) \in Nat
      /\ Cardinality(Those(g, P)) \in Nat
  BY CountsType
<1>2. g[t] = p /\ \A u \in Threads : u # t => g[u] = f[u]
  OBVIOUS
<1>3. ASSUME f[t] \in P <=> p \in P
      PROVE  Cardinality(Those(g, P)) = Cardinality(Those(f, P))
  <2>1. Those(g, P) = Those(f, P)
    BY <1>2, <1>3 DEF Those
  <2> QED BY <2>1
<1>4. ASSUME f[t] \in P, p \notin P
      PROVE  Cardinality(Those(g, P)) + 1 = Cardinality(Those(f, P))
  <2>1. Those(g, P) = Those(f, P) \ {t} /\ t \in Those(f, P)
    BY <1>2, <1>4 DEF Those
  <2>2. Cardinality(Those(g, P)) = Cardinality(Those(f, P)) - 1
    BY <1>1, <2>1, FS_RemoveElement
  <2> QED BY <1>1, <2>2
<1>5. ASSUME f[t] \notin P, p \in P
      PROVE  Cardinality(Those(g, P)) = Cardinality(Those(f, P)) + 1
  <2>1. Those(g, P) = Those(f, P) \cup {t} /\ t \notin Those(f, P)
    BY <1>2, <1>5 DEF Those
  <2> QED BY <1>1, <2>1, FS_AddElement
<1> QED BY <1>1, <1>3, <1>4, <1>5

\* The two outcomes of next_insert_location when the counter does not wrap: a
\* slot of the head, or none.
LEMMA OfferCases ==
  ASSUME NEW t, NEW list, NEW n \in Nat, n + 1 < U32, NEW hit, NEW miss,
         Offer(t, list, n, hit, miss), list # <<>> => Head(list) \in Nat
  PROVE  \/ /\ n < head_len(list) /\ list # <<>>
            /\ next_unused_slot' = n + 1
            /\ handed' = handed \cup {slot_address(head_len(list), n)}
            /\ location' = [location EXCEPT ![t] = <<slot_address(head_len(list), n)>>]
            /\ pc' = [pc EXCEPT ![t] = hit]
         \/ /\ ~(n < head_len(list))
            /\ next_unused_slot' = IF list = <<>> THEN n ELSE n + 1
            /\ pc' = [pc EXCEPT ![t] = miss]
            /\ UNCHANGED <<handed, location>>
<1>1. (n + 1) % U32 = n + 1
  BY U32Assumption
<1>2. CASE list = <<>>
  BY <1>2 DEF Offer, Go, head_len
<1>3. CASE list # <<>> /\ n < Head(list)
  BY <1>1, <1>3, Zenon DEF Offer, Go, head_len
<1>4. CASE list # <<>> /\ ~(n < Head(list))
  BY <1>1, <1>4, Zenon DEF Offer, Go, head_len
<1> QED BY <1>2, <1>3, <1>4

-----------------------------------------------------------------------------
\* The lock keeps readers and the writer apart, and nothing else takes or drops
\* it: the write guard is held from drain to write_release.
LEMMA LockStep ==
  ASSUME Inv, [Next]_vars
  PROVE  LockInv'
<1> USE DEF ReadPCs, WritePCs, InsidePCs
<1>1. CASE UNCHANGED vars
  BY <1>1 DEF Inv, LockInv, At, Those, vars
<1>2. ASSUME NEW t \in Threads,
             ReadLock(t, "read", "fast") \/ ReadLock(t, "cap_read", "cap_load")
      PROVE  LockInv'
  <2>1. \E p \in PCs : /\ pc' = [pc EXCEPT ![t] = p]
                       /\ p \in ReadPCs
                       /\ pc[t] \notin ReadPCs \cup WritePCs
                       /\ readers' = readers \cup {t}
                       /\ writer = NoThread /\ writer' = writer
    BY <1>2 DEF ReadLock, Go, PCs
  <2>2. \A u \in Threads : pc[u] \notin WritePCs
    BY <2>1, NoThreadAssumption DEF Inv, LockInv
  <2> QED BY <2>1, <2>2 DEF Inv, TypeOK, LockInv, At, Those
<1>3. ASSUME NEW t \in Threads,
             \/ ReadUnlock(t, "release", "idle") /\ UNCHANGED seen
             \/ Miss(t) \/ CapRelease(t)
      PROVE  LockInv'
  <2>1. \E p \in PCs : /\ pc' = [pc EXCEPT ![t] = p]
                       /\ p \notin ReadPCs \cup WritePCs
                       /\ pc[t] \in ReadPCs
                       /\ readers' = readers \ {t}
                       /\ writer' = writer
    BY <1>3 DEF Miss, CapRelease, ReadUnlock, Go, PCs
  <2> QED BY <2>1 DEF Inv, TypeOK, LockInv, At, Those
<1>4. ASSUME NEW t \in Threads, WriteClaim(t)
      PROVE  LockInv'
  BY <1>4, NoThreadAssumption DEF Inv, TypeOK, LockInv, WriteClaim, Go, At, Those
<1>5. ASSUME NEW t \in Threads, WriteLock(t)
      PROVE  LockInv'
  BY <1>5 DEF Inv, TypeOK, LockInv, WriteLock, Go, At, Those
<1>6. ASSUME NEW t \in Threads, WriteRelease(t)
      PROVE  LockInv'
  BY <1>6, NoThreadAssumption DEF Inv, TypeOK, LockInv, WriteRelease, Go, At, Those
<1>7. ASSUME NEW t \in Threads,
             \/ Fast(t) \/ Recheck(t) \/ expand(t) \/ ExpandPanics(t)
             \/ CapLoad(t) \/ next_insert_location(t) \/ capacity(t)
      PROVE  LockInv'
  <2>1. \E p \in PCs : /\ pc' = [pc EXCEPT ![t] = p]
                       /\ pc[t] \in ReadPCs <=> p \in ReadPCs
                       /\ pc[t] \in WritePCs <=> p \in WritePCs
                       /\ pc[t] \in InsidePCs <=> p \in InsidePCs
                       /\ UNCHANGED <<readers, writer>>
    BY <1>7 DEF Fast, Recheck, expand, ExpandPanics, CapLoad, next_insert_location,
       capacity, Offer, Go, PCs
  <2> QED BY <2>1 DEF Inv, TypeOK, LockInv, At, Those
<1> QED BY <1>1, <1>2, <1>3, <1>4, <1>5, <1>6, <1>7, Cases

\* The thread that is inside the write lock is alone there.
LEMMA WriterAlone ==
  ASSUME Inv, NEW t \in Threads, pc[t] \in InsidePCs
  PROVE  /\ \A u \in Threads \ {t} : pc[u] \notin ReadPCs \cup WritePCs
BY DEF Inv, LockInv, At, Those, ReadPCs, WritePCs, InsidePCs

\* A block put in front of the list.
LEMMA Prepended ==
  ASSUME NEW S, NEW list \in Seq(S), NEW x \in S
  PROVE  /\ <<x>> \o list \in Seq(S) /\ <<x>> \o list # <<>>
         /\ Len(<<x>> \o list) = Len(list) + 1
         /\ Head(<<x>> \o list) = x /\ (<<x>> \o list)[1] = x
         /\ \A i \in 1 .. Len(list) : (<<x>> \o list)[i + 1] = list[i]
         /\ \A i \in 2 .. Len(list) + 1 : (<<x>> \o list)[i] = list[i - 1]
OBVIOUS

\* The head of the list and the counter as numbers.
LEMMA HeadFacts ==
  ASSUME TypeOK
  PROVE  /\ head_len(blocks) \in Nat /\ Len(blocks) \in Nat
         /\ next_unused_slot \in Nat
         /\ blocks = <<>> <=> Len(blocks) = 0
         /\ blocks = <<>> => head_len(blocks) = 0
         /\ blocks # <<>> => head_len(blocks) = blocks[1] /\ Head(blocks) = blocks[1]
         /\ \A i \in 1 .. Len(blocks) : blocks[i] \in Nat
<1>1. Words \subseteq Nat
  BY U32Assumption DEF Words
<1>2. /\ \A i \in 1 .. Len(blocks) : blocks[i] \in Words
      /\ Len(blocks) \in Nat
      /\ blocks = <<>> <=> Len(blocks) = 0
      /\ blocks # <<>> => Head(blocks) = blocks[1]
      /\ next_unused_slot \in Words
  BY DEF TypeOK
<1>3. blocks # <<>> => 1 \in 1 .. Len(blocks)
  BY <1>2
<1>4. blocks # <<>> => head_len(blocks) = blocks[1]
  BY <1>2 DEF head_len
<1>5. blocks = <<>> => head_len(blocks) = 0
  BY DEF head_len
<1> QED BY <1>1, <1>2, <1>3, <1>4, <1>5

\* What expand puts in front: 1, the double of the head, or 0 once that overflows.
LEMMA NewBlock ==
  ASSUME TypeOK, ListInv, ~ExpandOverflows
  PROVE  /\ block_size(blocks) \in Words
         /\ \/ blocks = <<>> /\ block_size(blocks) = 1
            \/ /\ blocks # <<>> /\ block_size(blocks) = 0 /\ ~overflow_checks
            \/ /\ blocks # <<>> /\ blocks[1] \in Lengths
               /\ block_size(blocks) = 2 * blocks[1]
               /\ block_size(blocks) \in Lengths
<1>0. 0 \in Words /\ 1 \in Words
  BY WordRange DEF Words
<1>1. CASE blocks = <<>>
  BY <1>0, <1>1 DEF block_size, INITIAL_BLOCK_SIZE
<1>2. CASE blocks # <<>> /\ blocks[1] = 0
  <2>1. block_size(blocks) = 0
    BY <1>2, HeadFacts, U32Assumption DEF block_size, RESIZE_FACTOR
  <2> QED BY <1>0, <1>2, <2>1, HeadFacts DEF ListInv
<1>3. CASE blocks # <<>> /\ blocks[1] # 0
  <2>1. blocks[1] \in Lengths /\ head_len(blocks) = blocks[1]
    BY <1>3, HeadFacts DEF ListInv
  <2>2. block_size(blocks) = (blocks[1] * RESIZE_FACTOR) % U32
    BY <1>3, <2>1 DEF block_size
  <2>3. CASE doubling_overflows(blocks[1])
    BY <1>0, <1>3, <2>1, <2>2, <2>3, NextLength DEF ExpandOverflows, TypeOK
  <2>4. CASE ~doubling_overflows(blocks[1])
    <3>1. block_size(blocks) = 2 * blocks[1] /\ 2 * blocks[1] \in Lengths
      BY <2>1, <2>2, <2>4, NextLength
    <3> QED BY <1>3, <2>1, <3>1 DEF Lengths, Words
  <2> QED BY <2>3, <2>4
<1> QED BY <1>1, <1>2, <1>3

\* Only expand changes the list, and it keeps its shape.
LEMMA ListStep ==
  ASSUME Inv, [Next]_vars
  PROVE  ListInv'
<1>1. CASE UNCHANGED <<overflow_checks, blocks>>
  BY <1>1 DEF Inv, ListInv
<1>2. ASSUME NEW t \in Threads, expand(t)
      PROVE  ListInv'
  <2> DEFINE x == block_size(blocks)
  <2>1. /\ TypeOK /\ ListInv /\ ~ExpandOverflows /\ blocks \in Seq(Words)
        /\ blocks' = <<x>> \o blocks /\ overflow_checks' = overflow_checks
    BY <1>2 DEF Inv, expand, TypeOK
  <2>2. /\ x \in Words
        /\ \/ blocks = <<>> /\ x = 1
           \/ /\ blocks # <<>> /\ x = 0 /\ ~overflow_checks
           \/ /\ blocks # <<>> /\ blocks[1] \in Lengths
              /\ x = 2 * blocks[1] /\ x \in Lengths
    BY <2>1, NewBlock
  <2> HIDE DEF x
  <2>3. /\ blocks' # <<>>
        /\ Len(blocks') = Len(blocks) + 1
        /\ Head(blocks') = x /\ blocks'[1] = x
        /\ \A i \in 2 .. Len(blocks) + 1 : blocks'[i] = blocks[i - 1]
    BY <2>1, <2>2, Prepended
  <2>4. Len(blocks) \in Nat /\ (blocks = <<>> <=> Len(blocks) = 0)
        /\ \A i \in 1 .. Len(blocks) : blocks[i] \in Nat
    BY <2>1, HeadFacts
  <2>5. ASSUME NEW i \in 1 .. Len(blocks) + 1
        PROVE  blocks'[i] = 0 \/ blocks'[i] \in Lengths
    BY <2>1, <2>2, <2>3, <2>4, FirstLength DEF ListInv, INITIAL_BLOCK_SIZE
  <2>6. ASSUME NEW i \in 1 .. Len(blocks) + 1, NEW j \in 1 .. Len(blocks) + 1,
               i < j, blocks'[i] # 0
        PROVE  blocks'[j] # 0 /\ blocks'[j] < blocks'[i]
    <3>1. blocks'[j] = blocks[j - 1] /\ j - 1 \in 1 .. Len(blocks)
      BY <2>3, <2>4, <2>6
    <3>2. CASE i = 1
      <4>1. /\ blocks[1] \in Lengths /\ blocks[1] \in Nat \ {0}
            /\ blocks'[i] = 2 * blocks[1] /\ 1 \in 1 .. Len(blocks)
        BY <2>2, <2>3, <2>4, <2>6, <3>1, <3>2, LengthsInHalf
      <4> QED BY <2>1, <2>4, <3>1, <4>1 DEF ListInv
    <3>3. CASE i # 1
      <4>1. blocks'[i] = blocks[i - 1] /\ i - 1 \in 1 .. Len(blocks) /\ i - 1 < j - 1
        BY <2>3, <2>4, <2>6, <3>3
      <4> QED BY <2>1, <2>4, <2>6, <3>1, <4>1 DEF ListInv
    <3> QED BY <3>2, <3>3
  <2>7. ASSUME NEW i \in 1 .. Len(blocks), blocks'[i] # 0
        PROVE  blocks'[i] = 2 * blocks'[i + 1]
    BY <2>1, <2>2, <2>3, <2>4, <2>7 DEF ListInv
  <2>8. blocks'[Len(blocks')] = INITIAL_BLOCK_SIZE
    BY <2>1, <2>2, <2>3, <2>4 DEF ListInv, INITIAL_BLOCK_SIZE
  <2>9. overflow_checks' => Head(blocks') # 0
    BY <2>1, <2>2, <2>3, LengthsInHalf
  <2> QED BY <2>3, <2>4, <2>5, <2>6, <2>7, <2>8, <2>9 DEF ListInv
<1> QED BY <1>1, <1>2, Cases DEF vars, listVars, ReadLock, WriteClaim, WriteLock,
      WriteRelease, Fast, Recheck, ExpandPanics, ReadUnlock, Miss, CapLoad, CapRelease,
      next_insert_location, capacity

\* The steps that leave the list and the counter alone, except the start of a call.
Quiet(t) ==
    \E p \in PCs :
        /\ pc' = [pc EXCEPT ![t] = p]
        /\ UNCHANGED listVars
        /\ pc[t] \in RoomPCs <=> p \in RoomPCs
        /\ pc[t] \in MissPCs <=> p \in MissPCs
        /\ p \notin {"expand", "release"}
        /\ p = "write_release" \/ pc[t] = "expand" => ~CanGrow
        /\ \/ location' = location /\ pc[t] \notin GivenPCs
           \/ location' = [location EXCEPT ![t] = <<>>] /\ p # "write_release"

\* Every step leaves the list and the counter alone, begins a call, or is one of
\* the three that look for a slot.
LEMMA Moves ==
  ASSUME [Next]_vars
  PROVE  \/ UNCHANGED vars
         \/ \E t \in Threads :
               Quiet(t) \/ next_insert_location(t) \/ Fast(t) \/ Recheck(t) \/ expand(t)
<1> USE DEF RoomPCs, MissPCs, GivenPCs, PCs, Quiet, Go
<1>1. ASSUME NEW t \in Threads,
             \/ ReadLock(t, "read", "fast") \/ ReadLock(t, "cap_read", "cap_load")
             \/ WriteClaim(t) \/ WriteLock(t)
      PROVE  Quiet(t)
  BY <1>1 DEF ReadLock, WriteClaim, WriteLock
<1>2. ASSUME NEW t \in Threads,
             \/ WriteRelease(t) \/ ExpandPanics(t) \/ CapLoad(t) \/ capacity(t)
      PROVE  Quiet(t)
  BY <1>2 DEF WriteRelease, ExpandPanics, CapLoad, capacity, CanGrow
<1>3. ASSUME NEW t \in Threads,
             ReadUnlock(t, "release", "idle") \/ Miss(t) \/ CapRelease(t)
      PROVE  Quiet(t)
  BY <1>3 DEF ReadUnlock, Miss, CapRelease
<1> QED BY <1>1, <1>2, <1>3, Cases

\* A call that has not had its turn leaves the counter room.
LEMMA NoWrap ==
  ASSUME TypeOK, CounterInv, NEW t \in Threads, pc[t] \in {"fast", "recheck"}
  PROVE  next_unused_slot + 1 < U32
<1>1. t \in At(RoomPCs) \/ t \in At(MissPCs)
  BY DEF At, Those, RoomPCs, MissPCs
<1>2. \/ Cardinality(At(RoomPCs)) # 0
      \/ Cardinality(At(MissPCs)) # 0
  BY <1>1, CountsType, FS_EmptySet DEF At
<1>3. /\ Cardinality(At(RoomPCs)) \in Nat
      /\ Cardinality(At(MissPCs)) \in Nat
      /\ Cardinality(Threads) \in Nat
  BY CountsType DEF At
<1> QED BY <1>2, <1>3, HeadFacts, MaxCounterAssumption, U32Assumption DEF CounterInv

\* The fast path and the second look: a slot of the head, or a miss.
LEMMA FastCases ==
  ASSUME Inv, NEW t \in Threads, Fast(t) \/ Recheck(t)
  PROVE  /\ UNCHANGED <<overflow_checks, blocks>>
         /\ \/ /\ next_unused_slot < head_len(blocks) /\ blocks # <<>>
               /\ next_unused_slot' = next_unused_slot + 1
               /\ handed' = handed \cup {slot_address(head_len(blocks), next_unused_slot)}
               /\ location' = [location EXCEPT
                      ![t] = <<slot_address(head_len(blocks), next_unused_slot)>>]
               /\ pc' = [pc EXCEPT ![t] = IF pc[t] = "fast" THEN "release" ELSE "write_release"]
            \/ /\ ~(next_unused_slot < head_len(blocks))
               /\ next_unused_slot' = IF blocks = <<>> THEN next_unused_slot
                                                       ELSE next_unused_slot + 1
               /\ UNCHANGED <<handed, location>>
               /\ pc' = [pc EXCEPT ![t] = IF pc[t] = "fast" THEN "miss" ELSE "expand"]
<1>1. TypeOK /\ CounterInv
  BY DEF Inv
<1>2. next_unused_slot \in Nat /\ (blocks # <<>> => Head(blocks) \in Nat)
  BY <1>1, HeadFacts
<1>3. CASE Fast(t)
  <2>1. next_unused_slot + 1 < U32
    BY <1>1, <1>3, NoWrap DEF Fast
  <2>2. Offer(t, blocks, next_unused_slot, "release", "miss") /\ pc[t] = "fast"
    BY <1>3 DEF Fast
  <2>3. UNCHANGED <<overflow_checks, blocks>>
    BY <1>3 DEF Fast
  <2>4. \/ /\ next_unused_slot < head_len(blocks) /\ blocks # <<>>
           /\ next_unused_slot' = next_unused_slot + 1
           /\ handed' = handed \cup {slot_address(head_len(blocks), next_unused_slot)}
           /\ location' = [location EXCEPT
                  ![t] = <<slot_address(head_len(blocks), next_unused_slot)>>]
           /\ pc' = [pc EXCEPT ![t] = "release"]
        \/ /\ ~(next_unused_slot < head_len(blocks))
           /\ next_unused_slot' = IF blocks = <<>> THEN next_unused_slot
                                                   ELSE next_unused_slot + 1
           /\ pc' = [pc EXCEPT ![t] = "miss"]
           /\ UNCHANGED <<handed, location>>
    BY <1>2, <2>1, <2>2, OfferCases, Zenon
  <2> QED BY <2>2, <2>3, <2>4
<1>4. CASE Recheck(t)
  <2>1. next_unused_slot + 1 < U32
    BY <1>1, <1>4, NoWrap DEF Recheck
  <2>2. Offer(t, blocks, next_unused_slot, "write_release", "expand") /\ pc[t] = "recheck"
    BY <1>4 DEF Recheck
  <2>3. UNCHANGED <<overflow_checks, blocks>>
    BY <1>4 DEF Recheck
  <2>4. \/ /\ next_unused_slot < head_len(blocks) /\ blocks # <<>>
           /\ next_unused_slot' = next_unused_slot + 1
           /\ handed' = handed \cup {slot_address(head_len(blocks), next_unused_slot)}
           /\ location' = [location EXCEPT
                  ![t] = <<slot_address(head_len(blocks), next_unused_slot)>>]
           /\ pc' = [pc EXCEPT ![t] = "write_release"]
        \/ /\ ~(next_unused_slot < head_len(blocks))
           /\ next_unused_slot' = IF blocks = <<>> THEN next_unused_slot
                                                   ELSE next_unused_slot + 1
           /\ pc' = [pc EXCEPT ![t] = "expand"]
           /\ UNCHANGED <<handed, location>>
    BY <1>2, <2>1, <2>2, OfferCases, Zenon
  <2> QED BY <2>2, <2>3, <2>4
<1> QED BY <1>3, <1>4

\* Expanding: the new block, its first slot, unless it has none.
LEMMA ExpandCases ==
  ASSUME Inv, NEW t \in Threads, expand(t)
  PROVE  LET x == block_size(blocks)
         IN  /\ x \in Words /\ blocks' = <<x>> \o blocks /\ head_len(blocks') = x
             /\ x \in Nat
             /\ overflow_checks' = overflow_checks
             /\ next_unused_slot' = 1
             /\ pc[t] = "expand" /\ pc' = [pc EXCEPT ![t] = "write_release"]
             /\ IF 0 < x
                THEN /\ handed' = handed \cup {slot_address(x, 0)}
                     /\ location' = [location EXCEPT ![t] = <<slot_address(x, 0)>>]
                ELSE UNCHANGED <<handed, location>>
<1> DEFINE x == block_size(blocks)
<1>1. x \in Words
  BY NewBlock DEF Inv, expand
<1>2. x \in Nat /\ 0 \in Nat /\ 0 + 1 < U32
  BY <1>1, U32Assumption DEF Words
<1>3. /\ blocks' = <<x>> \o blocks /\ pc[t] = "expand"
      /\ overflow_checks' = overflow_checks
      /\ Offer(t, blocks', 0, "write_release", "write_release")
  BY DEF expand
<1> HIDE DEF x
<1>4. blocks' # <<>> /\ Head(blocks') = x
  BY <1>1, <1>3, Prepended DEF Inv, TypeOK
<1>5. head_len(blocks') = x
  BY <1>4 DEF head_len
<1>6. IF 0 < x
      THEN /\ next_unused_slot' = 1
           /\ handed' = handed \cup {slot_address(x, 0)}
           /\ location' = [location EXCEPT ![t] = <<slot_address(x, 0)>>]
           /\ pc' = [pc EXCEPT ![t] = "write_release"]
      ELSE /\ next_unused_slot' = 1
           /\ UNCHANGED <<handed, location>>
           /\ pc' = [pc EXCEPT ![t] = "write_release"]
  <2> DEFINE list == blocks'
  <2>1. Offer(t, list, 0, "write_release", "write_release") /\ list # <<>> /\ Head(list) = x
        /\ head_len(list) = x
    BY <1>3, <1>4, <1>5
  <2> HIDE DEF list
  <2>2. (0 + 1) % U32 = 1
    BY U32Assumption
  <2>3. CASE 0 < x
    BY <2>1, <2>2, <2>3, Zenon DEF Offer, Go
  <2>4. CASE ~(0 < x)
    BY <2>1, <2>2, <2>4, Zenon DEF Offer, Go
  <2> QED BY <2>3, <2>4
<1> QED BY <1>1, <1>2, <1>3, <1>5, <1>6 DEF x

-----------------------------------------------------------------------------
\* Each call advances the counter at most twice before it expands or leaves, so
\* the counter stays in range and close to the head, and whoever gets to expand
\* has found the head used up.
LEMMA CounterStep ==
  ASSUME Inv, [Next]_vars
  PROVE  CounterInv'
<1> DEFINE R == Cardinality(At(RoomPCs))
           M == Cardinality(At(MissPCs))
           E == Cardinality(At(ExpandPCs))
           n == next_unused_slot
           h == head_len(blocks)
           T == Cardinality(Threads)
<1>0. /\ TypeOK /\ TypeOK' /\ ListInv' /\ pc \in [Threads -> PCs]
      /\ R \in Nat /\ M \in Nat /\ E \in Nat /\ T \in Nat /\ n \in Nat /\ h \in Nat
      /\ MaxCounter \in Nat
  BY TypeStep, ListStep, CountsType, HeadFacts, MaxCounterAssumption DEF Inv, At, TypeOK
<1>1. /\ Threads # {} => n + 2 * R + M < MaxCounter + 2 * T
      /\ CanGrow => n <= h + M + 2 * E
      /\ At(ExpandPCs) # {} => n >= h
  BY DEF Inv, CounterInv
<1>2. SUFFICES /\ Threads # {} => n' + 2 * R' + M' < MaxCounter + 2 * T
               /\ CanGrow' => n' <= h' + M' + 2 * E'
               /\ At(ExpandPCs)' # {} => n' >= h'
  BY DEF CounterInv
<1>m. ASSUME NEW t \in Threads, NEW p, pc' = [pc EXCEPT ![t] = p]
      PROVE  /\ R' \in Nat /\ M' \in Nat /\ E' \in Nat
             /\ (pc[t] \in RoomPCs <=> p \in RoomPCs) => R' = R
             /\ pc[t] \in RoomPCs /\ p \notin RoomPCs => R' + 1 = R
             /\ pc[t] \notin RoomPCs /\ p \in RoomPCs => R' = R + 1
             /\ (pc[t] \in MissPCs <=> p \in MissPCs) => M' = M
             /\ pc[t] \in MissPCs /\ p \notin MissPCs => M' + 1 = M
             /\ pc[t] \notin MissPCs /\ p \in MissPCs => M' = M + 1
             /\ (pc[t] \in ExpandPCs <=> p \in ExpandPCs) => E' = E
             /\ pc[t] \notin ExpandPCs /\ p \in ExpandPCs => E' = E + 1
  <2>0. pc'[t] = p /\ \A u \in Threads \ {t} : pc'[u] = pc[u]
    BY <1>0, <1>m
  <2>1. ASSUME NEW P
        PROVE  /\ Cardinality(Those(pc', P)) \in Nat
               /\ (pc[t] \in P <=> p \in P)
                    => Cardinality(Those(pc', P)) = Cardinality(Those(pc, P))
               /\ pc[t] \in P /\ p \notin P =>
                      Cardinality(Those(pc', P)) + 1 = Cardinality(Those(pc, P))
               /\ pc[t] \notin P /\ p \in P =>
                      Cardinality(Those(pc', P)) = Cardinality(Those(pc, P)) + 1
    BY <2>0, CountsMove
  <2> QED BY <2>1 DEF At
<1>3. CASE UNCHANGED vars
  <2>1. UNCHANGED <<n, h, R, M, E, At(ExpandPCs), CanGrow>>
    BY <1>3 DEF vars, At, Those, CanGrow, HeadIsEmpty, ExpandOverflows
  <2> QED BY <1>1, <2>1
<1>4. ASSUME NEW t \in Threads, Quiet(t)
      PROVE  /\ n' + 2 * R' + M' < MaxCounter + 2 * T
             /\ CanGrow' => n' <= h' + M' + 2 * E'
             /\ At(ExpandPCs)' # {} => n' >= h'
  <2>1. PICK p \in PCs :
            /\ pc' = [pc EXCEPT ![t] = p]
            /\ UNCHANGED listVars
            /\ pc[t] \in RoomPCs <=> p \in RoomPCs
            /\ pc[t] \in MissPCs <=> p \in MissPCs
            /\ p # "expand"
            /\ pc[t] = "expand" => ~CanGrow
    BY <1>4 DEF Quiet
  <2>2. n' = n /\ h' = h /\ CanGrow' = CanGrow
    BY <2>1 DEF listVars, CanGrow, HeadIsEmpty, ExpandOverflows
  <2>3. R' = R /\ M' = M
    BY <1>m, <2>1
  <2>4. At(ExpandPCs)' \subseteq At(ExpandPCs)
    BY <2>1, <1>0 DEF At, Those, ExpandPCs
  <2>5. CanGrow => E' = E
    BY <1>m, <2>1 DEF ExpandPCs
  <2> QED BY <1>0, <1>1, <2>2, <2>3, <2>4, <2>5
<1>5. ASSUME NEW t \in Threads, next_insert_location(t)
      PROVE  /\ n' + 2 * R' + M' < MaxCounter + 2 * T
             /\ CanGrow' => n' <= h' + M' + 2 * E'
             /\ At(ExpandPCs)' # {} => n' >= h'
  <2>1. /\ pc[t] = "idle" /\ pc' = [pc EXCEPT ![t] = "read"]
        /\ n < MaxCounter /\ UNCHANGED listVars
    BY <1>5 DEF next_insert_location, Go
  <2>2. n' = n /\ h' = h /\ CanGrow' = CanGrow
    BY <2>1 DEF listVars, CanGrow, HeadIsEmpty, ExpandOverflows
  <2>3. R' \in Nat /\ M' \in Nat /\ M' = M /\ E' = E
    <3>1. pc[t] \notin MissPCs \cup ExpandPCs /\ "read" \notin MissPCs \cup ExpandPCs
      BY <2>1 DEF MissPCs, ExpandPCs
    <3> HIDE DEF R, M, E
    <3> QED BY <1>m, <2>1, <3>1
  <2>4. R' + M' <= T
    <3>1. Cardinality(Those(pc', RoomPCs \cup MissPCs)) = R' + M'
      BY CountsDisjoint DEF At, RoomPCs, MissPCs
    <3> QED BY <3>1, CountsType
  <2>5. At(ExpandPCs)' = At(ExpandPCs)
    BY <2>1, <1>0 DEF At, Those, ExpandPCs
  <2> QED BY <1>0, <1>1, <2>1, <2>2, <2>3, <2>4, <2>5
<1>6. ASSUME NEW t \in Threads, Fast(t) \/ Recheck(t)
      PROVE  /\ n' + 2 * R' + M' < MaxCounter + 2 * T
             /\ CanGrow' => n' <= h' + M' + 2 * E'
             /\ At(ExpandPCs)' # {} => n' >= h'
  <2>1. h' = h /\ CanGrow' = CanGrow
    BY <1>6, FastCases DEF CanGrow, HeadIsEmpty, ExpandOverflows
  <2>2. PICK p :
           /\ pc' = [pc EXCEPT ![t] = p]
           /\ \/ n < h /\ n' = n + 1
                 /\ p = IF pc[t] = "fast" THEN "release" ELSE "write_release"
              \/ ~(n < h) /\ n' \in {n, n + 1}
                 /\ p = IF pc[t] = "fast" THEN "miss" ELSE "expand"
    BY <1>6, FastCases
  <2>3. pc[t] \in {"fast", "recheck"}
    BY <1>6 DEF Fast, Recheck
  <2>4. At(ExpandPCs) = {}
    BY <2>3, WriterAlone DEF At, Those, ReadPCs, InsidePCs, WritePCs, ExpandPCs
  <2>5. R' \in Nat /\ M' \in Nat /\ E' \in Nat
    BY <1>m, <2>2
  <2>6. CASE n < h /\ n' = n + 1 /\ p \in GivenPCs
    <3>1. At(ExpandPCs)' = {}
      BY <1>0, <2>2, <2>4, <2>6 DEF At, Those, ExpandPCs, GivenPCs
    <3>2. \/ R' + 1 = R /\ M' = M
          \/ R' = R /\ M' + 1 = M
      BY <1>m, <2>2, <2>3, <2>6 DEF RoomPCs, MissPCs, GivenPCs
    <3> QED BY <1>0, <1>1, <2>1, <2>5, <2>6, <3>1, <3>2
  <2>7. CASE ~(n < h) /\ n' \in {n, n + 1} /\ pc[t] = "fast" /\ p = "miss"
    <3>1. R' + 1 = R /\ M' = M + 1 /\ E' = E
      BY <1>m, <2>2, <2>7 DEF RoomPCs, MissPCs, ExpandPCs
    <3> QED BY <1>0, <1>1, <2>1, <2>5, <2>7, <3>1
  <2>8. CASE ~(n < h) /\ n' \in {n, n + 1} /\ pc[t] = "recheck" /\ p = "expand"
    <3>1. R' = R /\ M' + 1 = M /\ E' = E + 1
      BY <1>m, <2>2, <2>8 DEF RoomPCs, MissPCs, ExpandPCs
    <3> QED BY <1>0, <1>1, <2>1, <2>5, <2>8, <3>1
  <2> QED BY <2>2, <2>3, <2>6, <2>7, <2>8 DEF GivenPCs
<1>7. ASSUME NEW t \in Threads, expand(t)
      PROVE  /\ n' + 2 * R' + M' < MaxCounter + 2 * T
             /\ CanGrow' => n' <= h' + M' + 2 * E'
             /\ At(ExpandPCs)' # {} => n' >= h'
  <2>1. /\ pc[t] = "expand" /\ pc' = [pc EXCEPT ![t] = "write_release"]
        /\ n' = 1 /\ h' \in Nat
    BY <1>7, ExpandCases
  <2>2. R' = R /\ M' = M /\ E' \in Nat
    <3>1. pc[t] \notin RoomPCs \cup MissPCs /\ "write_release" \notin RoomPCs \cup MissPCs
      BY <2>1 DEF RoomPCs, MissPCs
    <3> HIDE DEF R, M, E
    <3> QED BY <1>m, <2>1, <3>1
  <2>3. R + M < T
    <3> DEFINE A == Those(pc, RoomPCs \cup MissPCs)
    <3>1. A \in SUBSET (Threads \ {t})
      BY <2>1 DEF Those, RoomPCs, MissPCs
    <3>2. IsFiniteSet(Threads \ {t}) /\ Cardinality(Threads \ {t}) = T - 1
      BY FS_RemoveElement, ThreadsAssumption
    <3>3. Cardinality(A) = R + M
      BY CountsDisjoint DEF At, RoomPCs, MissPCs
    <3> HIDE DEF A
    <3>4. Cardinality(A) <= T - 1
      BY <3>1, <3>2, FS_Subset
    <3> QED BY <1>0, <3>3, <3>4
  <2>4. CanGrow' => h' >= 1
    <3>1. blocks' # <<>>
      BY <1>7, ExpandCases, Prepended DEF Inv, TypeOK
    <3> QED BY <2>1, <3>1 DEF CanGrow, HeadIsEmpty, head_len
  <2>5. At(ExpandPCs)' = {}
    BY <1>0, <2>1, WriterAlone DEF At, Those, InsidePCs, WritePCs, ExpandPCs
  <2> QED BY <1>0, <2>1, <2>2, <2>3, <2>4, <2>5
<1> QED BY <1>3, <1>4, <1>5, <1>6, <1>7, Moves

\* A call holds a slot exactly while it leaves the lock with one, and the slow
\* path leaves with one.
LEMMA LocationStep ==
  ASSUME Inv, [Next]_vars
  PROVE  LocationInv'
<1>0. TypeOK /\ TypeOK' /\ LocationInv /\ pc \in [Threads -> PCs] /\ DOMAIN location = Threads
  BY TypeStep DEF Inv, TypeOK
<1>1. CASE UNCHANGED vars
  BY <1>0, <1>1 DEF vars, LocationInv, CanGrow, HeadIsEmpty, ExpandOverflows
<1>2. ASSUME NEW t \in Threads, Quiet(t)
      PROVE  LocationInv'
  <2>1. PICK p \in PCs :
            /\ pc' = [pc EXCEPT ![t] = p]
            /\ UNCHANGED listVars
            /\ p # "release"
            /\ p = "write_release" => ~CanGrow
            /\ \/ location' = location /\ pc[t] \notin GivenPCs
               \/ location' = [location EXCEPT ![t] = <<>>] /\ p # "write_release"
    BY <1>2 DEF Quiet
  <2>2. CanGrow' = CanGrow
    BY <2>1 DEF listVars, CanGrow, HeadIsEmpty, ExpandOverflows
  <2>3. location'[t] = <<>> \/ (location'[t] = location[t] /\ pc[t] \notin GivenPCs)
    BY <1>0, <2>1
  <2>4. \A u \in Threads \ {t} : location'[u] = location[u] /\ pc'[u] = pc[u]
    BY <1>0, <2>1
  <2>5. pc'[t] = p
    BY <1>0, <2>1
  <2> QED BY <1>0, <2>1, <2>2, <2>3, <2>4, <2>5 DEF LocationInv, GivenPCs
<1>3. ASSUME NEW t \in Threads, next_insert_location(t)
      PROVE  LocationInv'
  <2>1. /\ pc[t] = "idle" /\ pc' = [pc EXCEPT ![t] = "read"]
        /\ UNCHANGED listVars /\ location' = location
    BY <1>3 DEF next_insert_location, Go
  <2>2. CanGrow' = CanGrow
    BY <2>1 DEF listVars, CanGrow, HeadIsEmpty, ExpandOverflows
  <2> QED BY <1>0, <2>1, <2>2 DEF LocationInv
<1>4. ASSUME NEW t \in Threads, Fast(t) \/ Recheck(t)
      PROVE  LocationInv'
  <2>1. CanGrow' = CanGrow
    BY <1>4, FastCases DEF CanGrow, HeadIsEmpty, ExpandOverflows
  <2> DEFINE l == slot_address(head_len(blocks), next_unused_slot)
  <2>2. PICK p :
           /\ pc' = [pc EXCEPT ![t] = p]
           /\ \/ p \in GivenPCs /\ location' = [location EXCEPT ![t] = <<l>>]
              \/ p \notin GivenPCs /\ location' = location
    <3>1. \/ /\ location' = [location EXCEPT ![t] = <<l>>]
             /\ pc' = [pc EXCEPT ![t] = IF pc[t] = "fast" THEN "release" ELSE "write_release"]
          \/ /\ location' = location
             /\ pc' = [pc EXCEPT ![t] = IF pc[t] = "fast" THEN "miss" ELSE "expand"]
      BY <1>4, FastCases
    <3> HIDE DEF l
    <3> QED BY <3>1 DEF GivenPCs
  <2> HIDE DEF l
  <2>3. \A u \in Threads \ {t} : location'[u] = location[u] /\ pc'[u] = pc[u]
    BY <1>0, <2>2
  <2>4. pc[t] \in {"fast", "recheck"}
    BY <1>4 DEF Fast, Recheck
  <2>5. /\ pc'[t] \in GivenPCs => location'[t] = <<l>>
        /\ pc'[t] \notin GivenPCs => location'[t] = <<>>
    BY <1>0, <2>2, <2>4 DEF LocationInv
  <2> QED BY <1>0, <2>1, <2>3, <2>5 DEF LocationInv, GivenPCs
<1>5. ASSUME NEW t \in Threads, expand(t)
      PROVE  LocationInv'
  <2> DEFINE x == block_size(blocks)
             l == slot_address(x, 0)
  <2>1. /\ blocks' = <<x>> \o blocks /\ head_len(blocks') = x /\ x \in Nat /\ x \in Words
        /\ pc[t] = "expand" /\ pc' = [pc EXCEPT ![t] = "write_release"]
        /\ IF 0 < x THEN location' = [location EXCEPT ![t] = <<l>>] ELSE location' = location
    BY <1>5, ExpandCases
  <2> HIDE DEF x, l
  <2>2. CanGrow' => 0 < x
    <3>1. blocks' # <<>>
      BY <2>1, Prepended DEF Inv, TypeOK
    <3> QED BY <2>1, <3>1 DEF CanGrow, HeadIsEmpty, head_len
  <2>3. \A u \in Threads \ {t} : location'[u] = location[u] /\ pc'[u] = pc[u]
    BY <1>0, <2>1
  <2>4. \A u \in Threads \ {t} : pc[u] # "write_release"
    BY <2>1, WriterAlone DEF InsidePCs, WritePCs
  <2>5. pc'[t] = "write_release" /\ (0 < x => location'[t] = <<l>>)
    BY <1>0, <2>1
  <2> QED BY <1>0, <2>2, <2>3, <2>4, <2>5 DEF LocationInv
<1> QED BY <1>1, <1>2, <1>3, <1>4, <1>5, Moves

-----------------------------------------------------------------------------
\* The first n slots of a block of length len, or all if it has fewer.
FirstSlots(len, n) == {slot_address(len, s) : s \in 0 .. (Lesser(n, len) - 1)}

\* The slots handed out of the head as the counter advances.
LEMMA FirstSlotsGrow ==
  ASSUME NEW len \in Nat, NEW n \in Nat
  PROVE  /\ n < len => FirstSlots(len, n + 1) = FirstSlots(len, n) \cup {slot_address(len, n)}
         /\ ~(n < len) => FirstSlots(len, n + 1) = FirstSlots(len, n)
<1>1. CASE n < len
  <2>1. Lesser(n, len) = n /\ Lesser(n + 1, len) = n + 1
    BY <1>1 DEF Lesser
  <2>2. 0 .. (n + 1 - 1) = (0 .. (n - 1)) \cup {n}
    OBVIOUS
  <2> QED BY <1>1, <2>1, <2>2 DEF FirstSlots
<1>2. CASE ~(n < len)
  <2>1. Lesser(n, len) = len /\ Lesser(n + 1, len) = len
    BY <1>2 DEF Lesser
  <2> QED BY <1>2, <2>1 DEF FirstSlots
<1> QED BY <1>1, <1>2

\* Once the counter has passed the end, every slot of the block was handed out:
\* scramble_slot is onto.
LEMMA FirstSlotsFull ==
  ASSUME NEW len, len = 0 \/ len \in Lengths, NEW n \in Nat, ~(n < len)
  PROVE  FirstSlots(len, n) = SlotsOf(len)
<1>1. len \in Nat
  BY LengthsInHalf
<1>2. Lesser(n, len) = len
  BY <1>1 DEF Lesser
<1>3. CASE len = 0
  BY <1>2, <1>3 DEF FirstSlots, SlotsOf
<1>4. CASE len \in Lengths
  <2>1. {scramble_slot(len, s) : s \in 0 .. (len - 1)} = 0 .. (len - 1)
    BY <1>4, ScrambleOnto
  <2>2. FirstSlots(len, n) = {<<len, scramble_slot(len, s)>> : s \in 0 .. (len - 1)}
    BY <1>2 DEF FirstSlots, slot_address
  <2> QED BY <2>1, <2>2, Zenon DEF SlotsOf
<1> QED BY <1>3, <1>4

\* The slots of a list with a block put in front.
LEMMA SlotsPrepended ==
  ASSUME NEW S, NEW list \in Seq(S), NEW x \in S
  PROVE  /\ SlotsFrom(<<x>> \o list, 2) = SlotsFrom(list, 1)
         /\ SlotsFrom(<<x>> \o list, 1) = SlotsOf(x) \cup SlotsFrom(list, 1)
<1> DEFINE new == <<x>> \o list
<1>1. /\ Len(list) \in Nat /\ Len(new) = Len(list) + 1 /\ new[1] = x
      /\ \A i \in 1 .. Len(list) : new[i + 1] = list[i]
      /\ \A i \in 2 .. Len(list) + 1 : new[i] = list[i - 1]
  BY Prepended
<1> HIDE DEF new
<1>2. SlotsFrom(list, 1) \subseteq SlotsFrom(new, 2)
  <2>1. \A i \in 1 .. Len(list) : i + 1 \in 2 .. Len(new)
    BY <1>1
  <2> QED BY <1>1, <2>1 DEF SlotsFrom
<1>3. SlotsFrom(new, 2) \subseteq SlotsFrom(list, 1)
  <2>1. \A i \in 2 .. Len(new) : i - 1 \in 1 .. Len(list)
    BY <1>1
  <2> QED BY <1>1, <2>1 DEF SlotsFrom
<1>4. 1 .. Len(new) = {1} \cup 2 .. Len(new)
  BY <1>1
<1>5. SlotsFrom(new, 1) = SlotsOf(x) \cup SlotsFrom(new, 2)
  BY <1>1, <1>4 DEF SlotsFrom
<1> QED BY <1>2, <1>3, <1>5 DEF new

\* What was handed out stays exactly the older blocks and the counted part of the
\* head.
LEMMA HandedStep ==
  ASSUME Inv, [Next]_vars
  PROVE  HandedExactly'
<1>0. /\ TypeOK /\ ListInv /\ head_len(blocks) \in Nat /\ next_unused_slot \in Nat
      /\ handed = SlotsFrom(blocks, 2) \cup FirstSlots(head_len(blocks), next_unused_slot)
  <2>1. handed = SlotsFrom(blocks, 2) \cup FirstSlots(head_len(blocks), next_unused_slot)
    BY Zenon DEF Inv, HandedExactly, SlotsFrom, FirstSlots
  <2> QED BY <2>1, HeadFacts DEF Inv
<1>1. CASE UNCHANGED listVars
  BY <1>1 DEF Inv, HandedExactly, listVars
<1>2. ASSUME NEW t \in Threads, Fast(t) \/ Recheck(t)
      PROVE  HandedExactly'
  <2>1. /\ blocks' = blocks
        /\ \/ /\ next_unused_slot < head_len(blocks)
              /\ next_unused_slot' = next_unused_slot + 1
              /\ handed' = handed \cup {slot_address(head_len(blocks), next_unused_slot)}
           \/ /\ ~(next_unused_slot < head_len(blocks))
              /\ next_unused_slot' \in {next_unused_slot, next_unused_slot + 1}
              /\ handed' = handed
    BY <1>2, FastCases
  <2>2. handed' = SlotsFrom(blocks, 2) \cup FirstSlots(head_len(blocks), next_unused_slot')
    BY <1>0, <2>1, FirstSlotsGrow
  <2>3. handed' = SlotsFrom(blocks', 2) \cup FirstSlots(head_len(blocks'), next_unused_slot')
    BY <2>1, <2>2
  <2> QED BY <2>3, Zenon DEF HandedExactly, SlotsFrom, FirstSlots
<1>3. ASSUME NEW t \in Threads, expand(t)
      PROVE  HandedExactly'
  <2> DEFINE x == block_size(blocks)
  <2>1. /\ blocks' = <<x>> \o blocks /\ head_len(blocks') = x /\ x \in Nat /\ x \in Words
        /\ pc[t] = "expand" /\ next_unused_slot' = 1
        /\ handed' = IF 0 < x THEN handed \cup {slot_address(x, 0)} ELSE handed
    BY <1>3, ExpandCases
  <2> HIDE DEF x
  <2>2. next_unused_slot >= head_len(blocks)
    BY <2>1 DEF Inv, CounterInv, At, Those, ExpandPCs
  <2>3. handed = SlotsFrom(blocks, 1)
    <3>1. CASE blocks = <<>>
      <4>1. head_len(blocks) = 0 /\ Len(blocks) = 0
        BY <3>1, <1>0, HeadFacts
      <4>2. FirstSlots(head_len(blocks), next_unused_slot) = {}
        BY <1>0, <4>1 DEF FirstSlots, Lesser
      <4>3. SlotsFrom(blocks, 1) = {} /\ SlotsFrom(blocks, 2) = {}
        BY <4>1 DEF SlotsFrom
      <4> QED BY <1>0, <4>2, <4>3
    <3>2. CASE blocks # <<>>
      <4>1. /\ head_len(blocks) = blocks[1] /\ Len(blocks) \in Nat \ {0}
            /\ blocks[1] = 0 \/ blocks[1] \in Lengths
        BY <3>2, <1>0, HeadFacts DEF ListInv
      <4>2. FirstSlots(head_len(blocks), next_unused_slot) = SlotsOf(blocks[1])
        BY <1>0, <2>2, <4>1, FirstSlotsFull
      <4>3. 1 .. Len(blocks) = {1} \cup 2 .. Len(blocks)
        BY <4>1
      <4>4. SlotsFrom(blocks, 1) = SlotsOf(blocks[1]) \cup SlotsFrom(blocks, 2)
        BY <4>3 DEF SlotsFrom
      <4> QED BY <1>0, <4>2, <4>4
    <3> QED BY <3>1, <3>2
  <2>4. SlotsFrom(blocks', 2) = handed
    BY <1>0, <2>1, <2>3, SlotsPrepended DEF TypeOK
  <2>5. FirstSlots(x, 0 + 1) = IF 0 < x THEN {slot_address(x, 0)} ELSE {}
    <3>1. FirstSlots(x, 0) = {}
      BY <2>1 DEF FirstSlots, Lesser
    <3> QED BY <2>1, <3>1, FirstSlotsGrow
  <2>6. handed' = SlotsFrom(blocks', 2) \cup FirstSlots(head_len(blocks'), next_unused_slot')
    BY <2>1, <2>4, <2>5
  <2> QED BY <2>6, Zenon DEF HandedExactly, SlotsFrom, FirstSlots
<1> QED BY <1>1, <1>2, <1>3, Moves DEF Quiet, vars, listVars, next_insert_location

-----------------------------------------------------------------------------
\* A block of length len has len slots.
LEMMA SlotsOfCount ==
  ASSUME NEW len \in Nat
  PROVE  IsFiniteSet(SlotsOf(len)) /\ Cardinality(SlotsOf(len)) = len
<1> DEFINE I == 0 .. (len - 1)
           f == [p \in I |-> <<len, p>>]
<1>1. f \in Bijection(I, SlotsOf(len))
  BY DEF SlotsOf, Bijection, Injection, Surjection, IsInjective
<1>2. IsFiniteSet(I) /\ Cardinality(I) = len
  <2>1. 0 \in Int /\ len - 1 \in Int
    OBVIOUS
  <2> QED BY <2>1, FS_Interval
<1> QED BY <1>1, <1>2, FS_Bijection DEF ExistsBijection

\* The slots that exist stay what head_size_to_total_size says of the head.
LEMMA CountStep ==
  ASSUME Inv, [Next]_vars
  PROVE  CountInv'
<1> DEFINE A == SlotsFrom(blocks, 1)
<1>0. /\ TypeOK /\ TypeOK' /\ ListInv /\ ListInv' /\ CountInv /\ DOMAIN seen = Threads
      /\ blocks \in Seq(Words) /\ Len(blocks) \in Nat
      /\ \A i \in 1 .. Len(blocks) : blocks[i] \in Nat
      /\ Allocated = Cardinality(A) /\ Allocated' = Cardinality(SlotsFrom(blocks', 1))
  BY TypeStep, ListStep, HeadFacts DEF Inv, TypeOK, Allocated, SlotsFrom
<1>1. CASE blocks' = blocks /\ seen' = seen
  BY <1>0, <1>1 DEF CountInv
<1>2. ASSUME NEW t \in Threads, CapLoad(t) \/ CapRelease(t)
      PROVE  CountInv'
  <2>1. /\ blocks' = blocks
        /\ \A u \in Threads \ {t} : seen'[u] = seen[u]
        /\ seen'[t].head_size = 0 \/ seen'[t].head_size = head_len(blocks)
    <3>1. CASE CapLoad(t)
      BY <1>0, <3>1 DEF CapLoad, listVars
    <3>2. CASE CapRelease(t)
      BY <1>0, <3>2 DEF CapRelease, ReadUnlock, NoSeen, listVars
    <3> QED BY <1>2, <3>1, <3>2
  <2>2. \/ head_len(blocks) = 0
        \/ \E i \in 1 .. Len(blocks) : head_len(blocks) = blocks[i]
    <3>1. CASE blocks # <<>>
      BY <3>1, <1>0, HeadFacts
    <3> QED BY <3>1 DEF head_len
  <2>3. \A u \in Threads :
            \/ seen'[u].head_size = 0
            \/ \E i \in 1 .. Len(blocks') : seen'[u].head_size = blocks'[i]
    BY <1>0, <2>1, <2>2 DEF CountInv
  <2> QED BY <1>0, <2>1, <2>3 DEF CountInv
<1>3. ASSUME NEW t \in Threads, expand(t)
      PROVE  CountInv'
  <2> DEFINE x == block_size(blocks)
  <2>1. /\ blocks' = <<x>> \o blocks /\ x \in Nat /\ x \in Words
        /\ seen' = seen /\ ~ExpandOverflows
    BY <1>3, ExpandCases DEF expand
  <2>2. \/ blocks = <<>> /\ x = 1
        \/ blocks # <<>> /\ x = 0
        \/ blocks # <<>> /\ x = 2 * blocks[1] /\ x # 0
    BY <1>0, <2>1, NewBlock, LengthsInHalf
  <2> HIDE DEF x
  <2>3. /\ Len(blocks') = Len(blocks) + 1 /\ blocks' # <<>>
        /\ blocks'[1] = x /\ Head(blocks') = x
        /\ \A i \in 1 .. Len(blocks) : blocks'[i + 1] = blocks[i]
        /\ \A i \in 2 .. Len(blocks) + 1 : blocks'[i] = blocks[i - 1]
    BY <1>0, <2>1, Prepended
  <2>4. SlotsFrom(blocks', 1) = SlotsOf(x) \cup A
    BY <1>0, <2>1, SlotsPrepended
  <2>5. IsFiniteSet(SlotsOf(x)) /\ Cardinality(SlotsOf(x)) = x
    BY <2>1, SlotsOfCount
  <2>6. IsFiniteSet(A) /\ Cardinality(A) \in Nat
    BY <1>0, FS_CardinalityType DEF CountInv
  <2>7. SlotsOf(x) \cap A = {}
    <3>1. CASE x = 0
      BY <3>1 DEF SlotsOf
    <3>2. CASE x # 0
      <4>1. \A i \in 1 .. Len(blocks) : blocks[i] # x
        <5>1. ASSUME NEW i \in 1 .. Len(blocks)
              PROVE  blocks[i] # x
          <6>1. i + 1 \in 1 .. Len(blocks') /\ 1 < i + 1 /\ 1 \in 1 .. Len(blocks')
                /\ blocks[i] \in Nat
            BY <1>0, <2>3
          <6>2. blocks'[i + 1] < blocks'[1]
            BY <1>0, <2>3, <3>2, <6>1 DEF ListInv
          <6> QED BY <2>1, <2>3, <6>1, <6>2
        <5> QED BY <5>1
      <4> QED BY <4>1 DEF SlotsOf, SlotsFrom
    <3> QED BY <3>1, <3>2
  <2> HIDE DEF A
  <2>8. /\ IsFiniteSet(SlotsOf(x) \cup A)
        /\ Cardinality(SlotsOf(x) \cup A) = x + Cardinality(A)
    <3>1. Cardinality(SlotsOf(x) \cup A)
             = Cardinality(SlotsOf(x)) + Cardinality(A) - Cardinality(SlotsOf(x) \cap A)
      BY <2>5, <2>6, FS_Union
    <3>2. Cardinality(SlotsOf(x) \cap A) = 0
      BY <2>7, FS_EmptySet
    <3>3. IsFiniteSet(SlotsOf(x) \cup A)
      BY <2>5, <2>6, FS_Union
    <3> QED BY <2>1, <2>5, <2>6, <3>1, <3>2, <3>3
  <2>9. Allocated' = x + Allocated /\ Allocated \in Nat
    BY <1>0, <2>4, <2>6, <2>8
  <2>10. ASSUME x # 0
         PROVE  /\ head_size_to_total_size(x) = 2 * x - 1
                /\ Allocated' = 2 * x - 1
    <3>1. blocks' \in Seq(Nat \ {0})
      <4>1. \A i \in 1 .. Len(blocks') : blocks'[i] \in Nat \ {0}
        <5>1. ASSUME NEW i \in 1 .. Len(blocks'), i # 1
              PROVE  blocks'[i] \in Nat \ {0}
          <6>1. 1 \in 1 .. Len(blocks') /\ 1 < i /\ i \in 2 .. Len(blocks) + 1
                /\ i - 1 \in 1 .. Len(blocks)
            BY <1>0, <2>3, <5>1
          <6> QED BY <1>0, <2>3, <2>10, <6>1 DEF ListInv
        <5> QED BY <2>1, <2>3, <2>10, <5>1
      <4>2. blocks' \in Seq(Words)
        BY <1>0 DEF TypeOK
      <4> QED BY <4>1, <4>2
    <3>2. \A i \in 1 .. (Len(blocks') - 1) : blocks'[i] = 2 * blocks'[i + 1]
      <4>1. \A i \in 1 .. Len(blocks') : blocks'[i] # 0
        BY <3>1
      <4>2. \A i \in 1 .. (Len(blocks') - 1) : i \in 1 .. Len(blocks')
        BY <1>0, <2>3
      <4> QED BY <1>0, <4>1, <4>2 DEF ListInv
    <3>3. blocks'[Len(blocks')] = INITIAL_BLOCK_SIZE
      BY <1>0, <2>3 DEF ListInv
    <3>4. head_size_to_total_size(x) = 2 * x - 1
      <4> DEFINE list == blocks'
      <4>1. /\ list \in Seq(Nat \ {0}) /\ list # <<>> /\ Head(list) = x
            /\ list[Len(list)] = INITIAL_BLOCK_SIZE
            /\ \A i \in 1 .. (Len(list) - 1) : list[i] = 2 * list[i + 1]
        BY <2>3, <3>1, <3>2, <3>3
      <4> HIDE DEF list
      <4> QED BY <4>1, TotalOfList
    <3>5. CASE blocks = <<>>
      BY <1>0, <2>2, <2>9, <2>10, <3>4, <3>5 DEF CountInv
    <3>6. CASE blocks # <<>>
      <4>1. x = 2 * blocks[1] /\ 1 \in 1 .. Len(blocks) /\ blocks[1] \in Nat
        BY <1>0, <2>2, <2>10, <3>6, HeadFacts
      <4>2. 2 * blocks[1] - 1 = Allocated
        BY <1>0, <2>10, <4>1 DEF CountInv
      <4> QED BY <2>9, <3>4, <4>1, <4>2
    <3> QED BY <3>5, <3>6
  <2>11. ASSUME NEW i \in 1 .. Len(blocks'), blocks'[i] # 0
         PROVE  /\ head_size_to_total_size(blocks'[i]) = 2 * blocks'[i] - 1
                /\ 2 * blocks'[i] - 1 <= Allocated'
                /\ i = 1 => 2 * blocks'[i] - 1 = Allocated'
    <3>1. CASE i = 1
      BY <2>1, <2>3, <2>10, <2>11, <3>1
    <3>2. CASE i # 1
      <4>1. i - 1 \in 1 .. Len(blocks) /\ blocks'[i] = blocks[i - 1] /\ blocks[i - 1] \in Nat
        BY <1>0, <2>3, <3>2
      <4>2. /\ head_size_to_total_size(blocks'[i]) = 2 * blocks'[i] - 1
            /\ 2 * blocks'[i] - 1 <= Allocated
        BY <1>0, <2>11, <4>1 DEF CountInv
      <4> QED BY <2>1, <2>9, <3>2, <4>1, <4>2
    <3> QED BY <3>1, <3>2
  <2>12. ASSUME NEW u \in Threads
         PROVE  \/ seen'[u].head_size = 0
                \/ \E i \in 1 .. Len(blocks') : seen'[u].head_size = blocks'[i]
    <3>1. CASE \E i \in 1 .. Len(blocks) : seen[u].head_size = blocks[i]
      <4>1. PICK i \in 1 .. Len(blocks) : seen[u].head_size = blocks[i]
        BY <3>1
      <4>2. i + 1 \in 1 .. Len(blocks')
        BY <1>0, <2>3
      <4> QED BY <2>1, <2>3, <4>1, <4>2
    <3> QED BY <1>0, <2>1, <3>1 DEF CountInv
  <2>13. IsFiniteSet(SlotsFrom(blocks', 1))
    BY <2>4, <2>8
  <2> QED BY <2>3, <2>11, <2>12, <2>13 DEF CountInv
<1> QED BY <1>1, <1>2, <1>3, Cases DEF vars, listVars, ReadLock, WriteClaim, WriteLock,
      WriteRelease, Fast, Recheck, ExpandPanics, ReadUnlock, Miss,
      next_insert_location, capacity

-----------------------------------------------------------------------------
\* A new bucket satisfies the invariant.
LEMMA InvInit ==
  ASSUME Init
  PROVE  Inv
<1>1. TypeOK
  <2>1. NoSeen \in [head_size : Words, used : Words]
    BY WordRange DEF NoSeen
  <2>2. seen \in [Threads -> [head_size : Words, used : Words]]
    BY <2>1 DEF Init
  <2>3. location \in [Threads -> Seq(handed)] /\ \A t \in Threads : Len(location[t]) <= 1
    BY EmptyIsShort DEF Init
  <2>4. blocks \in Seq(Words) /\ next_unused_slot \in Words /\ handed \subseteq Words \X Words
    BY WordRange DEF Init
  <2>5. pc \in [Threads -> PCs]
    BY DEF Init, PCs
  <2> QED BY <2>2, <2>3, <2>4, <2>5 DEF Init, TypeOK
<1>2. \A P : "idle" \notin P => At(P) = {}
  BY DEF Init, At, Those
<1>3. /\ At(ReadPCs) = {} /\ At(InsidePCs) = {} /\ At(RoomPCs) = {}
      /\ At(MissPCs) = {} /\ At(ExpandPCs) = {}
  BY <1>2 DEF ReadPCs, InsidePCs, RoomPCs, MissPCs, ExpandPCs
<1>4. LockInv
  BY <1>3, NoThreadAssumption DEF Init, LockInv, WritePCs
<1>5. Len(blocks) = 0 /\ blocks = <<>>
  BY DEF Init
<1>6. ListInv
  BY <1>5 DEF ListInv
<1>7. CounterInv
  <2>1. Threads # {} => Cardinality(Threads) # 0
    BY FS_EmptySet, ThreadsAssumption
  <2>2. Cardinality(Threads) \in Nat
    BY FS_CardinalityType, ThreadsAssumption
  <2>3. Cardinality({}) = 0
    BY FS_EmptySet
  <2> QED BY <1>3, <1>5, <2>1, <2>2, <2>3, MaxCounterAssumption DEF CounterInv, Init, head_len
<1>8. LocationInv
  BY DEF LocationInv, Init
<1>9. SlotsFrom(blocks, 1) = {} /\ SlotsFrom(blocks, 2) = {}
  BY <1>5 DEF SlotsFrom
<1>10. HandedExactly
  <2>1. FirstSlots(head_len(blocks), next_unused_slot) = {}
    BY <1>5 DEF Init, FirstSlots, Lesser, head_len
  <2>2. handed = SlotsFrom(blocks, 2) \cup FirstSlots(head_len(blocks), next_unused_slot)
    BY <1>9, <2>1 DEF Init
  <2> QED BY <2>2, Zenon DEF HandedExactly, SlotsFrom, FirstSlots
<1>11. CountInv
  <2>1. IsFiniteSet({}) /\ Cardinality({}) = 0
    BY FS_EmptySet
  <2>2. Allocated = Cardinality(SlotsFrom(blocks, 1))
    BY DEF Allocated, SlotsFrom
  <2>3. \A t \in Threads : seen[t].head_size = 0
    BY DEF Init, NoSeen
  <2>4. IsFiniteSet(SlotsFrom(blocks, 1)) /\ Allocated = 0
    BY <1>9, <2>1, <2>2
  <2>5. 1 .. Len(blocks) = {}
    BY <1>5
  <2> QED BY <1>5, <2>3, <2>4, <2>5 DEF CountInv
<1> QED BY <1>1, <1>4, <1>6, <1>7, <1>8, <1>10, <1>11 DEF Inv

\* The inductive invariant holds throughout.
THEOREM Invariance == Spec => []Inv
<1>1. Inv /\ [Next]_vars => Inv'
  <2> SUFFICES ASSUME Inv, [Next]_vars PROVE Inv'
    OBVIOUS
  <2>1. TypeOK'
    BY TypeStep DEF Inv
  <2> QED BY <2>1, LockStep, ListStep, CounterStep, LocationStep, HandedStep, CountStep
          DEF Inv
<1> QED BY <1>1, InvInit, PTL DEF Spec

\* No race between the fast path, the second look and expand leaks a slot: the
\* older blocks are handed out to the last slot.
THEOREM NoSlotLeaked == Spec => []HandedExactly
<1>1. Inv => HandedExactly
  BY DEF Inv
<1> QED BY <1>1, Invariance, PTL

\* The counter, which missing calls advance past the end of the head, does not run
\* away: it stays within two of the number of calls inside.
THEOREM CounterStaysClose == Spec => []OvershootBounded
<1>1. Inv => OvershootBounded
  <2> SUFFICES ASSUME Inv, CanGrow PROVE OvershootBounded
    BY DEF OvershootBounded
  <2> DEFINE W == {"miss", "write", "drain"}
             A == {"recheck"}
             n(P) == Cardinality(Those(pc, P))
  <2>1. /\ W \cap A = {} /\ W \cup A = MissPCs
        /\ A \cap ExpandPCs = {} /\ A \cup ExpandPCs = {"recheck", "expand"}
    BY DEF MissPCs, ExpandPCs
  <2>2. /\ n(MissPCs) = n(W) + n(A)
        /\ n({"recheck", "expand"}) = n(A) + n(ExpandPCs)
    BY <2>1, CountsDisjoint
  <2>3. /\ n(W) \in Nat /\ n(A) \in Nat /\ n(ExpandPCs) \in Nat
        /\ next_unused_slot \in Nat /\ head_len(blocks) \in Nat
    BY CountsType, HeadFacts DEF Inv
  <2>4. next_unused_slot <= head_len(blocks) + n(MissPCs) + 2 * n(ExpandPCs)
    BY DEF Inv, CounterInv, At
  <2>5. next_unused_slot <= head_len(blocks) + n(W) + 2 * n({"recheck", "expand"})
    BY <2>2, <2>3, <2>4
  <2> QED BY <2>5 DEF OvershootBounded, Those
<1> QED BY <1>1, Invariance, PTL

\* The value next_insert_location_slow unwraps is there, as long as blocks double.
THEOREM SlowPathSucceeds == Spec => []SlowPathFinds
<1>1. Inv => SlowPathFinds
  BY DEF Inv, LocationInv, SlowPathFinds
<1> QED BY <1>1, Invariance, PTL

\* The capacity computed from the head alone is the number of slots that exist,
\* and never more than that when it is returned.
THEOREM AllocatedExact == Spec => []AllocatedIsLowerBound
<1>1. Inv => AllocatedIsLowerBound
  <2> SUFFICES ASSUME Inv PROVE AllocatedIsLowerBound
    OBVIOUS
  <2>0. TypeOK /\ CountInv
    BY DEF Inv
  <2>1. ~HeadIsEmpty => head_size_to_total_size(head_len(blocks)) = Allocated
    <3>1. CASE blocks = <<>>
      BY <2>0, <3>1, TotalOfNothing DEF CountInv, head_len
    <3>2. CASE blocks # <<>>
      <4>1. head_len(blocks) = blocks[1] /\ Head(blocks) = blocks[1] /\ 1 \in 1 .. Len(blocks)
        BY <2>0, <3>2, HeadFacts
      <4> QED BY <2>0, <3>2, <4>1 DEF CountInv, HeadIsEmpty
    <3> QED BY <3>1, <3>2
  <2>2. ASSUME NEW t \in Threads
        PROVE  allocated_capacity(seen[t]) <= Allocated
    <3>1. Allocated \in Nat
      BY <2>0, FS_CardinalityType, Zenon DEF CountInv, Allocated, SlotsFrom
    <3>2. CASE seen[t].head_size = 0
      BY <3>1, <3>2, TotalOfNothing DEF allocated_capacity
    <3>3. CASE seen[t].head_size # 0
      <4>1. PICK i \in 1 .. Len(blocks) : seen[t].head_size = blocks[i]
        BY <2>0, <3>3 DEF CountInv
      <4> QED BY <2>0, <3>3, <4>1 DEF CountInv, allocated_capacity
    <3> QED BY <3>2, <3>3
  <2> QED BY <2>1, <2>2 DEF AllocatedIsLowerBound
<1> QED BY <1>1, Invariance, PTL

\* A slot that was handed out is in one of the blocks.
LEMMA HandedInBlocks ==
  ASSUME Inv, NEW l \in handed
  PROVE  \E i \in 1 .. Len(blocks) : l[1] = blocks[i]
<1>0. TypeOK /\ handed = SlotsFrom(blocks, 2) \cup FirstSlots(head_len(blocks), next_unused_slot)
  <2>1. handed = SlotsFrom(blocks, 2) \cup FirstSlots(head_len(blocks), next_unused_slot)
    BY Zenon DEF Inv, HandedExactly, SlotsFrom, FirstSlots
  <2> QED BY <2>1 DEF Inv
<1>1. CASE l \in SlotsFrom(blocks, 2)
  <2>1. PICK i \in 2 .. Len(blocks) : l \in SlotsOf(blocks[i])
    BY <1>1 DEF SlotsFrom
  <2>2. l[1] = blocks[i]
    BY <2>1 DEF SlotsOf
  <2>3. i \in 1 .. Len(blocks)
    BY <1>0, HeadFacts
  <2> QED BY <2>2, <2>3
<1>2. CASE l \in FirstSlots(head_len(blocks), next_unused_slot)
  <2>1. l[1] = head_len(blocks)
    BY <1>2 DEF FirstSlots, slot_address
  <2>2. blocks # <<>>
    BY <1>0, <1>2, HeadFacts DEF FirstSlots, Lesser
  <2> QED BY <1>0, <2>1, <2>2, HeadFacts
<1> QED BY <1>0, <1>1, <1>2

\* The slot the counter points to was not handed out.
LEMMA NextIsFresh ==
  ASSUME Inv, next_unused_slot < head_len(blocks)
  PROVE  /\ slot_address(head_len(blocks), next_unused_slot) \notin handed
         /\ scramble_slot(head_len(blocks), next_unused_slot) < head_len(blocks)
<1> DEFINE h == head_len(blocks)
           n == next_unused_slot
<1>0. /\ TypeOK /\ ListInv /\ h \in Nat /\ n \in Nat /\ Len(blocks) \in Nat
      /\ \A i \in 1 .. Len(blocks) : blocks[i] \in Nat
  BY HeadFacts DEF Inv
<1>1. handed = SlotsFrom(blocks, 2) \cup FirstSlots(h, n)
  BY Zenon DEF Inv, HandedExactly, SlotsFrom, FirstSlots
<1>2. h = blocks[1] /\ 1 \in 1 .. Len(blocks) /\ h # 0
  BY <1>0, HeadFacts
<1>3. h \in Lengths
  BY <1>0, <1>2 DEF ListInv
<1>4. n \in 0 .. (h - 1)
  BY <1>0
<1>5. slot_address(h, n) \notin SlotsFrom(blocks, 2)
  <2>1. ASSUME NEW i \in 2 .. Len(blocks), slot_address(h, n) \in SlotsOf(blocks[i])
        PROVE  FALSE
    <3>1. h = blocks[i]
      BY <2>1 DEF slot_address, SlotsOf
    <3>2. i \in 1 .. Len(blocks) /\ 1 < i
      BY <1>0
    <3>3. blocks[i] < blocks[1]
      BY <1>0, <1>2, <3>2 DEF ListInv
    <3> QED BY <1>0, <1>2, <3>1, <3>3
  <2> QED BY <2>1 DEF SlotsFrom
<1>6. slot_address(h, n) \notin FirstSlots(h, n)
  <2>1. ASSUME NEW s \in 0 .. (Lesser(n, h) - 1), slot_address(h, n) = slot_address(h, s)
        PROVE  FALSE
    <3>1. s \in 0 .. (h - 1) /\ s < n
      BY <1>0 DEF Lesser
    <3>2. scramble_slot(h, n) = scramble_slot(h, s)
      BY <2>1 DEF slot_address
    <3>3. n = s
      BY <1>3, <1>4, <3>1, <3>2, ScrambleInjective
    <3> QED BY <1>0, <3>1, <3>3
  <2> QED BY <2>1 DEF FirstSlots
<1>7. scramble_slot(h, n) \in 0 .. (h - 1)
  BY <1>3, <1>4, ScrambleRange
<1>8. scramble_slot(h, n) < h
  BY <1>0, <1>7
<1> QED BY <1>1, <1>5, <1>6, <1>8

\* Bucket::next_insert_location gives every slot out once, and inside its block:
\* the exclusivity that the unchecked write in Block::insert needs.
THEOREM SlotsHandedOnce == Spec => NeverHandedTwice
<1>1. ASSUME Inv, [Next]_vars
      PROVE  \/ \A t \in Threads : location'[t] # location[t] /\ location'[t] # <<>> =>
                   /\ location'[t][1] \notin handed
                   /\ location'[t][1][1] = head_len(blocks')
                   /\ location'[t][1][2] < head_len(blocks')
             \/ UNCHANGED vars
  <2> USE <1>1
  <2>0. TypeOK /\ DOMAIN location = Threads
    BY DEF Inv, TypeOK
  <2> DEFINE Fresh(u) == location'[u] # location[u] /\ location'[u] # <<>> =>
                   /\ location'[u][1] \notin handed
                   /\ location'[u][1][1] = head_len(blocks')
                   /\ location'[u][1][2] < head_len(blocks')
  <2>1. ASSUME NEW t \in Threads, Quiet(t) \/ next_insert_location(t), NEW u \in Threads
        PROVE  Fresh(u)
    <3>1. location'[u] = location[u] \/ location'[u] = <<>>
      BY <2>0, <2>1 DEF Quiet, next_insert_location
    <3> QED BY <3>1
  <2>2. ASSUME NEW t \in Threads, Fast(t) \/ Recheck(t), NEW u \in Threads
        PROVE  Fresh(u)
    <3> DEFINE l == slot_address(head_len(blocks), next_unused_slot)
    <3>1. /\ blocks' = blocks
          /\ \/ location' = location
             \/ /\ next_unused_slot < head_len(blocks)
                /\ location' = [location EXCEPT ![t] = <<l>>]
      BY <2>2, FastCases
    <3>2. next_unused_slot < head_len(blocks) =>
              l \notin handed /\ l[1] = head_len(blocks) /\ l[2] < head_len(blocks)
      BY NextIsFresh DEF slot_address
    <3> HIDE DEF l
    <3>3. \/ location'[u] = location[u]
          \/ next_unused_slot < head_len(blocks) /\ location'[u] = <<l>>
      BY <2>0, <3>1
    <3> QED BY <3>1, <3>2, <3>3
  <2>3. ASSUME NEW t \in Threads, expand(t), NEW u \in Threads
        PROVE  Fresh(u)
    <3> DEFINE x == block_size(blocks)
               l == slot_address(x, 0)
    <3>1. /\ x \in Words /\ x \in Nat /\ blocks' = <<x>> \o blocks /\ head_len(blocks') = x
          /\ \/ location' = location
             \/ 0 < x /\ location' = [location EXCEPT ![t] = <<l>>]
      BY <2>3, ExpandCases
    <3>2. l[1] = x
      BY DEF slot_address
    <3>3. 0 < x => l[2] < x
      <4>1. scramble_slot(x, 0) = (0 % U32) % x
        BY DEF scramble_slot
      <4>2. 0 < x => scramble_slot(x, 0) = 0
        BY <3>1, <4>1, U32Assumption
      <4> QED BY <3>1, <4>2 DEF slot_address
    <3>4. ASSUME 0 < x, l \in handed
          PROVE  FALSE
      <4>1. PICK i \in 1 .. Len(blocks) : l[1] = blocks[i]
        BY <3>4, HandedInBlocks
      <4>2. Len(blocks') = Len(blocks) + 1 /\ Len(blocks) \in Nat
            /\ blocks'[1] = x /\ blocks'[i + 1] = blocks[i]
        BY <2>0, <3>1, Prepended DEF TypeOK
      <4>3. i + 1 \in 1 .. Len(blocks') /\ 1 \in 1 .. Len(blocks') /\ 1 < i + 1
        BY <4>2
      <4>4. blocks'[i + 1] < blocks'[1]
        BY <3>1, <3>4, <4>2, <4>3, ListStep DEF ListInv
      <4> QED BY <3>1, <3>2, <4>1, <4>2, <4>4
    <3> HIDE DEF x, l
    <3>5. location'[u] = location[u] \/ (0 < x /\ location'[u] = <<l>>)
      <4>1. \/ location' = location
            \/ 0 < x /\ location' = [location EXCEPT ![t] = <<l>>]
        BY <3>1
      <4> QED BY <2>0, <4>1
    <3> QED BY <3>1, <3>2, <3>3, <3>4, <3>5
  <2> QED BY <2>1, <2>2, <2>3, Moves
<1> QED BY <1>1, Invariance, PTL DEF Spec, NeverHandedTwice
=============================================================================
