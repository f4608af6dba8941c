--------------------------- MODULE StoreIterProofs ----------------------------
(***************************************************************************)
(* Iteration and drop proved correct for any number of buckets, blocks and *)
(* elements: an iterator meets every element once, its size hint is an     *)
(* upper bound, every element leaves the store once, and the store with    *)
(* its iterators still implements the map of StoreMap.  IterInv is the     *)
(* inductive invariant.  Of the invariants of StoreProofs it keeps what    *)
(* outlives a store that is consumed (ListInv with it), and the rest while *)
(* the store is shared or only borrowed; it adds that every occupied slot  *)
(* has its Id (NamedInv), how iterators stand (ItersInv), and where the    *)
(* elements are (ExactInv).                                                *)
(***************************************************************************)
EXTENDS StoreIter, StoreProofs

\* An occupied slot is named by an Id that was given out.
NamedInv ==
    \A s \in DOMAIN slots :
        slots[s].element # NoElement => [slot |-> s, ordinal |-> slots[s].id] \in Ids

\* The iterator of a bucket has still to visit the slot named s.
ToVisit(it, s) ==
    /\ s[1] = it.bucket
    /\ \E i \in 1 .. Len(it.list) : s[2] = it.list[i]
    /\ s[2] = head_len(it.list) =>
           \E n \in 0 .. (it.last_slot - 1) : s[3] = scramble_slot(s[2], n)

\* One of the iterators has.
Reached(its, s) == \E i \in 1 .. Len(its) : ToVisit(its[i], s)

Iterating == owner \in {"iter_mut", "into_iter"}

\* What an iterator of a bucket is.
BucketIters == [bucket : Nat, list : Seq(Lengths), last_slot : Nat]

\* Iterators stand for the first buckets, each inside a block of a list that
\* halves.
Standing(its) ==
    /\ its \in Seq(BucketIters)
    /\ \A i \in 1 .. Len(its) :
           /\ its[i].bucket = i - 1
           /\ Halving(its[i].list)
           /\ its[i].last_slot <= head_len(its[i].list)

\* There are iterators, and a call of next, only while someone iterates.
ItersInv ==
    /\ owner \in {"shared", "iter_mut", "into_iter", "gone"}
    /\ running \in BOOLEAN /\ (running => Iterating)
    /\ Standing(iters) /\ (~Iterating => iters = <<>>)

\* Where the elements are: yielded and left in place, to be visited, or gone.
ExactInv ==
    /\ yielded \in Seq(Ids)
    /\ Iterating => \A i, j \in 1 .. Len(yielded) : yielded[i] = yielded[j] => i = j
    /\ owner = "iter_mut" =>
           /\ \A i \in 1 .. Len(yielded) :
                  yielded[i] \in Live /\ ~Reached(iters, yielded[i].slot)
           /\ \A id \in Live :
                  Reached(iters, id.slot) \/ \E i \in 1 .. Len(yielded) : yielded[i] = id
    /\ owner = "into_iter" =>
           /\ \A i \in 1 .. Len(yielded) : yielded[i] \notin Live
           /\ \A id \in Live : Reached(iters, id.slot)
    /\ owner = "gone" => Live = {}

\* What of the store's invariant outlives the elements.
RemainsInv == TypeOK /\ ShapeInv /\ MovedOnce /\ ListInv /\ NamedInv

\* The inductive invariant.
IterInv ==
    /\ RemainsInv
    /\ owner \in {"shared", "iter_mut"} => OwnerInv /\ IdInv
    /\ ItersInv
    /\ ExactInv
-----------------------------------------------------------------------------
\* The choice and the equation behind the sum over a function.
Chosen(s) == CHOOSE x \in s : TRUE

Adds(g, f) ==
    g = [s \in SUBSET DOMAIN f |->
            IF s = {} THEN 0 ELSE f[Chosen(s)] + g[s \ {Chosen(s)}]]

\* A finite set without the chosen element is a smaller one.
LEMMA WithoutChosen ==
  ASSUME NEW S, IsFiniteSet(S), NEW s \in SUBSET S, s # {}
  PROVE  /\ Chosen(s) \in s /\ s \ {Chosen(s)} \in SUBSET S
         /\ IsFiniteSet(s) /\ Cardinality(s) \in Nat \ {0}
         /\ Cardinality(s \ {Chosen(s)}) = Cardinality(s) - 1
<1>1. Chosen(s) \in s
  BY DEF Chosen
<1>2. IsFiniteSet(s)
  BY FS_Subset
<1>3. Cardinality(s) \in Nat /\ Cardinality(s \ {Chosen(s)}) = Cardinality(s) - 1
  BY <1>1, <1>2, FS_CardinalityType, FS_RemoveElement
<1>4. Cardinality(s) # 0
  BY <1>2, FS_EmptySet
<1> QED BY <1>1, <1>2, <1>3, <1>4

\* There is a function that satisfies the equation, found for ever larger sets.
LEMMA SumsExist ==
  ASSUME NEW f, f \in [DOMAIN f -> Nat], IsFiniteSet(DOMAIN f)
  PROVE  \E g : Adds(g, f) /\ g \in [SUBSET DOMAIN f -> Nat]
<1> DEFINE S == DOMAIN f
           Value(g, s) == IF s = {} THEN 0 ELSE f[Chosen(s)] + g[s \ {Chosen(s)}]
           Upto(g, k) == /\ g \in [SUBSET S -> Nat]
                         /\ \A s \in SUBSET S : Cardinality(s) <= k => g[s] = Value(g, s)
           K == {k \in Nat : \E g : Upto(g, k)}
<1>1. \A g \in [SUBSET S -> Nat] : \A s \in SUBSET S : Value(g, s) \in Nat
  <2> SUFFICES ASSUME NEW g \in [SUBSET S -> Nat], NEW s \in SUBSET S, s # {}
               PROVE  f[Chosen(s)] + g[s \ {Chosen(s)}] \in Nat
    OBVIOUS
  <2>1. Chosen(s) \in S /\ s \ {Chosen(s)} \in SUBSET S
    BY WithoutChosen
  <2> QED BY <2>1
<1>2. 0 \in K
  <2> DEFINE z == [s \in SUBSET S |-> 0]
  <2>1. z \in [SUBSET S -> Nat]
    OBVIOUS
  <2>2. ASSUME NEW s \in SUBSET S, Cardinality(s) <= 0 PROVE z[s] = Value(z, s)
    <3>1. s # {} => Cardinality(s) \in Nat \ {0}
      BY WithoutChosen
    <3>2. s = {}
      BY <2>2, <3>1
    <3> QED BY <3>2
  <2> HIDE DEF z
  <2> QED BY <2>1, <2>2
<1>3. ASSUME NEW k \in K PROVE k + 1 \in K
  <2>1. PICK g : Upto(g, k)
    OBVIOUS
  <2> DEFINE h == [s \in SUBSET S |-> Value(g, s)]
  <2>2. h \in [SUBSET S -> Nat]
    BY <1>1, <2>1
  <2>3. ASSUME NEW s \in SUBSET S, Cardinality(s) <= k + 1
        PROVE  h[s] = Value(h, s)
    <3>1. CASE s = {}
      BY <3>1
    <3>2. CASE s # {}
      <4> DEFINE r == s \ {Chosen(s)}
      <4>1. r \in SUBSET S /\ Cardinality(r) <= k
        BY <2>3, <3>2, WithoutChosen
      <4>2. g[r] = Value(g, r)
        BY <2>1, <4>1
      <4>3. h[r] = g[r]
        BY <4>1, <4>2
      <4> HIDE DEF r
      <4>4. h[s] = f[Chosen(s)] + g[r]
        BY <3>2 DEF r
      <4> HIDE DEF h
      <4> QED BY <3>2, <4>3, <4>4 DEF r
    <3> QED BY <3>1, <3>2
  <2> HIDE DEF h, Value
  <2>4. Upto(h, k + 1)
    BY <2>2, <2>3
  <2> QED BY <2>4
<1>4. K = Nat
  <2> HIDE DEF K
  <2>1. K \in SUBSET Nat
    BY DEF K
  <2> QED BY <1>2, <1>3, <2>1, NatSetInduction
<1>5. Cardinality(S) \in Nat
  BY FS_CardinalityType
<1>6. PICK g : Upto(g, Cardinality(S))
  BY <1>4, <1>5
<1>7. ASSUME NEW s \in SUBSET S PROVE g[s] = Value(g, s)
  <2>1. Cardinality(s) <= Cardinality(S)
    BY FS_Subset
  <2> QED BY <1>6, <2>1
<1>8. g = [s \in SUBSET S |-> Value(g, s)] /\ g \in [SUBSET S -> Nat]
  <2> HIDE DEF Value
  <2> QED BY <1>6, <1>7
<1> QED BY <1>8 DEF Adds

\* The sum over a function is a value of that function.
LEMMA SumSolves ==
  ASSUME NEW f, f \in [DOMAIN f -> Nat], IsFiniteSet(DOMAIN f)
  PROVE  \E g : Adds(g, f) /\ g \in [SUBSET DOMAIN f -> Nat] /\ SumFunction(f) = g[DOMAIN f]
<1> DEFINE G == CHOOSE g : Adds(g, f)
<1>1. SumFunction(f) = G[DOMAIN f]
  BY Zenon DEF SumFunction, SumFunctionOnSet, FoldFunctionOnSet, MapThenFoldSet,
               Adds, Chosen
<1>2. Adds(G, f)
  BY SumsExist, Zenon
<1> HIDE DEF G
<1>3. G \in [SUBSET DOMAIN f -> Nat]
  <2>1. PICK g : Adds(g, f) /\ g \in [SUBSET DOMAIN f -> Nat]
    BY SumsExist
  <2> DEFINE K == {k \in Nat : \A s \in SUBSET DOMAIN f : Cardinality(s) = k => G[s] = g[s]}
  <2>2. \A s \in SUBSET DOMAIN f :
           /\ G[s] = IF s = {} THEN 0 ELSE f[Chosen(s)] + G[s \ {Chosen(s)}]
           /\ g[s] = IF s = {} THEN 0 ELSE f[Chosen(s)] + g[s \ {Chosen(s)}]
    BY <1>2, <2>1 DEF Adds
  <2>3. 0 \in K
    BY <2>2, WithoutChosen
  <2>4. ASSUME NEW k \in K PROVE k + 1 \in K
    <3> SUFFICES ASSUME NEW s \in SUBSET DOMAIN f, Cardinality(s) = k + 1
                 PROVE  G[s] = g[s]
      OBVIOUS
    <3>1. s # {}
      <4>1. k \in Nat /\ k + 1 # 0
        OBVIOUS
      <4> QED BY <4>1, FS_EmptySet
    <3>2. s \ {Chosen(s)} \in SUBSET DOMAIN f /\ Cardinality(s \ {Chosen(s)}) = k
      BY <3>1, WithoutChosen
    <3> QED BY <2>2, <3>1, <3>2
  <2>5. K = Nat
    <3> HIDE DEF K
    <3>1. K \in SUBSET Nat
      BY DEF K
    <3> QED BY <2>3, <2>4, <3>1, NatSetInduction
  <2>6. \A s \in SUBSET DOMAIN f : G[s] = g[s]
    BY <2>5, FS_Subset, FS_CardinalityType
  <2>7. G = [s \in SUBSET DOMAIN f |-> G[s]]
    BY <1>2 DEF Adds
  <2> QED BY <2>1, <2>6, <2>7
<1> QED BY <1>1, <1>2, <1>3

\* A union has at most as many elements as bounds on its sets add up to.
LEMMA SumBound ==
  ASSUME NEW f, f \in [DOMAIN f -> Nat], IsFiniteSet(DOMAIN f), NEW A,
         \A i \in DOMAIN f : IsFiniteSet(A[i]) /\ Cardinality(A[i]) <= f[i]
  PROVE  /\ IsFiniteSet(UNION {A[i] : i \in DOMAIN f})
         /\ Cardinality(UNION {A[i] : i \in DOMAIN f}) <= SumFunction(f)
<1> DEFINE S == DOMAIN f
           U(s) == UNION {A[i] : i \in s}
<1>1. PICK g : Adds(g, f) /\ g \in [SUBSET S -> Nat] /\ SumFunction(f) = g[S]
  BY SumSolves
<1>2. \A s \in SUBSET S : g[s] = IF s = {} THEN 0 ELSE f[Chosen(s)] + g[s \ {Chosen(s)}]
  BY <1>1 DEF Adds
<1> DEFINE K == {k \in Nat : \A s \in SUBSET S : Cardinality(s) = k =>
                                 IsFiniteSet(U(s)) /\ Cardinality(U(s)) <= g[s]}
<1>3. 0 \in K
  <2> SUFFICES ASSUME NEW s \in SUBSET S, Cardinality(s) = 0
               PROVE  IsFiniteSet(U(s)) /\ Cardinality(U(s)) <= g[s]
    OBVIOUS
  <2>1. s = {}
    BY WithoutChosen
  <2>2. U(s) = {} /\ g[s] = 0
    BY <1>2, <2>1
  <2> QED BY <2>2, FS_EmptySet
<1>4. ASSUME NEW k \in K PROVE k + 1 \in K
  <2> SUFFICES ASSUME NEW s \in SUBSET S, Cardinality(s) = k + 1
               PROVE  IsFiniteSet(U(s)) /\ Cardinality(U(s)) <= g[s]
    OBVIOUS
  <2>1. s # {} /\ k \in Nat
    <3>1. k \in Nat /\ k + 1 # 0
      OBVIOUS
    <3> QED BY <3>1, FS_EmptySet
  <2>2. PICK c : c = Chosen(s)
    OBVIOUS
  <2>3. c \in s /\ s \ {c} \in SUBSET S /\ Cardinality(s \ {c}) = k
    BY <2>1, <2>2, WithoutChosen
  <2>4. IsFiniteSet(U(s \ {c})) /\ Cardinality(U(s \ {c})) <= g[s \ {c}]
    BY <2>3
  <2>5. IsFiniteSet(A[c]) /\ Cardinality(A[c]) <= f[c] /\ f[c] \in Nat
    BY <2>3
  <2>6. U(s) = U(s \ {c}) \cup A[c]
    BY <2>3
  <2>7. g[s] = f[c] + g[s \ {c}] /\ g[s \ {c}] \in Nat
    BY <1>1, <1>2, <2>1, <2>2, <2>3
  <2> HIDE DEF U, K, S
  <2>8. /\ IsFiniteSet(U(s \ {c}) \cup A[c])
        /\ Cardinality(U(s \ {c}) \cup A[c]) =
               Cardinality(U(s \ {c})) + Cardinality(A[c])
               - Cardinality(U(s \ {c}) \cap A[c])
    BY <2>4, <2>5, FS_Union
  <2>9. /\ Cardinality(U(s \ {c})) \in Nat /\ Cardinality(A[c]) \in Nat
        /\ Cardinality(U(s \ {c}) \cap A[c]) \in Nat
    BY <2>4, <2>5, FS_CardinalityType, FS_Intersection
  <2> QED BY <2>4, <2>5, <2>6, <2>7, <2>8, <2>9
<1>5. K = Nat
  <2> HIDE DEF K
  <2>1. K \in SUBSET Nat
    BY DEF K
  <2> QED BY <1>3, <1>4, <2>1, NatSetInduction
<1>6. Cardinality(S) \in Nat
  BY FS_CardinalityType
<1> QED BY <1>1, <1>5, <1>6

-----------------------------------------------------------------------------
\* The list of the blocks behind the head halves as well.
LEMMA HalvingTail ==
  ASSUME NEW list \in Seq(Lengths), Halving(list), list # <<>>
  PROVE  /\ Tail(list) \in Seq(Lengths) /\ Halving(Tail(list))
         /\ Len(Tail(list)) = Len(list) - 1
         /\ \A i \in 1 .. (Len(list) - 1) : Tail(list)[i] = list[i + 1]
<1>1. /\ Tail(list) \in Seq(Lengths) /\ Len(Tail(list)) = Len(list) - 1
      /\ Len(list) \in Nat \ {0}
      /\ \A i \in 1 .. (Len(list) - 1) : Tail(list)[i] = list[i + 1]
  OBVIOUS
<1>2. PICK rest : rest = Tail(list)
  OBVIOUS
<1>3. rest # <<>> => rest[Len(rest)] = INITIAL_BLOCK_SIZE
  <2> SUFFICES ASSUME rest # <<>> PROVE rest[Len(rest)] = INITIAL_BLOCK_SIZE
    OBVIOUS
  <2>1. Len(list) - 1 \in 1 .. (Len(list) - 1)
    BY <1>1, <1>2
  <2>2. rest[Len(rest)] = list[Len(list)]
    BY <1>1, <1>2, <2>1
  <2> QED BY <2>2 DEF Halving
<1>4. \A i \in 1 .. (Len(rest) - 1) : rest[i] = 2 * rest[i + 1]
  <2> SUFFICES ASSUME NEW i \in 1 .. (Len(rest) - 1) PROVE rest[i] = 2 * rest[i + 1]
    OBVIOUS
  <2>1. i \in 1 .. (Len(list) - 1) /\ i + 1 \in 1 .. (Len(list) - 1)
    BY <1>1, <1>2
  <2>2. rest[i] = list[i + 1] /\ rest[i + 1] = list[(i + 1) + 1]
    BY <1>1, <1>2, <2>1
  <2> QED BY <2>1, <2>2 DEF Halving
<1>5. \A i, j \in 1 .. Len(rest) : i < j => rest[i] >= 2 * rest[j]
  <2> SUFFICES ASSUME NEW i \in 1 .. Len(rest), NEW j \in 1 .. Len(rest), i < j
               PROVE  rest[i] >= 2 * rest[j]
    OBVIOUS
  <2>1. i + 1 \in 1 .. Len(list) /\ j + 1 \in 1 .. Len(list) /\ i + 1 < j + 1
    BY <1>1, <1>2
  <2>2. rest[i] = list[i + 1] /\ rest[j] = list[j + 1]
    BY <1>1, <1>2
  <2> QED BY <2>1, <2>2 DEF Halving
<1> QED BY <1>1, <1>2, <1>3, <1>4, <1>5 DEF Halving

-----------------------------------------------------------------------------
\* A bucket without blocks has no slot to visit.
LEMMA VisitNothing ==
  ASSUME NEW it, it.list = <<>>, NEW s
  PROVE  ~ToVisit(it, s)
BY DEF ToVisit

\* The slots to visit are the same when a block without unvisited slots is left
\* for the next one, which is visited from its end on.
LEMMA VisitBlock ==
  ASSUME NEW it \in BucketIters, Halving(it.list), it.list # <<>>, it.last_slot = 0,
         NEW it2, it2.bucket = it.bucket, it2.list = Tail(it.list),
         it2.last_slot = head_len(Tail(it.list)),
         NEW s \in Triples, s[3] \in 0 .. (s[2] - 1)
  PROVE  ToVisit(it2, s) <=> ToVisit(it, s)
<1>1. PICK list : list = it.list
  OBVIOUS
<1>2. PICK rest : rest = Tail(it.list)
  OBVIOUS
<1>3. list \in Seq(Lengths) /\ Halving(list) /\ list # <<>>
  BY <1>1 DEF BucketIters
<1>4. /\ head_len(list) = list[1] /\ 1 \in 1 .. Len(list) /\ Len(list) \in Nat
      /\ \A i, j \in 1 .. Len(list) : list[i] = list[j] => i = j
  BY <1>3, HalvingFacts
<1>5. /\ rest \in Seq(Lengths) /\ Halving(rest) /\ Len(rest) = Len(list) - 1
      /\ \A i \in 1 .. (Len(list) - 1) : rest[i] = list[i + 1]
  BY <1>1, <1>2, <1>3, HalvingTail
<1>6. rest # <<>> => head_len(rest) \in Lengths
  BY <1>5, HalvingFacts
<1>7. ASSUME ToVisit(it, s) PROVE ToVisit(it2, s)
  <2>1. s[2] # list[1] /\ s[1] = it.bucket
    BY <1>1, <1>4, <1>7 DEF ToVisit
  <2>2. PICK i \in 1 .. Len(list) : s[2] = list[i]
    BY <1>1, <1>7 DEF ToVisit
  <2>3. i - 1 \in 1 .. Len(rest) /\ rest[i - 1] = s[2]
    BY <1>4, <1>5, <2>1, <2>2
  <2>4. rest # <<>>
    BY <1>5, <2>3
  <2>5. s[2] = head_len(rest) =>
            \E n \in 0 .. (head_len(rest) - 1) : s[3] = scramble_slot(s[2], n)
    BY <1>6, <2>4, ScrambleOnto
  <2> QED BY <1>2, <2>1, <2>3, <2>5 DEF ToVisit
<1>8. ASSUME ToVisit(it2, s) PROVE ToVisit(it, s)
  <2>1. PICK i \in 1 .. Len(rest) : s[2] = rest[i]
    BY <1>2, <1>8 DEF ToVisit
  <2>2. i + 1 \in 1 .. Len(list) /\ s[2] = list[i + 1] /\ i + 1 # 1
    BY <1>4, <1>5, <2>1
  <2>3. s[2] # head_len(list)
    BY <1>4, <2>2
  <2>4. s[1] = it.bucket
    BY <1>8 DEF ToVisit
  <2> QED BY <1>1, <2>2, <2>3, <2>4 DEF ToVisit
<1> QED BY <1>7, <1>8

\* Going down by one slot takes that slot from the slots to visit and no other:
\* scramble_slot is injective.
LEMMA VisitSlot ==
  ASSUME NEW it \in BucketIters, Halving(it.list), it.last_slot > 0,
         it.last_slot <= head_len(it.list),
         NEW it2, it2.bucket = it.bucket, it2.list = it.list,
         it2.last_slot = it.last_slot - 1,
         NEW s \in Triples
  PROVE  LET h == head_len(it.list)
             v == <<it.bucket, h, scramble_slot(h, it.last_slot - 1)>>
         IN  /\ ToVisit(it, v)
             /\ ToVisit(it2, s) <=> ToVisit(it, s) /\ s # v
<1>1. PICK list : list = it.list
  OBVIOUS
<1>2. PICK h : h = head_len(it.list)
  OBVIOUS
<1>3. PICK k : k = it.last_slot - 1
  OBVIOUS
<1>4. /\ list \in Seq(Lengths) /\ Halving(list) /\ it.last_slot \in Nat
      /\ it.bucket \in Nat
  BY <1>1 DEF BucketIters
<1>5. /\ h \in Lengths /\ h = list[1] /\ 1 \in 1 .. Len(list) /\ h \in Nat
  <2>1. h \in Nat /\ h # 0
    BY <1>1, <1>2, <1>4, HalvingFacts
  <2>2. list # <<>>
    BY <1>1, <1>2, <2>1 DEF head_len
  <2> QED BY <1>1, <1>2, <1>4, <2>2, HalvingFacts
<1>6. k \in 0 .. (h - 1) /\ it.last_slot = k + 1 /\ k \in Nat
  BY <1>2, <1>3, <1>4, <1>5
<1>7. PICK p : p = scramble_slot(h, k)
  OBVIOUS
<1>8. p \in Nat
  BY <1>5, <1>6, <1>7, ScrambleRange
<1>9. PICK v : v = <<it.bucket, h, p>>
  OBVIOUS
<1>10. v[1] = it.bucket /\ v[2] = h /\ v[3] = p
  BY <1>9
<1>11. ToVisit(it, v)
  <2>1. k \in 0 .. (it.last_slot - 1)
    BY <1>6
  <2> QED BY <1>1, <1>5, <1>7, <1>10, <2>1 DEF ToVisit
<1>12. s = v <=> s[1] = it.bucket /\ s[2] = h /\ s[3] = p
  BY <1>9, <1>10, SlotNames
<1>13. ASSUME s[2] # h PROVE ToVisit(it2, s) <=> ToVisit(it, s) /\ s # v
  BY <1>2, <1>12, <1>13 DEF ToVisit
<1>14. ASSUME s[2] = h PROVE ToVisit(it2, s) <=> ToVisit(it, s) /\ s # v
  <2>1. /\ ToVisit(it, s) <=> s[1] = it.bucket /\ \E n \in 0 .. k : s[3] = scramble_slot(h, n)
        /\ ToVisit(it2, s) <=>
               s[1] = it.bucket /\ \E n \in 0 .. (k - 1) : s[3] = scramble_slot(h, n)
    <3>1. 0 .. (it.last_slot - 1) = 0 .. k /\ 0 .. (it2.last_slot - 1) = 0 .. (k - 1)
      BY <1>3, <1>6
    <3> QED BY <1>1, <1>2, <1>5, <1>14, <3>1 DEF ToVisit
  <2>2. \A n \in 0 .. (k - 1) : scramble_slot(h, n) # p
    <3> SUFFICES ASSUME NEW n \in 0 .. (k - 1), scramble_slot(h, n) = p PROVE FALSE
      OBVIOUS
    <3>1. n \in 0 .. (h - 1) /\ n # k
      BY <1>5, <1>6
    <3> QED BY <1>5, <1>6, <1>7, <3>1, ScrambleInjective
  <2>3. 0 .. k = (0 .. (k - 1)) \cup {k}
    BY <1>6
  <2> QED BY <1>7, <1>12, <1>14, <2>1, <2>2, <2>3
<1>15. ToVisit(it2, s) <=> ToVisit(it, s) /\ s # v
  BY <1>13, <1>14
<1> QED BY <1>2, <1>3, <1>7, <1>9, <1>11, <1>15
-----------------------------------------------------------------------------
\* When the last iterator is replaced by another one of its bucket, the slots to
\* visit in the other buckets are the same.
LEMMA StandingStep ==
  ASSUME NEW its, Standing(its), its # <<>>, NEW it2 \in BucketIters,
         it2.bucket = its[Len(its)].bucket, Halving(it2.list),
         it2.last_slot <= head_len(it2.list),
         NEW its2, its2 = [its EXCEPT ![Len(its)] = it2]
  PROVE  /\ Standing(its2) /\ its2 # <<>>
         /\ \A s : s[1] = its[Len(its)].bucket =>
               /\ Reached(its, s) <=> ToVisit(its[Len(its)], s)
               /\ Reached(its2, s) <=> ToVisit(it2, s)
         /\ \A s : s[1] # its[Len(its)].bucket =>
               (Reached(its2, s) <=> Reached(its, s))
<1>1. PICK n : n = Len(its)
  OBVIOUS
<1>2. /\ its \in Seq(BucketIters) /\ n \in Nat \ {0} /\ n \in 1 .. n
      /\ \A i \in 1 .. n : its[i].bucket = i - 1 /\ its[i] \in BucketIters
  BY <1>1 DEF Standing
<1>3. /\ its2 \in Seq(BucketIters) /\ Len(its2) = n /\ its2[n] = it2
      /\ \A i \in 1 .. n : i # n => its2[i] = its[i]
  BY <1>1, <1>2
<1>4. Standing(its2) /\ its2 # <<>>
  <2>1. ASSUME NEW i \in 1 .. Len(its2)
        PROVE  /\ its2[i].bucket = i - 1
               /\ Halving(its2[i].list)
               /\ its2[i].last_slot <= head_len(its2[i].list)
    <3>1. CASE i = n
      BY <1>1, <1>2, <1>3, <3>1
    <3>2. CASE i # n
      BY <1>1, <1>3, <3>2 DEF Standing
    <3> QED BY <3>1, <3>2
  <2> QED BY <1>2, <1>3, <2>1 DEF Standing
<1>5. ASSUME NEW s, NEW i \in 1 .. n, ToVisit(its[i], s)
      PROVE  s[1] = i - 1
  BY <1>2, <1>5 DEF ToVisit
<1>6. ASSUME NEW s, NEW i \in 1 .. n, ToVisit(its2[i], s)
      PROVE  s[1] = i - 1
  BY <1>1, <1>3, <1>4, <1>6 DEF ToVisit, Standing
<1>7. ASSUME NEW s, s[1] = its[n].bucket
      PROVE  /\ Reached(its, s) <=> ToVisit(its[n], s)
             /\ Reached(its2, s) <=> ToVisit(it2, s)
  <2>1. s[1] = n - 1
    BY <1>2, <1>7
  <2>2. \A i \in 1 .. n : i - 1 = n - 1 => i = n
    BY <1>2
  <2>3. /\ \A i \in 1 .. n : ToVisit(its[i], s) => i = n
        /\ \A i \in 1 .. n : ToVisit(its2[i], s) => i = n
    BY <1>5, <1>6, <2>1, <2>2
  <2> QED BY <1>1, <1>2, <1>3, <2>3 DEF Reached
<1>8. ASSUME NEW s, s[1] # its[n].bucket
      PROVE  Reached(its2, s) <=> Reached(its, s)
  <2>1. ~ToVisit(its[n], s) /\ ~ToVisit(its2[n], s)
    BY <1>1, <1>3, <1>8 DEF ToVisit
  <2>2. \A i \in 1 .. n : ToVisit(its[i], s) <=> ToVisit(its2[i], s)
    BY <1>3, <2>1
  <2> QED BY <1>1, <1>3, <2>2 DEF Reached
<1> QED BY <1>1, <1>4, <1>7, <1>8

\* A finished bucket that is popped had no slot to visit.
LEMMA StandingPop ==
  ASSUME NEW its, Standing(its), its # <<>>, its[Len(its)].list = <<>>
  PROVE  Standing(Front(its)) /\ \A s : Reached(Front(its), s) <=> Reached(its, s)
<1>1. PICK n : n = Len(its)
  OBVIOUS
<1>2. PICK its2 : its2 = Front(its)
  OBVIOUS
<1>3. /\ its \in Seq(BucketIters) /\ n \in Nat \ {0} /\ n \in 1 .. n
  BY <1>1 DEF Standing
<1>4. /\ its2 \in Seq(BucketIters) /\ Len(its2) = n - 1
      /\ \A i \in 1 .. (n - 1) : its2[i] = its[i]
  BY <1>1, <1>2, <1>3 DEF Front
<1>5. Standing(its2)
  BY <1>1, <1>3, <1>4 DEF Standing
<1>6. ASSUME NEW s PROVE Reached(its2, s) <=> Reached(its, s)
  <2>1. ~ToVisit(its[n], s)
    BY <1>1, VisitNothing
  <2>2. 1 .. n = (1 .. (n - 1)) \cup {n}
    BY <1>3
  <2> QED BY <1>1, <1>4, <2>1, <2>2 DEF Reached
<1> QED BY <1>2, <1>5, <1>6

\* The iterator of the bucket that is being walked.
LEMMA CurrentFacts ==
  ASSUME Standing(iters), iters # <<>>
  PROVE  /\ current = iters[Len(iters)] /\ current \in BucketIters
         /\ current.bucket \in Nat /\ current.last_slot \in Nat
         /\ current.list \in Seq(Lengths) /\ Halving(current.list)
         /\ current.last_slot <= head_len(current.list)
<1>1. Len(iters) \in 1 .. Len(iters)
  BY DEF Standing
<1>2. current = iters[Len(iters)] /\ current \in BucketIters
  BY <1>1 DEF current, Last, Standing
<1>3. Halving(current.list) /\ current.last_slot <= head_len(current.list)
  BY <1>1, <1>2 DEF Standing
<1> QED BY <1>2, <1>3 DEF BucketIters

\* Going on to the next block changes no slot's turn.
LEMMA BlockReached ==
  ASSUME Standing(iters), iters # <<>>, current.last_slot = 0, current.list # <<>>,
         iters' = [iters EXCEPT ![Len(iters)] =
                      [current EXCEPT !.list = Tail(current.list),
                                      !.last_slot = head_len(Tail(current.list))]]
  PROVE  /\ Standing(iters')
         /\ \A s \in Triples : s[3] \in 0 .. (s[2] - 1) =>
                (Reached(iters', s) <=> Reached(iters, s))
<1>1. /\ current = iters[Len(iters)] /\ current \in BucketIters
      /\ current.bucket \in Nat
      /\ current.list \in Seq(Lengths) /\ Halving(current.list)
  BY CurrentFacts
<1>2. PICK rest : rest = Tail(current.list)
  OBVIOUS
<1>3. rest \in Seq(Lengths) /\ Halving(rest)
  BY <1>1, <1>2, HalvingTail
<1>4. head_len(rest) \in Nat
  BY <1>3, HalvingFacts
<1>5. PICK it2 : it2 = [current EXCEPT !.list = rest, !.last_slot = head_len(rest)]
  OBVIOUS
<1>6. /\ it2 \in BucketIters /\ it2.bucket = current.bucket /\ it2.list = rest
      /\ it2.last_slot = head_len(rest) /\ it2.last_slot <= head_len(it2.list)
  <2>1. it2 \in BucketIters /\ it2.bucket = current.bucket
    BY <1>1, <1>3, <1>4, <1>5 DEF BucketIters
  <2>2. it2.list = rest
    BY <1>1, <1>5 DEF BucketIters
  <2>3. it2.last_slot = head_len(rest)
    BY <1>1, <1>5 DEF BucketIters
  <2> QED BY <1>4, <2>1, <2>2, <2>3
<1>7. iters' = [iters EXCEPT ![Len(iters)] = it2]
  BY <1>2, <1>5
<1>8. /\ Standing(iters')
      /\ \A s : s[1] = current.bucket =>
            /\ Reached(iters, s) <=> ToVisit(current, s)
            /\ Reached(iters', s) <=> ToVisit(it2, s)
      /\ \A s : s[1] # current.bucket => (Reached(iters', s) <=> Reached(iters, s))
  <2>1. PICK its2 : its2 = iters'
    OBVIOUS
  <2>2. /\ Standing(its2)
        /\ \A s : s[1] = current.bucket =>
              /\ Reached(iters, s) <=> ToVisit(current, s)
              /\ Reached(its2, s) <=> ToVisit(it2, s)
        /\ \A s : s[1] # current.bucket => (Reached(its2, s) <=> Reached(iters, s))
    <3>1. its2 = [iters EXCEPT ![Len(iters)] = it2] /\ Halving(it2.list)
      BY <1>3, <1>6, <1>7, <2>1
    <3>2. Standing(iters) /\ iters # <<>>
      OBVIOUS
    <3>3. it2 \in BucketIters /\ it2.bucket = iters[Len(iters)].bucket
          /\ it2.last_slot <= head_len(it2.list) /\ current = iters[Len(iters)]
      BY <1>1, <1>6
    <3> QED BY ONLY <3>1, <3>2, <3>3, StandingStep
  <2> QED BY <2>1, <2>2
<1>9. ASSUME NEW s \in Triples, s[3] \in 0 .. (s[2] - 1)
      PROVE  ToVisit(it2, s) <=> ToVisit(current, s)
  BY <1>1, <1>2, <1>6, <1>9, VisitBlock
<1> QED BY <1>8, <1>9

\* Going down one slot takes its turn away and leaves the others'.
LEMMA SlotReached ==
  ASSUME Standing(iters), iters # <<>>, current.last_slot > 0,
         iters' = [iters EXCEPT ![Len(iters)] =
                      [current EXCEPT !.last_slot = current.last_slot - 1]]
  PROVE  LET h == Head(current.list)
             v == <<current.bucket>> \o slot_address(h, current.last_slot - 1)
         IN  /\ Standing(iters') /\ Reached(iters, v) /\ v \in Triples
             /\ \A s \in Triples : Reached(iters', s) <=> Reached(iters, s) /\ s # v
<1>1. /\ current = iters[Len(iters)] /\ current \in BucketIters
      /\ current.bucket \in Nat /\ current.last_slot \in Nat
      /\ current.list \in Seq(Lengths) /\ Halving(current.list)
      /\ current.last_slot <= head_len(current.list)
  BY CurrentFacts
<1>2. PICK k : k = current.last_slot - 1
  OBVIOUS
<1>3. PICK h : h = head_len(current.list)
  OBVIOUS
<1>4. h = Head(current.list) /\ h \in Lengths /\ h \in Nat /\ k \in 0 .. (h - 1)
  <2>1. h \in Nat /\ h # 0
    BY <1>1, <1>3, HalvingFacts
  <2>2. current.list # <<>>
    BY <1>3, <2>1 DEF head_len
  <2>3. h = Head(current.list)
    BY <1>3, <2>2 DEF head_len
  <2> QED BY <1>1, <1>2, <1>3, <2>1, <2>2, <2>3, HalvingFacts
<1>5. scramble_slot(h, k) \in Nat
  BY <1>4, ScrambleRange
<1>6. PICK v : v = <<current.bucket>> \o slot_address(h, k)
  OBVIOUS
<1>7. v = <<current.bucket, h, scramble_slot(h, k)>> /\ v \in Triples
      /\ v[1] = current.bucket
  <2>1. <<current.bucket>> \o <<h, scramble_slot(h, k)>>
            = <<current.bucket, h, scramble_slot(h, k)>>
    BY <1>1, <1>4, <1>5, Triple
  <2>2. v = <<current.bucket, h, scramble_slot(h, k)>>
    BY ONLY <1>6, <2>1 DEF slot_address
  <2> QED BY <1>1, <1>4, <1>5, <2>2 DEF Triples
<1>8. PICK it2 : it2 = [current EXCEPT !.last_slot = k]
  OBVIOUS
<1>9. /\ it2 \in BucketIters /\ it2.bucket = current.bucket /\ it2.list = current.list
      /\ it2.last_slot = k /\ it2.last_slot <= head_len(it2.list)
  <2>1. k \in Nat /\ k <= h
    BY <1>4
  <2>2. it2 \in BucketIters /\ it2.bucket = current.bucket /\ it2.list = current.list
        /\ it2.last_slot = k
    BY <1>1, <1>8, <2>1 DEF BucketIters
  <2> QED BY <1>3, <2>1, <2>2
<1>10. PICK its2 : its2 = iters'
  OBVIOUS
<1>11. its2 = [iters EXCEPT ![Len(iters)] = it2]
  BY <1>2, <1>8, <1>10
<1>12. /\ Standing(its2)
       /\ \A s : s[1] = current.bucket =>
             /\ Reached(iters, s) <=> ToVisit(current, s)
             /\ Reached(its2, s) <=> ToVisit(it2, s)
       /\ \A s : s[1] # current.bucket => (Reached(its2, s) <=> Reached(iters, s))
  BY <1>1, <1>9, <1>11, StandingStep
<1>13. ASSUME NEW s \in Triples
       PROVE  ToVisit(current, v) /\ (ToVisit(it2, s) <=> ToVisit(current, s) /\ s # v)
  BY <1>1, <1>2, <1>3, <1>7, <1>9, VisitSlot
<1>14. ToVisit(current, v)
  BY <1>7, <1>13
<1>15. Reached(iters, v)
  BY <1>7, <1>12, <1>14
<1>16. ASSUME NEW s \in Triples
       PROVE  Reached(its2, s) <=> Reached(iters, s) /\ s # v
  BY <1>7, <1>12, <1>13
<1> QED BY <1>2, <1>4, <1>6, <1>7, <1>10, <1>12, <1>15, <1>16
-----------------------------------------------------------------------------
\* What the state of the store says of slots and Ids.
LEMMA RemainsFacts ==
  ASSUME RemainsInv
  PROVE  /\ slots \in [DOMAIN slots -> [id : Nat, element : Elements \cup {NoElement}]]
         /\ \A s \in DOMAIN slots : s \in Triples /\ s[3] \in 0 .. (s[2] - 1)
         /\ \A id \in Ids : /\ id.slot \in DOMAIN slots /\ id.ordinal \in Nat
                            /\ id = [slot |-> id.slot, ordinal |-> id.ordinal]
                            /\ moved[id] = IF lookup(id) = NoElement THEN 1 ELSE 0
         /\ \A i, j \in Ids : i.slot = j.slot /\ i.ordinal = j.ordinal => i = j
         /\ \A id \in Live : /\ id \in Ids
                             /\ slots[id.slot].id = id.ordinal
                             /\ slots[id.slot].element # NoElement
<1>1. TypeOK /\ ShapeInv /\ MovedOnce
  BY DEF RemainsInv
<1>2. Ids \subseteq [slot : DOMAIN slots, ordinal : Nat]
  BY <1>1 DEF TypeOK
<1>3. \A id \in Ids : id.slot \in DOMAIN slots /\ id.ordinal \in Nat
                      /\ id = [slot |-> id.slot, ordinal |-> id.ordinal]
  BY <1>2
<1>4. \A i, j \in Ids : i.slot = j.slot /\ i.ordinal = j.ordinal => i = j
  BY <1>2
<1>5. \A s \in DOMAIN slots : s \in Triples /\ s[3] \in 0 .. (s[2] - 1)
  BY <1>1, SlotInBlock
<1>6. \A id \in Live : /\ id \in Ids
                       /\ slots[id.slot].id = id.ordinal
                       /\ slots[id.slot].element # NoElement
  BY DEF Live, lookup
<1>7. slots \in [DOMAIN slots -> [id : Nat, element : Elements \cup {NoElement}]]
  BY <1>1 DEF TypeOK
<1>8. \A id \in Ids : moved[id] = IF lookup(id) = NoElement THEN 1 ELSE 0
  BY <1>1 DEF MovedOnce
<1> QED BY <1>3, <1>4, <1>5, <1>6, <1>7, <1>8

\* The element of an occupied slot is live under the Id that next makes for it.
LEMMA OccupiedLive ==
  ASSUME RemainsInv, NEW s \in Occupied
  PROVE  /\ slot_contents(s) \in Live /\ slot_contents(s).slot = s
         /\ s \in DOMAIN slots /\ lookup(slot_contents(s)) = slots[s].element
<1>1. PICK id : id = [slot |-> s, ordinal |-> slots[s].id]
  OBVIOUS
<1>2. s \in DOMAIN slots /\ slots[s].element # NoElement
  BY DEF Occupied
<1>3. id \in Ids /\ id.slot = s /\ id.ordinal = slots[s].id
  BY <1>1, <1>2 DEF RemainsInv, NamedInv
<1>4. lookup(id) = slots[s].element
  BY <1>3 DEF lookup
<1> QED BY <1>1, <1>2, <1>3, <1>4 DEF slot_contents, Live

\* Dropping or moving out elements that are there ends what their Ids name, and
\* nothing else, and counts each of them once.
LEMMA ReleaseFacts ==
  ASSUME RemainsInv, NEW ids \in SUBSET Live, Release(ids), UNCHANGED restVars
  PROVE  /\ RemainsInv' /\ Ids' = Ids /\ Live' = Live \ ids
         /\ \A id \in Ids : lookup(id)' = IF id \in ids THEN NoElement ELSE lookup(id)
<1>1. /\ blocks' = blocks /\ next_unused_slot' = next_unused_slot
      /\ erasures' = erasures /\ pc' = pc /\ slot' = slot /\ bucket' = bucket
  BY DEF restVars, shape
<1>2. /\ slots' = [s \in DOMAIN slots |-> IF \E id \in ids : id.slot = s
                                          THEN [slots[s] EXCEPT !.element = NoElement]
                                          ELSE slots[s]]
      /\ moved' = [id \in Ids |-> IF id \in ids THEN moved[id] + 1 ELSE moved[id]]
  BY DEF Release
<1>3. /\ DOMAIN slots' = DOMAIN slots /\ Ids' = Ids
      /\ \A s \in DOMAIN slots :
            /\ slots'[s].id = slots[s].id
            /\ slots'[s] \in [id : Nat, element : Elements \cup {NoElement}]
            /\ (\E id \in ids : id.slot = s) => slots'[s].element = NoElement
            /\ ~(\E id \in ids : id.slot = s) => slots'[s] = slots[s]
  <2>1. DOMAIN slots' = DOMAIN slots /\ Ids' = Ids
    BY <1>2 DEF Ids
  <2>2. ASSUME NEW s \in DOMAIN slots
        PROVE  /\ slots'[s].id = slots[s].id
               /\ slots'[s] \in [id : Nat, element : Elements \cup {NoElement}]
               /\ (\E id \in ids : id.slot = s) => slots'[s].element = NoElement
               /\ ~(\E id \in ids : id.slot = s) => slots'[s] = slots[s]
    <3>1. slots[s] \in [id : Nat, element : Elements \cup {NoElement}]
      BY RemainsFacts
    <3>2. PICK r : r = [slots[s] EXCEPT !.element = NoElement]
      OBVIOUS
    <3>3. /\ r \in [id : Nat, element : Elements \cup {NoElement}]
          /\ r.id = slots[s].id /\ r.element = NoElement
      BY <3>1, <3>2
    <3>4. slots'[s] = IF \E id \in ids : id.slot = s THEN r ELSE slots[s]
      BY <1>2, <3>2
    <3> QED BY <3>1, <3>3, <3>4
  <2> QED BY <2>1, <2>2
<1>4. ASSUME NEW id \in Ids
      PROVE  lookup(id)' = IF id \in ids THEN NoElement ELSE lookup(id)
  <2>1. id.slot \in DOMAIN slots
    BY RemainsFacts
  <2>2. CASE id \in ids
    BY <1>3, <2>1, <2>2 DEF lookup
  <2>3. CASE id \notin ids /\ ~\E i \in ids : i.slot = id.slot
    BY <1>3, <2>1, <2>3 DEF lookup
  <2>4. CASE id \notin ids /\ \E i \in ids : i.slot = id.slot
    <3>1. PICK i \in ids : i.slot = id.slot
      BY <2>4
    <3>2. i \in Ids /\ slots[i.slot].id = i.ordinal /\ i # id
      BY <2>4, <3>1, RemainsFacts
    <3>3. id.ordinal # slots[id.slot].id
      BY <3>1, <3>2, RemainsFacts
    <3>4. lookup(id) = NoElement /\ lookup(id)' = NoElement
      BY <1>3, <2>1, <3>3 DEF lookup
    <3> QED BY <2>4, <3>4
  <2> QED BY <2>2, <2>3, <2>4
<1>5. Live' = Live \ ids
  BY <1>3, <1>4 DEF Live
<1>6. MovedOnce'
  <2>1. ASSUME NEW id \in Ids
        PROVE  moved'[id] = IF lookup(id)' = NoElement THEN 1 ELSE 0
    <3>1. CASE id \in ids
      <4>1. lookup(id) # NoElement
        BY <3>1 DEF Live
      <4>2. moved[id] = 0
        BY <4>1, RemainsFacts
      <4> QED BY <1>2, <1>4, <3>1, <4>2
    <3>2. CASE id \notin ids
      BY <1>2, <1>4, <3>2, RemainsFacts
    <3> QED BY <3>1, <3>2
  <2> QED BY <1>3, <2>1 DEF MovedOnce
<1>7. NamedInv'
  <2>1. ASSUME NEW s \in DOMAIN slots, slots'[s].element # NoElement
        PROVE  [slot |-> s, ordinal |-> slots'[s].id] \in Ids
    <3>1. slots'[s] = slots[s]
      BY <1>3, <2>1
    <3> QED BY <2>1, <3>1 DEF RemainsInv, NamedInv
  <2> QED BY <1>3, <2>1 DEF NamedInv
<1>8. slots' \in [DOMAIN slots' -> [id : Nat, element : Elements \cup {NoElement}]]
  <2>1. slots' = [s \in DOMAIN slots |-> slots'[s]]
    BY <1>2
  <2> QED BY <1>3, <2>1
<1>9. moved' \in [Ids' -> Nat]
  BY <1>2, <1>3 DEF RemainsInv, TypeOK
<1>10. TypeOK'
  BY <1>1, <1>3, <1>8, <1>9 DEF RemainsInv, TypeOK
<1>11. ShapeInv' /\ ListInv'
  BY <1>1, <1>3 DEF RemainsInv, ShapeInv, ListInv
<1> QED BY <1>3, <1>4, <1>5, <1>6, <1>7, <1>10, <1>11 DEF RemainsInv

\* Nothing changes where the store is only looked at.
LEMMA LookedAt ==
  ASSUME RemainsInv, UNCHANGED restVars, slots' = slots, moved' = moved
  PROVE  /\ RemainsInv' /\ Ids' = Ids /\ Live' = Live
         /\ \A id \in Ids : lookup(id)' = lookup(id)
         /\ OwnerInv => OwnerInv'
         /\ IdInv => IdInv'
<1>1. /\ blocks' = blocks /\ next_unused_slot' = next_unused_slot
      /\ erasures' = erasures /\ pc' = pc /\ slot' = slot /\ bucket' = bucket
  BY DEF restVars, shape
<1>2. /\ Ids' = Ids /\ Handed' = Handed /\ \A id \in Ids : lookup(id)' = lookup(id)
  BY <1>1 DEF Ids, Handed, taken, lookup
<1>3. Live' = Live /\ MovedOnce' /\ NamedInv'
  BY <1>2 DEF Live, RemainsInv, MovedOnce, NamedInv
<1>4. TypeOK' /\ ShapeInv' /\ ListInv'
  BY <1>1, <1>2 DEF RemainsInv, TypeOK, ShapeInv, ListInv
<1>5. OwnerInv => OwnerInv'
  BY <1>1, <1>2 DEF OwnerInv
<1>6. IdInv => IdInv'
  BY <1>2 DEF IdInv
<1> QED BY <1>2, <1>3, <1>4, <1>5, <1>6 DEF RemainsInv
-----------------------------------------------------------------------------
\* Steps of the shared store keep every occupied slot named by an Id.
LEMMA NamedStep ==
  ASSUME Inv, NamedInv, NEW t \in Threads, Step(t)
  PROVE  NamedInv'
<1>1. ASSUME slots' = slots, moved' = moved PROVE NamedInv'
  BY <1>1 DEF NamedInv, Ids
<1>2. ASSUME NEW b \in Buckets, Gets(t, b) PROVE NamedInv'
  <2>1. PICK s : Fresh(t, s)
    BY <1>2, FreshSlot
  <2>2. moved' = moved
    BY <1>2 DEF Gets, HandOut
  <2>3. /\ \A x \in DOMAIN slots : slots'[x] = slots[x]
        /\ \A x \in DOMAIN slots' \ DOMAIN slots : slots'[x].element = NoElement
    BY <2>1 DEF Fresh
  <2> QED BY <2>2, <2>3 DEF NamedInv, Ids
<1>3. ASSUME NEW e \in Elements, Block_insert(t, e) PROVE NamedInv'
  <2>1. PICK s : s = slot[t]
    OBVIOUS
  <2>2. PICK new : new = [slot |-> s, ordinal |-> slots[s].id]
    OBVIOUS
  <2>3. s \in DOMAIN slots /\ Ids' = Ids \cup {new}
    BY <1>3, <2>1, <2>2, Block_insertOwners, Block_insertIds
  <2>4. slots' = [slots EXCEPT ![s].element = e]
    BY <1>3, <2>1 DEF Block_insert
  <2>5. /\ DOMAIN slots' = DOMAIN slots /\ slots'[s].id = slots[s].id
        /\ \A x \in DOMAIN slots \ {s} : slots'[x] = slots[x]
    BY <2>3, <2>4 DEF Inv, TypeOK
  <2> QED BY <2>2, <2>3, <2>5 DEF NamedInv
<1>4. ASSUME NEW id \in Ids, remove(t, id) PROVE NamedInv'
  <2>1. CASE lookup(id) = NoElement
    BY <1>1, <1>4, <2>1 DEF remove
  <2>2. CASE lookup(id) # NoElement
    <3>1. id.slot \in DOMAIN slots /\ id.ordinal \in Nat
      BY IdFacts
    <3>2. slots' = [slots EXCEPT ![id.slot] = [id |-> id.ordinal + 1, element |-> NoElement]]
      BY <1>4, <2>2 DEF remove, erased
    <3>3. /\ DOMAIN slots' = DOMAIN slots /\ slots'[id.slot].element = NoElement
          /\ \A x \in DOMAIN slots \ {id.slot} : slots'[x] = slots[x]
      BY <3>1, <3>2
    <3>4. Ids' = Ids
      BY <1>4, <2>2, removeIds
    <3> QED BY <3>3, <3>4 DEF NamedInv
  <2> QED BY <2>1, <2>2
<1>5. CASE insert(t) \/ push_erasure(t)
  BY <1>1, <1>5 DEF insert, push_erasure
<1>6. CASE Idle(t)
  BY <1>1, <1>6 DEF Idle, access, capacity, CapacityOfBucket
<1>7. ASSUME NEW b \in Buckets, Misses(t, b) PROVE NamedInv'
  BY <1>1, <1>7, MissCase
<1> QED BY <1>2, <1>3, <1>4, <1>5, <1>6, <1>7 DEF Step

\* While the store is not consumed, the invariant of StoreProofs holds.
LEMMA SharedInv ==
  ASSUME IterInv, owner \in {"shared", "iter_mut"}
  PROVE  Inv
BY DEF IterInv, RemainsInv, Inv

\* A step of a thread while the store is shared.
LEMMA SharedStep ==
  ASSUME IterInv, owner = "shared", Next, UNCHANGED iterVars
  PROVE  IterInv'
<1>1. Inv /\ ListInv /\ NamedInv /\ ItersInv /\ ExactInv
  BY SharedInv DEF IterInv, RemainsInv
<1>2. PICK t \in Threads : Step(t)
  BY <1>1, Steps
<1>3. Inv' /\ ListInv' /\ NamedInv'
  BY <1>1, <1>2, StepInv, ListStep, NamedStep
<1>4. owner' = owner /\ iters' = iters /\ running' = running /\ yielded' = yielded
  BY DEF iterVars
<1>5. Ids \subseteq Ids'
  <2>1. ASSUME moved' = moved PROVE Ids \subseteq Ids'
    BY <2>1 DEF Ids
  <2>2. ASSUME NEW b \in Buckets, Gets(t, b) \/ Misses(t, b) PROVE moved' = moved
    BY <1>1, <2>2, MissCase DEF Gets, HandOut
  <2>3. ASSUME NEW e \in Elements, Block_insert(t, e) PROVE Ids \subseteq Ids'
    <3>1. PICK new : new = [slot |-> slot[t], ordinal |-> slots[slot[t]].id]
      OBVIOUS
    <3>2. Ids' = Ids \cup {new}
      BY <1>1, <2>3, <3>1, Block_insertIds
    <3> QED BY <3>2
  <2>4. ASSUME NEW id \in Ids, remove(t, id) PROVE Ids \subseteq Ids'
    <3>1. CASE lookup(id) = NoElement
      BY <2>1, <2>4, <3>1 DEF remove
    <3>2. CASE lookup(id) # NoElement
      BY <1>1, <2>4, <3>2, removeIds
    <3> QED BY <3>1, <3>2
  <2>5. CASE insert(t) \/ push_erasure(t) \/ Idle(t)
    BY <2>1, <2>5 DEF insert, push_erasure, Idle, access, capacity, CapacityOfBucket
  <2> QED BY <1>2, <2>1, <2>2, <2>3, <2>4, <2>5 DEF Step
<1>6. ItersInv'
  BY <1>1, <1>4 DEF ItersInv, Iterating
<1>7. ExactInv'
  <2>1. yielded \in Seq(Ids')
    BY <1>1, <1>5 DEF ExactInv
  <2> QED BY <1>4, <2>1 DEF ExactInv, Iterating
<1> QED BY <1>3, <1>4, <1>6, <1>7 DEF IterInv, RemainsInv, Inv
-----------------------------------------------------------------------------
\* The smaller of two numbers.
LEMMA MinOfTwo ==
  ASSUME NEW a \in Nat, NEW b \in Nat
  PROVE  Min({a, b}) = Lesser(a, b)
<1>1. \A x \in {a, b} : (\A y \in {a, b} : x <= y) <=> x = Lesser(a, b)
  BY DEF Lesser
<1>2. Lesser(a, b) \in {a, b}
  BY DEF Lesser
<1> QED BY <1>1, <1>2 DEF Min

\* What the store's variables are when all of them stay.
LEMMA StoreVars ==
  ASSUME UNCHANGED storeVars
  PROVE  /\ UNCHANGED restVars /\ slots' = slots /\ moved' = moved /\ out' = out
BY DEF storeVars, vars, restVars

\* IterMut::new and IntoIter::new: every element is in a slot that was handed
\* out, and those are the slots to visit.
LEMMA IterateStep ==
  ASSUME IterInv, NEW kind \in {"iter_mut", "into_iter"}, Iterate(kind)
  PROVE  IterInv'
<1>1. /\ owner = "shared" /\ owner' = kind /\ running' = running /\ yielded' = <<>>
      /\ iters' = [i \in 1 .. BUCKET_COUNT |-> bucket_iter(i - 1)]
      /\ UNCHANGED storeVars
  BY DEF Iterate, Exclusive
<1>2. Inv /\ RemainsInv /\ ItersInv
  BY <1>1, SharedInv DEF IterInv
<1>3. /\ RemainsInv' /\ Live' = Live /\ OwnerInv' /\ IdInv'
  BY <1>1, <1>2, LookedAt, StoreVars DEF Inv
<1>4. ASSUME NEW b \in Buckets
      PROVE  /\ bucket_iter(b) \in BucketIters
             /\ bucket_iter(b).bucket = b /\ bucket_iter(b).list = blocks[b]
             /\ bucket_iter(b).last_slot = taken(b)
             /\ Halving(blocks[b]) /\ taken(b) <= head_len(blocks[b])
  <2>1. /\ head_len(blocks[b]) \in Nat /\ next_unused_slot[b] \in Nat
        /\ taken(b) \in Nat /\ taken(b) <= head_len(blocks[b])
        /\ blocks[b] \in Seq(Lengths) /\ b \in Nat
    BY <1>2, BucketFacts, CounterParts DEF Inv
  <2>2. Min({next_unused_slot[b], head_len(blocks[b])}) = taken(b)
    BY <2>1, MinOfTwo DEF taken
  <2>3. bucket_iter(b) = [bucket |-> b, list |-> blocks[b], last_slot |-> taken(b)]
    BY <2>2 DEF bucket_iter
  <2>4. Halving(blocks[b])
    BY <1>2 DEF RemainsInv, ListInv
  <2> QED BY <2>1, <2>3, <2>4 DEF BucketIters
<1>5. PICK its : its = iters'
  OBVIOUS
<1>6. /\ BUCKET_COUNT \in Nat
      /\ \A i \in 1 .. BUCKET_COUNT : i - 1 \in Buckets
      /\ \A b \in Buckets : b + 1 \in 1 .. BUCKET_COUNT /\ (b + 1) - 1 = b
  BY BucketsAssumption DEF Buckets
<1>7. /\ its \in Seq(BucketIters) /\ Len(its) = BUCKET_COUNT
      /\ \A i \in 1 .. BUCKET_COUNT : its[i] = bucket_iter(i - 1)
  BY <1>1, <1>4, <1>5, <1>6
<1>8. Standing(its)
  <2>1. ASSUME NEW i \in 1 .. Len(its)
        PROVE  /\ its[i].bucket = i - 1
               /\ Halving(its[i].list)
               /\ its[i].last_slot <= head_len(its[i].list)
    <3>1. its[i] = bucket_iter(i - 1) /\ i - 1 \in Buckets
      BY <1>6, <1>7
    <3> QED BY <1>4, <3>1
  <2> QED BY <1>7, <2>1 DEF Standing
<1>9. ItersInv'
  <2>1. running = FALSE
    BY <1>1, <1>2 DEF ItersInv, Iterating
  <2>2. Standing(iters')
    BY <1>5, <1>8
  <2> QED BY <1>1, <2>1, <2>2 DEF ItersInv, Iterating
<1>10. ASSUME NEW id \in Live
       PROVE  Reached(its, id.slot)
  <2>1. PICK s : s = id.slot
    OBVIOUS
  <2>2. s \in DOMAIN slots /\ slots[s].element # NoElement
    BY <1>2, <2>1, RemainsFacts
  <2>3. s \in Handed
    BY <1>2, <2>2 DEF Inv, OwnerInv
  <2>4. /\ s \in Triples /\ s[1] \in Buckets /\ InBlocks(blocks[s[1]], s)
    BY <1>2, <2>2 DEF Inv, TypeOK, ShapeInv
  <2>5. PICK b : b = s[1]
    OBVIOUS
  <2>6. PICK it : it = bucket_iter(b)
    OBVIOUS
  <2>7. it.bucket = b /\ it.list = blocks[b] /\ it.last_slot = taken(b)
    BY <1>4, <2>4, <2>5, <2>6
  <2>8. \E i \in 1 .. Len(blocks[b]) : s[2] = blocks[b][i]
    BY <2>4, <2>5 DEF InBlocks
  <2>9. s[2] = head_len(blocks[b]) =>
            \E n \in 0 .. (taken(b) - 1) : s[3] = scramble_slot(s[2], n)
    BY <2>3, <2>5 DEF Handed, slot_address
  <2>10. ToVisit(it, s)
    BY <2>5, <2>7, <2>8, <2>9 DEF ToVisit
  <2>11. b + 1 \in 1 .. BUCKET_COUNT /\ its[b + 1] = it
    <3>1. b \in Buckets
      BY <2>4, <2>5
    <3> QED BY <1>6, <1>7, <2>6, <3>1
  <2> QED BY <1>7, <2>1, <2>10, <2>11 DEF Reached
<1>11. ExactInv'
  <2>1. yielded' \in Seq(Ids') /\ Len(yielded') = 0
    BY <1>1
  <2>2. \A id \in Live' : Reached(iters', id.slot)
    BY <1>3, <1>5, <1>10
  <2>3. \A i \in 1 .. Len(yielded') : FALSE
    BY <2>1
  <2> QED BY <1>1, <2>1, <2>2, <2>3 DEF ExactInv, Iterating
<1> QED BY <1>3, <1>9, <1>11 DEF IterInv

\* The beginning and the end of a call of next, and the last call.
LEMMA CallStep ==
  ASSUME IterInv, next \/ NoneLeft
  PROVE  IterInv'
<1>1. /\ owner' = owner /\ iters' = iters /\ yielded' = yielded /\ UNCHANGED storeVars
  BY DEF next, NoneLeft
<1>2. RemainsInv /\ ItersInv /\ ExactInv
  BY DEF IterInv
<1>3. /\ RemainsInv' /\ Live' = Live /\ Ids' = Ids
      /\ OwnerInv => OwnerInv'
      /\ IdInv => IdInv'
  BY <1>1, <1>2, LookedAt, StoreVars
<1>4. running' \in BOOLEAN /\ (running' => Iterating)
  BY DEF next, NoneLeft, Iterating
<1>5. ItersInv'
  BY <1>1, <1>2, <1>4 DEF ItersInv, Iterating
<1>6. ExactInv'
  BY <1>1, <1>2, <1>3 DEF ExactInv, Iterating
<1> QED BY <1>1, <1>3, <1>5, <1>6 DEF IterInv

\* A step that looks for the next element and passes no element.
LEMMA PassStep ==
  ASSUME IterInv, running, RemainsInv', Live' = Live, Ids' = Ids,
         owner' = owner, running' = running, yielded' = yielded, Standing(iters'),
         OwnerInv => OwnerInv', IdInv => IdInv',
         \A id \in Live : Reached(iters', id.slot) <=> Reached(iters, id.slot)
  PROVE  IterInv'
<1>1. ItersInv /\ ExactInv
  BY DEF IterInv
<1>2. ItersInv'
  BY <1>1 DEF ItersInv, Iterating
<1>3. ExactInv'
  BY <1>1 DEF ExactInv, Iterating
<1> QED BY <1>2, <1>3 DEF IterInv

\* GenIter::next pops a bucket.
LEMMA PopBucketStep ==
  ASSUME IterInv, PopBucket
  PROVE  IterInv'
<1>1. /\ running /\ iters # <<>> /\ current.list = <<>> /\ iters' = Front(iters)
      /\ owner' = owner /\ running' = running /\ yielded' = yielded /\ UNCHANGED storeVars
  BY DEF PopBucket
<1>2. RemainsInv /\ Standing(iters)
  BY DEF IterInv, ItersInv
<1>3. /\ RemainsInv' /\ Live' = Live /\ Ids' = Ids
      /\ OwnerInv => OwnerInv'
      /\ IdInv => IdInv'
  BY <1>1, <1>2, LookedAt, StoreVars
<1>4. iters[Len(iters)].list = <<>>
  BY <1>1, <1>2, CurrentFacts
<1>5. Standing(Front(iters)) /\ \A s : Reached(Front(iters), s) <=> Reached(iters, s)
  BY <1>1, <1>2, <1>4, StandingPop
<1> QED BY <1>1, <1>3, <1>5, PassStep

\* GenBucketIter::next goes on to the next block; if it owns the blocks, the one
\* it drops has no element left.
LEMMA NextBlockEffect ==
  ASSUME IterInv, NextBlock
  PROVE  /\ slots' = slots /\ moved' = moved /\ out' = out
         /\ UNCHANGED restVars /\ owner' = owner /\ IterInv'
<1>1. /\ running /\ iters # <<>> /\ current.last_slot = 0 /\ current.list # <<>>
      /\ owner' = owner /\ running' = running /\ yielded' = yielded
      /\ UNCHANGED restVars /\ out' = out
  BY DEF NextBlock
<1>2. iters' = [iters EXCEPT ![Len(iters)] =
                   [current EXCEPT !.list = Tail(current.list),
                                   !.last_slot = head_len(Tail(current.list))]]
  BY Zenon DEF NextBlock, Advance, next_last_slot
<1>3. RemainsInv /\ ItersInv /\ ExactInv /\ Standing(iters)
  BY DEF IterInv, ItersInv
<1>4. /\ Standing(iters')
      /\ \A s \in Triples : s[3] \in 0 .. (s[2] - 1) =>
             (Reached(iters', s) <=> Reached(iters, s))
  BY <1>1, <1>2, <1>3, BlockReached
<1>5. \A id \in Live : Reached(iters', id.slot) <=> Reached(iters, id.slot)
  BY <1>3, <1>4, RemainsFacts
<1>6. owner = "into_iter" => DropBlocks(current.bucket, {Head(current.list)}) = {}
  <2> SUFFICES ASSUME owner = "into_iter", NEW id \in Live,
                      id.slot[1] = current.bucket, id.slot[2] = Head(current.list)
               PROVE  FALSE
    BY DEF DropBlocks
  <2>1. Reached(iters, id.slot)
    BY <1>3 DEF ExactInv
  <2>2. /\ current = iters[Len(iters)] /\ Len(iters) \in 1 .. Len(iters)
        /\ \A i \in 1 .. Len(iters) : iters[i].bucket = i - 1
    BY <1>1, <1>3, CurrentFacts DEF Standing
  <2>3. PICK i \in 1 .. Len(iters) : ToVisit(iters[i], id.slot)
    BY <2>1 DEF Reached
  <2>4. id.slot[1] = i - 1 /\ id.slot[1] = Len(iters) - 1
    BY <2>2, <2>3 DEF ToVisit
  <2>5. i = Len(iters)
    BY <2>4
  <2>6. ToVisit(current, id.slot)
    BY <2>2, <2>3, <2>5
  <2>7. head_len(current.list) = Head(current.list)
    BY <1>1 DEF head_len
  <2>8. PICK n \in 0 .. (current.last_slot - 1) : TRUE
    BY <2>6, <2>7 DEF ToVisit
  <2> QED BY <1>1, <2>8
<1>7. slots' = slots /\ moved' = moved
  <2>1. CASE owner # "into_iter"
    BY <2>1 DEF NextBlock
  <2>2. CASE owner = "into_iter"
    <3>1. Release({})
      BY <1>6, <2>2 DEF NextBlock
    <3>2. /\ slots' = [s \in DOMAIN slots |-> slots[s]]
          /\ moved' = [id \in Ids |-> moved[id]]
      BY <3>1 DEF Release
    <3> QED BY <1>3, <3>2 DEF RemainsInv, TypeOK
  <2> QED BY <2>1, <2>2
<1>8. /\ RemainsInv' /\ Live' = Live /\ Ids' = Ids
      /\ OwnerInv => OwnerInv'
      /\ IdInv => IdInv'
  BY <1>1, <1>3, <1>7, LookedAt
<1>9. IterInv'
  BY <1>1, <1>4, <1>5, <1>8, PassStep
<1> QED BY <1>1, <1>7, <1>9
-----------------------------------------------------------------------------
\* The slot the next step of GenBucketIter looks at.
Looked == <<current.bucket>> \o slot_address(Head(current.list), current.last_slot - 1)

\* GenBucketIter::next passes a slot without an element, or yields the element
\* under its Id and, owning the block, moves it out.
LEMMA NextSlotEffect ==
  ASSUME IterInv, NextSlot
  PROVE  /\ IterInv'
         /\ \/ slots' = slots /\ moved' = moved /\ out' = out
            \/ \E id \in Live :
                  /\ out' = [id |-> id, element |-> lookup(id)]
                  /\ \/ owner = "into_iter" /\ Release({id})
                     \/ slots' = slots /\ moved' = moved
         /\ UNCHANGED restVars /\ owner' = owner /\ owner # "gone"
<1>1. /\ running /\ iters # <<>> /\ current.last_slot > 0
      /\ UNCHANGED restVars /\ owner' = owner
  BY DEF NextSlot
<1>2. iters' = [iters EXCEPT ![Len(iters)] =
                   [current EXCEPT !.last_slot = current.last_slot - 1]]
  BY Zenon DEF NextSlot, Advance
<1>3. PICK v : v = Looked
  OBVIOUS
<1>4. PICK id : id = slot_contents(v)
  OBVIOUS
<1>5. \/ /\ v \in Occupied
         /\ yielded' = Append(yielded, id)
         /\ out' = [id |-> id, element |-> slots[v].element]
         /\ running' = FALSE
         /\ IF owner = "into_iter" THEN Release({id}) ELSE slots' = slots /\ moved' = moved
      \/ /\ v \notin Occupied
         /\ slots' = slots /\ moved' = moved /\ out' = out
         /\ running' = running /\ yielded' = yielded
  BY <1>3, <1>4, Zenon DEF NextSlot, Looked, Answer, take
<1>6. RemainsInv /\ ItersInv /\ ExactInv /\ Standing(iters)
  BY DEF IterInv, ItersInv
<1>7. /\ Standing(iters') /\ Reached(iters, v) /\ v \in Triples
      /\ \A s \in Triples : Reached(iters', s) <=> Reached(iters, s) /\ s # v
  BY <1>1, <1>2, <1>3, <1>6, SlotReached DEF Looked
<1>8. owner \in {"iter_mut", "into_iter"}
  BY <1>1, <1>6 DEF ItersInv, Iterating
<1>9. \A i \in Live : i \in Ids /\ i.slot \in Triples /\ i.slot \in Occupied
  BY <1>6, RemainsFacts DEF Occupied
<1>10. CASE v \notin Occupied
  <2>1. slots' = slots /\ moved' = moved /\ out' = out
        /\ running' = running /\ yielded' = yielded
    BY <1>5, <1>10
  <2>2. /\ RemainsInv' /\ Live' = Live /\ Ids' = Ids
        /\ OwnerInv => OwnerInv'
        /\ IdInv => IdInv'
    BY <1>1, <1>6, <2>1, LookedAt
  <2>3. \A i \in Live : Reached(iters', i.slot) <=> Reached(iters, i.slot)
    BY <1>7, <1>9, <1>10
  <2>4. IterInv'
    BY <1>1, <1>7, <2>1, <2>2, <2>3, PassStep
  <2> QED BY <1>1, <1>8, <2>1, <2>4
<1>11. CASE v \in Occupied
  <2>1. /\ id \in Live /\ id.slot = v /\ lookup(id) = slots[v].element
    BY <1>4, <1>6, <1>11, OccupiedLive
  <2>2. /\ yielded' = Append(yielded, id) /\ running' = FALSE
        /\ out' = [id |-> id, element |-> lookup(id)]
        /\ owner = "into_iter" => Release({id})
        /\ owner # "into_iter" => slots' = slots /\ moved' = moved
    BY <1>5, <1>11, <2>1
  <2>3. \A i \in Live : i.slot = v => i = id
    BY <1>6, <2>1, RemainsFacts
  <2>4. /\ yielded \in Seq(Ids) /\ id \in Ids
        /\ \A i, j \in 1 .. Len(yielded) : yielded[i] = yielded[j] => i = j
    BY <1>6, <1>8, <1>9, <2>1 DEF ExactInv, Iterating
  <2>5. \A i \in 1 .. Len(yielded) : yielded[i] # id
    <3>1. CASE owner = "iter_mut"
      BY <1>6, <1>7, <2>1, <3>1 DEF ExactInv
    <3>2. CASE owner = "into_iter"
      BY <1>6, <2>1, <3>2 DEF ExactInv
    <3> QED BY <1>8, <3>1, <3>2
  <2>6. PICK ys : ys = yielded'
    OBVIOUS
  <2>7. /\ ys \in Seq(Ids) /\ Len(ys) = Len(yielded) + 1 /\ Len(yielded) \in Nat
        /\ ys[Len(yielded) + 1] = id
        /\ \A i \in 1 .. Len(yielded) : ys[i] = yielded[i]
    BY <2>2, <2>4, <2>6
  <2>8. \A i \in 1 .. Len(ys) : i \in 1 .. Len(yielded) \/ i = Len(yielded) + 1
    BY <2>7
  <2>9. \A i, j \in 1 .. Len(ys) : ys[i] = ys[j] => i = j
    BY <2>4, <2>5, <2>7, <2>8
  <2>10. ItersInv'
    BY <1>1, <1>6, <1>7, <1>8, <2>2 DEF ItersInv, Iterating
  <2>11. CASE owner = "iter_mut"
    <3>1. slots' = slots /\ moved' = moved
      BY <2>2, <2>11
    <3>2. /\ RemainsInv' /\ Live' = Live /\ Ids' = Ids
          /\ OwnerInv => OwnerInv'
          /\ IdInv => IdInv'
      BY <1>1, <1>6, <3>1, LookedAt
    <3>3. ASSUME NEW i \in 1 .. Len(ys)
          PROVE  ys[i] \in Live /\ ~Reached(iters', ys[i].slot)
      <4>1. CASE i = Len(yielded) + 1
        BY <1>7, <2>1, <2>7, <4>1
      <4>2. CASE i \in 1 .. Len(yielded)
        <5>1. ys[i] \in Live /\ ~Reached(iters, ys[i].slot)
          BY <1>6, <2>7, <2>11, <4>2 DEF ExactInv
        <5> QED BY <1>7, <1>9, <5>1
      <4> QED BY <2>8, <4>1, <4>2
    <3>4. ASSUME NEW x \in Live
          PROVE  Reached(iters', x.slot) \/ \E i \in 1 .. Len(ys) : ys[i] = x
      <4>1. CASE x = id
        <5>1. Len(yielded) + 1 \in 1 .. Len(ys)
          BY <2>7
        <5> QED BY <2>7, <4>1, <5>1
      <4>2. CASE x # id /\ Reached(iters, x.slot)
        BY <1>7, <1>9, <2>3, <4>2
      <4>3. CASE ~Reached(iters, x.slot)
        <5>1. PICK i \in 1 .. Len(yielded) : yielded[i] = x
          BY <1>6, <2>11, <4>3 DEF ExactInv
        <5>2. i \in 1 .. Len(ys) /\ ys[i] = x
          BY <2>7, <5>1
        <5> QED BY <5>2
      <4> QED BY <4>1, <4>2, <4>3
    <3>5. ExactInv'
      BY <1>1, <2>6, <2>7, <2>9, <2>11, <3>2, <3>3, <3>4 DEF ExactInv, Iterating
    <3>6. IterInv'
      BY <1>1, <2>10, <2>11, <3>2, <3>5 DEF IterInv
    <3> QED BY <1>1, <1>8, <2>1, <2>2, <3>1, <3>6
  <2>12. CASE owner = "into_iter"
    <3>1. Release({id}) /\ {id} \in SUBSET Live
      BY <2>1, <2>2, <2>12
    <3>2. RemainsInv' /\ Ids' = Ids /\ Live' = Live \ {id}
      BY <1>1, <1>6, <3>1, ReleaseFacts
    <3>3. \A i \in 1 .. Len(ys) : ys[i] \notin Live'
      <4>1. \A i \in 1 .. Len(yielded) : yielded[i] \notin Live
        BY <1>6, <2>12 DEF ExactInv
      <4> QED BY <2>7, <2>8, <3>2, <4>1
    <3>4. \A x \in Live' : Reached(iters', x.slot)
      <4>1. \A x \in Live : Reached(iters, x.slot)
        BY <1>6, <2>12 DEF ExactInv
      <4> QED BY <1>7, <1>9, <2>3, <3>2, <4>1
    <3>5. ExactInv'
      BY <1>1, <2>6, <2>7, <2>9, <2>12, <3>2, <3>3, <3>4 DEF ExactInv, Iterating
    <3>6. IterInv'
      BY <1>1, <2>10, <2>12, <3>2, <3>5 DEF IterInv
    <3> QED BY <1>1, <2>1, <2>2, <2>12, <3>1, <3>6
  <2> QED BY <1>8, <2>11, <2>12
<1> QED BY <1>10, <1>11

-----------------------------------------------------------------------------
\* The store is gone: its last elements are dropped with the blocks.
LEMMA GoneStep ==
  ASSUME IterInv, Release(Live), UNCHANGED restVars, owner' = "gone", iters' = <<>>,
         running' = FALSE, yielded' \in Seq(Ids)
  PROVE  IterInv'
<1>1. RemainsInv
  BY DEF IterInv
<1>2. RemainsInv' /\ Ids' = Ids /\ Live' = {}
  <2>1. PICK ids : ids = Live
    OBVIOUS
  <2>2. RemainsInv' /\ Ids' = Ids /\ Live' = Live \ ids
    BY <1>1, <2>1, ReleaseFacts
  <2> QED BY <2>1, <2>2
<1>3. Standing(iters')
  BY DEF Standing
<1>4. ItersInv'
  BY <1>3 DEF ItersInv, Iterating
<1>5. ExactInv'
  BY <1>2 DEF ExactInv, Iterating
<1> QED BY <1>2, <1>4, <1>5 DEF IterInv

\* The iterator is dropped: the store is as it was, or what it still owned, which
\* is all that is left, is dropped.
LEMMA DropIterEffect ==
  ASSUME IterInv, DropIter
  PROVE  /\ IterInv' /\ UNCHANGED restVars /\ out' = out /\ owner # "gone"
         /\ \/ slots' = slots /\ moved' = moved /\ owner' # "gone"
            \/ Release(Live) /\ owner' = "gone"
<1>1. /\ running' = running /\ ~running /\ iters' = <<>> /\ yielded' = <<>>
      /\ UNCHANGED restVars /\ out' = out
  BY DEF DropIter
<1>2. RemainsInv /\ ItersInv /\ ExactInv /\ Standing(iters)
  BY DEF IterInv, ItersInv
<1>3. CASE owner = "iter_mut" /\ owner' = "shared" /\ slots' = slots /\ moved' = moved
  <2>1. /\ RemainsInv' /\ Live' = Live /\ Ids' = Ids /\ OwnerInv' /\ IdInv'
    <3>1. OwnerInv /\ IdInv
      BY <1>3 DEF IterInv
    <3> QED BY <1>1, <1>2, <1>3, <3>1, LookedAt
  <2>2. Standing(iters')
    BY <1>1 DEF Standing
  <2>3. ItersInv'
    BY <1>1, <1>2, <1>3, <2>2 DEF ItersInv, Iterating
  <2>4. ExactInv'
    BY <1>1, <1>3 DEF ExactInv, Iterating
  <2> QED BY <1>1, <1>3, <2>1, <2>3, <2>4 DEF IterInv
<1>4. CASE /\ owner = "into_iter" /\ owner' = "gone"
           /\ Release(UNION {DropBlocks(iters[i].bucket, ToSet(iters[i].list)) :
                             i \in DOMAIN iters})
  <2>1. PICK ids : ids = UNION {DropBlocks(iters[i].bucket, ToSet(iters[i].list)) :
                                i \in DOMAIN iters}
    OBVIOUS
  <2>2. ids \subseteq Live
    BY <2>1 DEF DropBlocks
  <2>3. ASSUME NEW id \in Live PROVE id \in ids
    <3>1. PICK i \in 1 .. Len(iters) : ToVisit(iters[i], id.slot)
      BY <1>2, <1>4 DEF ExactInv, Reached
    <3>2. i \in DOMAIN iters /\ iters[i].list \in Seq(Lengths)
      <4>1. iters \in Seq(BucketIters)
        BY <1>2 DEF Standing
      <4>2. i \in DOMAIN iters /\ iters[i] \in BucketIters
        BY <4>1
      <4> QED BY <4>2 DEF BucketIters
    <3>3. id.slot[2] \in ToSet(iters[i].list)
      BY <3>1, <3>2 DEF ToVisit, ToSet
    <3>4. id \in DropBlocks(iters[i].bucket, ToSet(iters[i].list))
      BY <3>1, <3>3 DEF DropBlocks, ToVisit
    <3> QED BY <2>1, <3>2, <3>4
  <2>4. ids = Live
    BY <2>2, <2>3
  <2>5. Release(Live)
    BY <1>4, <2>1, <2>4
  <2>6. running' = FALSE /\ yielded' \in Seq(Ids)
    BY <1>1, <1>2 DEF ItersInv
  <2>7. IterInv'
    BY <1>1, <1>4, <2>5, <2>6, GoneStep
  <2> QED BY <1>1, <1>4, <2>5, <2>7
<1> QED BY <1>3, <1>4 DEF DropIter

\* The store is dropped without iterating.
LEMMA DropStoreEffect ==
  ASSUME IterInv, DropStore
  PROVE  /\ IterInv' /\ UNCHANGED restVars /\ out' = out /\ Release(Live)
         /\ owner # "gone" /\ owner' = "gone"
<1>1. /\ owner = "shared" /\ owner' = "gone" /\ iters' = iters /\ running' = running
      /\ yielded' = yielded /\ UNCHANGED restVars /\ out' = out /\ Release(Live)
  BY DEF DropStore, Exclusive
<1>2. iters = <<>> /\ running = FALSE /\ yielded \in Seq(Ids)
  BY <1>1 DEF IterInv, ItersInv, ExactInv, Iterating
<1> QED BY <1>1, <1>2, GoneStep

\* get_mut only looks.
LEMMA get_mutEffect ==
  ASSUME IterInv, NEW id \in Ids, get_mut(id)
  PROVE  /\ IterInv' /\ UNCHANGED restVars /\ slots' = slots /\ moved' = moved
         /\ out' = [id |-> id, element |-> lookup(id)]
         /\ owner' = owner /\ owner # "gone"
<1>1. /\ UNCHANGED restVars /\ slots' = slots /\ moved' = moved
      /\ owner' = owner /\ iters' = iters /\ running' = running /\ yielded' = yielded
      /\ out' = [id |-> id, element |-> lookup(id)] /\ owner # "gone"
  BY DEF get_mut, Answer, iterVars, Exclusive
<1>2. RemainsInv /\ ItersInv /\ ExactInv
  BY DEF IterInv
<1>3. /\ RemainsInv' /\ Live' = Live /\ Ids' = Ids
      /\ OwnerInv => OwnerInv'
      /\ IdInv => IdInv'
  BY <1>1, <1>2, LookedAt
<1>4. ItersInv' /\ ExactInv'
  BY <1>1, <1>2, <1>3 DEF ItersInv, ExactInv, Iterating
<1> QED BY <1>1, <1>3, <1>4 DEF IterInv
-----------------------------------------------------------------------------
\* A store that was just made is shared, and nobody iterates.
LEMMA IterInvInit == IterInit => IterInv
<1> SUFFICES ASSUME IterInit PROVE IterInv
  OBVIOUS
<1>1. /\ Init /\ owner = "shared" /\ iters = <<>> /\ running = FALSE /\ yielded = <<>>
  BY DEF IterInit
<1>2. Inv
  BY <1>1, InvInit
<1>3. /\ blocks = [b \in Buckets |-> <<>>]
      /\ slots = [s \in {} |-> [id |-> 0, element |-> NoElement]]
  BY <1>1 DEF Init
<1>4. ListInv
  <2>1. Halving(<<>>)
    BY DEF Halving
  <2> QED BY <1>3, <2>1 DEF ListInv
<1>5. NamedInv
  BY <1>3 DEF NamedInv
<1>6. ItersInv
  <2>1. Standing(iters)
    BY <1>1 DEF Standing
  <2> QED BY <1>1, <2>1 DEF ItersInv, Iterating
<1>7. ExactInv
  BY <1>1 DEF ExactInv, Iterating
<1> QED BY <1>2, <1>4, <1>5, <1>6, <1>7 DEF IterInv, RemainsInv, Inv

\* Every step keeps the invariant.
LEMMA IterStep ==
  ASSUME IterInv, IterNext
  PROVE  IterInv'
<1>1. CASE owner = "shared" /\ Next /\ UNCHANGED iterVars
  BY <1>1, SharedStep
<1>2. CASE Iterate("iter_mut") \/ Iterate("into_iter")
  <2>1. PICK kind \in {"iter_mut", "into_iter"} : Iterate(kind)
    BY <1>2
  <2> QED BY <2>1, IterateStep
<1>3. CASE next \/ NoneLeft
  BY <1>3, CallStep
<1>4. CASE PopBucket
  BY <1>4, PopBucketStep
<1>5. CASE NextBlock
  BY <1>5, NextBlockEffect
<1>6. CASE NextSlot
  BY <1>6, NextSlotEffect
<1>7. CASE DropIter
  BY <1>7, DropIterEffect
<1>8. CASE DropStore
  BY <1>8, DropStoreEffect
<1>9. ASSUME NEW id \in Ids, get_mut(id) PROVE IterInv'
  BY <1>9, get_mutEffect
<1> QED BY <1>1, <1>2, <1>3, <1>4, <1>5, <1>6, <1>7, <1>8, <1>9 DEF IterNext

\* So does a step that changes nothing.
LEMMA IterStutter ==
  ASSUME IterInv, UNCHANGED allVars
  PROVE  IterInv'
<1>1. /\ UNCHANGED storeVars /\ owner' = owner /\ iters' = iters /\ running' = running
      /\ yielded' = yielded
  BY DEF allVars, iterVars
<1>2. RemainsInv /\ ItersInv /\ ExactInv
  BY DEF IterInv
<1>3. /\ RemainsInv' /\ Live' = Live /\ Ids' = Ids
      /\ OwnerInv => OwnerInv'
      /\ IdInv => IdInv'
  BY <1>1, <1>2, LookedAt, StoreVars
<1>4. ItersInv' /\ ExactInv'
  BY <1>1, <1>2, <1>3 DEF ItersInv, ExactInv, Iterating
<1> QED BY <1>1, <1>3, <1>4 DEF IterInv

\* IterInv holds in every state of a store that is shared, iterated over, looked
\* into, consumed and dropped in any order the borrow checker allows.
THEOREM IterInvariance == IterSpec => []IterInv
<1>1. IterInv /\ [IterNext]_allVars => IterInv'
  BY IterStep, IterStutter
<1> QED BY IterInvInit, <1>1, PTL DEF IterSpec

-----------------------------------------------------------------------------
\* The Ids ahead of an iterator, and of all of them.
LEMMA AheadFacts ==
  ASSUME IterInv
  PROVE  /\ DOMAIN iters = 1 .. Len(iters)
         /\ \A i \in 1 .. Len(iters) :
                Ahead(iters[i]) = {id \in Live : ToVisit(iters[i], id.slot)}
         /\ UNION {Ahead(iters[i]) : i \in DOMAIN iters} =
                {id \in Live : Reached(iters, id.slot)}
<1>1. iters \in Seq(BucketIters)
  BY DEF IterInv, ItersInv, Standing
<1>2. DOMAIN iters = 1 .. Len(iters)
  BY <1>1
<1>3. ASSUME NEW i \in 1 .. Len(iters)
      PROVE  Ahead(iters[i]) = {id \in Live : ToVisit(iters[i], id.slot)}
  <2>1. PICK it : it = iters[i]
    OBVIOUS
  <2>2. it.list \in Seq(Lengths)
    <3>1. it \in BucketIters
      BY <1>1, <2>1
    <3> QED BY <3>1 DEF BucketIters
  <2>3. \A x : x \in ToSet(it.list) <=> \E j \in 1 .. Len(it.list) : x = it.list[j]
    BY <2>2 DEF ToSet
  <2>4. ASSUME NEW id \in Live
        PROVE  id \in Ahead(it) <=> ToVisit(it, id.slot)
    BY <2>3 DEF Ahead, ToVisit, slot_address
  <2>5. Ahead(it) \subseteq Live
    BY DEF Ahead
  <2> QED BY <2>1, <2>4, <2>5
<1>4. UNION {Ahead(iters[i]) : i \in DOMAIN iters} = {id \in Live : Reached(iters, id.slot)}
  BY <1>2, <1>3 DEF Reached
<1> QED BY <1>2, <1>3, <1>4

\* An iteration meets every element exactly once: GenIter and GenBucketIter skip
\* no element, repeat none, and look at no slot past the end of a block.
THEOREM IterationExactHolds == IterSpec => []IterationExact
<1>1. IterInv => IterationExact
  <2> SUFFICES ASSUME IterInv, owner \in {"iter_mut", "into_iter"}
               PROVE  LET ahead == UNION {Ahead(iters[i]) : i \in DOMAIN iters}
                      IN  /\ IsInjective(yielded)
                          /\ ToSet(yielded) \cap ahead = {}
                          /\ owner = "iter_mut" => Live = ToSet(yielded) \cup ahead
                          /\ owner = "into_iter" => Live = ahead
                          /\ \A i \in DOMAIN iters :
                                 iters[i].last_slot <= head_len(iters[i].list)
    BY DEF IterationExact
  <2>1. PICK ahead : ahead = UNION {Ahead(iters[i]) : i \in DOMAIN iters}
    OBVIOUS
  <2>2. ahead = {id \in Live : Reached(iters, id.slot)} /\ DOMAIN iters = 1 .. Len(iters)
    BY <2>1, AheadFacts
  <2>3. ExactInv /\ Standing(iters)
    BY DEF IterInv, ItersInv
  <2>4. yielded \in Seq(Ids) /\ DOMAIN yielded = 1 .. Len(yielded)
    BY <2>3 DEF ExactInv
  <2>5. \A x : x \in ToSet(yielded) <=> \E i \in 1 .. Len(yielded) : x = yielded[i]
    BY <2>4 DEF ToSet
  <2>6. IsInjective(yielded)
    BY <2>3, <2>4 DEF ExactInv, Iterating, IsInjective
  <2>7. ToSet(yielded) \cap ahead = {}
    BY <2>2, <2>3, <2>5 DEF ExactInv
  <2>8. owner = "iter_mut" => Live = ToSet(yielded) \cup ahead
    <3> SUFFICES ASSUME owner = "iter_mut" PROVE Live = ToSet(yielded) \cup ahead
      OBVIOUS
    <3>1. \A id \in Live : id \in ToSet(yielded) \/ id \in ahead
      BY <2>2, <2>3, <2>5 DEF ExactInv
    <3>2. \A id \in ToSet(yielded) : id \in Live
      BY <2>3, <2>5 DEF ExactInv
    <3> QED BY <2>2, <3>1, <3>2
  <2>9. owner = "into_iter" => Live = ahead
    BY <2>2, <2>3 DEF ExactInv
  <2>10. \A i \in DOMAIN iters : iters[i].last_slot <= head_len(iters[i].list)
    BY <2>2, <2>3 DEF Standing
  <2> QED BY <2>1, <2>6, <2>7, <2>8, <2>9, <2>10
<1> QED BY IterInvariance, <1>1, PTL

\* Every element leaves the store once, by remove, by into_iter or with its block,
\* and when the store is gone all have left.
THEOREM DroppedOnceHolds == IterSpec => []DroppedOnce
<1>1. IterInv => DroppedOnce
  <2> SUFFICES ASSUME IterInv PROVE DroppedOnce
    OBVIOUS
  <2>1. \A id \in Ids : moved[id] = IF lookup(id) = NoElement THEN 1 ELSE 0
    BY DEF IterInv, RemainsInv, MovedOnce
  <2>2. owner = "gone" => Live = {}
    BY DEF IterInv, ExactInv
  <2> QED BY <2>1, <2>2 DEF DroppedOnce, Live
<1> QED BY IterInvariance, <1>1, PTL
-----------------------------------------------------------------------------
\* GenBucketIter::size_hint in numbers: the blocks behind the head, and what is
\* left of the head.
LEMMA HintValue ==
  ASSUME NEW it \in BucketIters, Halving(it.list), it.last_slot <= head_len(it.list)
  PROVE  bucket_size_hint(it) = IF it.list = <<>> THEN 0
                                ELSE head_len(it.list) - 1 + it.last_slot
<1>1. it.list \in Seq(Lengths) /\ it.last_slot \in Nat
  BY DEF BucketIters
<1>2. bucket_size_hint(it) = touched_size(head_len(it.list), it.last_slot)
  BY DEF bucket_size_hint
<1> QED BY <1>1, <1>2, ListSizes DEF TouchedIn

\* A number m - 1 + x with x below m lies below 2 * m - 1: so blocks whose
\* lengths are a factor of two apart number their slots apart.
LEMMA NumbersApart ==
  ASSUME NEW m \in Nat \ {0}, NEW x \in 0 .. (m - 1),
         NEW k \in Nat \ {0}, NEW y \in 0 .. (k - 1), m - 1 + x = k - 1 + y
  PROVE  ~(m >= 2 * k) /\ ~(k >= 2 * m)
OBVIOUS

\* No more slots are to be visited in a bucket than its hint says: number them
\* block by block from the smallest one on.
LEMMA VisitCount ==
  ASSUME NEW it \in BucketIters, Halving(it.list), it.last_slot <= head_len(it.list),
         NEW S, \A s \in S : s \in Triples /\ s[3] \in 0 .. (s[2] - 1) /\ ToVisit(it, s)
  PROVE  /\ IsFiniteSet(S) /\ bucket_size_hint(it) \in Nat
         /\ Cardinality(S) <= bucket_size_hint(it)
<1>1. PICK list : list = it.list
  OBVIOUS
<1>2. PICK h : h = head_len(list)
  OBVIOUS
<1>3. PICK last : last = it.last_slot
  OBVIOUS
<1>4. list \in Seq(Lengths) /\ last \in Nat /\ last <= h /\ Halving(list)
  BY <1>1, <1>2, <1>3 DEF BucketIters
<1>5. bucket_size_hint(it) = IF list = <<>> THEN 0 ELSE h - 1 + last
  BY <1>1, <1>2, <1>3, HintValue
<1>6. CASE list = <<>>
  <2>1. S = {}
    BY <1>1, <1>6, VisitNothing
  <2> QED BY <1>5, <1>6, <2>1, FS_EmptySet
<1>7. CASE list # <<>>
  <2>1. /\ h = list[1] /\ 1 \in 1 .. Len(list) /\ h \in Lengths
        /\ \A i \in 1 .. Len(list) : list[i] \in Nat \ {0}
    BY <1>2, <1>4, <1>7, HalvingFacts
  <2>2. h \in Nat \ {0}
    BY <2>1
  <2> DEFINE At(s) == CHOOSE n \in 0 .. (last - 1) : s[3] = scramble_slot(s[2], n)
             Number(s) == IF s[2] = h THEN h - 1 + At(s) ELSE s[2] - 1 + s[3]
             f == [s \in S |-> Number(s)]
             T == 0 .. (h - 1 + last - 1)
  <2>3. ASSUME NEW s \in S
        PROVE  /\ s \in Triples /\ s[1] = it.bucket
               /\ s[2] \in Nat \ {0} /\ s[3] \in 0 .. (s[2] - 1)
               /\ \E i \in 1 .. Len(list) : s[2] = list[i]
               /\ s[2] = h => At(s) \in 0 .. (last - 1) /\ s[3] = scramble_slot(h, At(s))
               /\ s[2] # h => 2 * s[2] <= h
    <3>1. /\ s \in Triples /\ s[3] \in 0 .. (s[2] - 1) /\ ToVisit(it, s)
      OBVIOUS
    <3>2. PICK i \in 1 .. Len(list) : s[2] = list[i]
      BY <1>1, <3>1 DEF ToVisit
    <3>3. s[2] # h => 2 * s[2] <= h
      <4>1. s[2] # h => i # 1 /\ 1 < i
        BY <2>1, <3>2
      <4>2. s[2] # h => list[1] >= 2 * list[i]
        BY <1>4, <2>1, <4>1 DEF Halving
      <4> QED BY <2>1, <3>2, <4>2
    <3>4. s[2] = h => \E n \in 0 .. (last - 1) : s[3] = scramble_slot(s[2], n)
      BY <1>1, <1>2, <1>3, <3>1 DEF ToVisit
    <3>5. s[2] = h => At(s) \in 0 .. (last - 1) /\ s[3] = scramble_slot(h, At(s))
      BY <3>4
    <3>6. s[1] = it.bucket /\ s[2] \in Nat \ {0}
      BY <2>1, <3>1, <3>2 DEF ToVisit
    <3> HIDE DEF At
    <3> QED BY <3>1, <3>2, <3>3, <3>5, <3>6
  <2> HIDE DEF At
  <2>4. ASSUME NEW s \in S PROVE Number(s) \in T
    <3>1. CASE s[2] = h
      BY <1>4, <2>2, <2>3, <3>1
    <3>2. CASE s[2] # h
      BY <1>4, <2>2, <2>3, <3>2
    <3> QED BY <3>1, <3>2
  <2>5. ASSUME NEW s \in S, NEW u \in S, Number(s) = Number(u), s[2] = h, u[2] = h
        PROVE  s = u
    <3>1. At(s) = At(u)
      <4>1. h - 1 + At(s) = h - 1 + At(u)
        BY <2>5
      <4>2. At(s) \in 0 .. (last - 1) /\ At(u) \in 0 .. (last - 1)
        BY <2>3, <2>5
      <4> QED BY ONLY <1>4, <2>2, <4>1, <4>2
    <3>2. s[3] = u[3]
      BY <2>3, <2>5, <3>1
    <3> QED BY <2>3, <2>5, <3>2, SlotNames
  <2>6. ASSUME NEW s \in S, NEW u \in S, s[2] = h, u[2] # h
        PROVE  Number(s) # Number(u)
    <3>1. Number(s) = h - 1 + At(s) /\ Number(u) = u[2] - 1 + u[3]
      BY <2>6
    <3>2. At(s) \in 0 .. (last - 1)
      BY <2>3, <2>6
    <3>3. u[2] \in Nat \ {0} /\ u[3] \in 0 .. (u[2] - 1) /\ 2 * u[2] <= h
      BY <2>3, <2>6
    <3>4. PICK a : a = At(s)
      OBVIOUS
    <3>5. PICK x : x = u[2]
      OBVIOUS
    <3>6. PICK y : y = u[3]
      OBVIOUS
    <3>7. h - 1 + a # x - 1 + y
      <4>1. h \in Nat /\ last \in Nat
        BY <1>4, <2>2
      <4>2. a \in 0 .. (last - 1) /\ x \in Nat \ {0} /\ y \in 0 .. (x - 1) /\ 2 * x <= h
        BY <3>2, <3>3, <3>4, <3>5, <3>6
      <4> QED BY ONLY <4>1, <4>2
    <3> QED BY ONLY <3>1, <3>4, <3>5, <3>6, <3>7
  <2>7. ASSUME NEW s \in S, NEW u \in S, Number(s) = Number(u), s[2] # h, u[2] # h
        PROVE  s = u
    <3>1. PICK i \in 1 .. Len(list) : s[2] = list[i]
      BY <2>3
    <3>2. PICK j \in 1 .. Len(list) : u[2] = list[j]
      BY <2>3
    <3>3. s[2] - 1 + s[3] = u[2] - 1 + u[3]
      BY <2>7
    <3>4. i < j => s[2] >= 2 * u[2]
      BY <1>4, <3>1, <3>2 DEF Halving
    <3>5. j < i => u[2] >= 2 * s[2]
      BY <1>4, <3>1, <3>2 DEF Halving
    <3>6. i = j
      <4>1. /\ s[2] \in Nat \ {0} /\ s[3] \in 0 .. (s[2] - 1)
            /\ u[2] \in Nat \ {0} /\ u[3] \in 0 .. (u[2] - 1)
        BY <2>3
      <4>2. ~(s[2] >= 2 * u[2])
        BY ONLY <3>3, <4>1, NumbersApart
      <4>3. ~(u[2] >= 2 * s[2])
        BY ONLY <3>3, <4>1, NumbersApart
      <4>4. Len(list) \in Nat
        BY <1>4
      <4> QED BY ONLY <3>4, <3>5, <4>2, <4>3, <4>4, i \in 1 .. Len(list), j \in 1 .. Len(list)
    <3>7. s[2] = u[2] /\ s[3] = u[3]
      BY <2>3, <3>1, <3>2, <3>3, <3>6
    <3> QED BY <2>3, <3>7, SlotNames
  <2> HIDE DEF Number, T
  <2>8. f \in Injection(S, T)
    <3>1. f \in [S -> T]
      BY <2>4
    <3>2. \A s, u \in S : f[s] = f[u] => s = u
      BY <2>5, <2>6, <2>7
    <3> QED BY <3>1, <3>2 DEF Injection, IsInjective
  <2>9. IsFiniteSet(T) /\ Cardinality(T) = h - 1 + last
    <3>1. 0 \in Int /\ h - 1 + last - 1 \in Int
      BY <1>4, <2>2
    <3>2. IsFiniteSet(T) /\ Cardinality(T) = IF 0 > h - 1 + last - 1 THEN 0
                                             ELSE (h - 1 + last - 1) - 0 + 1
      BY <3>1, FS_Interval DEF T
    <3> QED BY <1>4, <2>2, <3>2
  <2>10. IsFiniteSet(S) /\ Cardinality(S) <= Cardinality(T)
    <3> HIDE DEF f
    <3> QED BY <2>8, <2>9, FS_Injection
  <2> QED BY <1>4, <1>5, <1>7, <2>2, <2>9, <2>10
<1> QED BY <1>6, <1>7

\* The upper bound of size_hint is an upper bound: the elements ahead in each
\* bucket are at most what its iterator's hint says, and GenIter adds them up.
THEOREM SizeHintIsUpperBoundHolds == IterSpec => []SizeHintIsUpperBound
<1>1. IterInv => SizeHintIsUpperBound
  <2> SUFFICES ASSUME IterInv PROVE SizeHintIsUpperBound
    OBVIOUS
  <2>1. RemainsInv /\ Standing(iters) /\ iters \in Seq(BucketIters)
    BY DEF IterInv, ItersInv, Standing
  <2>2. ASSUME NEW i \in 1 .. Len(iters)
        PROVE  /\ IsFiniteSet(Ahead(iters[i])) /\ bucket_size_hint(iters[i]) \in Nat
               /\ Cardinality(Ahead(iters[i])) <= bucket_size_hint(iters[i])
    <3>1. PICK A : A = Ahead(iters[i])
      OBVIOUS
    <3>2. \A id \in A : id \in Live /\ ToVisit(iters[i], id.slot)
      BY <3>1, AheadFacts
    <3> DEFINE S == {id.slot : id \in A}
               g == [id \in A |-> id.slot]
    <3>3. \A s \in S : s \in Triples /\ s[3] \in 0 .. (s[2] - 1) /\ ToVisit(iters[i], s)
      BY <2>1, <3>2, RemainsFacts
    <3>4. /\ iters[i] \in BucketIters /\ Halving(iters[i].list)
          /\ iters[i].last_slot <= head_len(iters[i].list)
      BY <2>1 DEF Standing
    <3>5. g \in Injection(A, S)
      <4>1. \A x, y \in A : x.slot = y.slot => x = y
        BY <2>1, <3>2, RemainsFacts
      <4> QED BY <4>1 DEF Injection, IsInjective
    <3> HIDE DEF S, g
    <3>6. /\ IsFiniteSet(S) /\ bucket_size_hint(iters[i]) \in Nat
          /\ Cardinality(S) <= bucket_size_hint(iters[i])
      BY <3>3, <3>4, VisitCount
    <3>7. IsFiniteSet(A) /\ Cardinality(A) <= Cardinality(S)
      BY <3>5, <3>6, FS_Injection
    <3>8. Cardinality(A) \in Nat /\ Cardinality(S) \in Nat
      BY <3>6, <3>7, FS_CardinalityType
    <3> QED BY <3>1, <3>6, <3>7, <3>8
  <2> DEFINE f == [i \in DOMAIN iters |-> bucket_size_hint(iters[i])]
             A == [i \in DOMAIN iters |-> Ahead(iters[i])]
  <2>3. DOMAIN iters = 1 .. Len(iters) /\ IsFiniteSet(1 .. Len(iters))
    <3>1. Len(iters) \in Int /\ 1 \in Int
      BY <2>1
    <3> QED BY <3>1, AheadFacts, FS_Interval
  <2>4. f \in [DOMAIN f -> Nat] /\ DOMAIN f = DOMAIN iters /\ IsFiniteSet(DOMAIN f)
    BY <2>2, <2>3
  <2>5. \A i \in DOMAIN f : IsFiniteSet(A[i]) /\ Cardinality(A[i]) <= f[i]
    BY <2>2, <2>3
  <2>6. UNION {A[i] : i \in DOMAIN f} = UNION {Ahead(iters[i]) : i \in DOMAIN iters}
    BY <2>4
  <2>7. SumFunction(f) = size_hint
    BY DEF size_hint
  <2> HIDE DEF f, A
  <2>8. Cardinality(UNION {A[i] : i \in DOMAIN f}) <= SumFunction(f)
    BY <2>4, <2>5, SumBound
  <2> QED BY <2>6, <2>7, <2>8 DEF SizeHintIsUpperBound
<1> QED BY IterInvariance, <1>1, PTL
-----------------------------------------------------------------------------
\* A step of the shared store's map is one of this map, which nobody drops then.
LEMMA SharedMap ==
  ASSUME [Map!Next]_(Map!vars), owner = "shared", owner' = owner
  PROVE  [IterMap!Next]_(IterMap!vars)
<1>1. (owner # "gone") = TRUE /\ (owner' # "gone") = TRUE
  OBVIOUS
<1>2. CASE Map!Insert
  BY <1>1, <1>2 DEF Map!Insert, Map!Ids, Map!Answer, IterMap!Insert, IterMap!Ids,
                    IterMap!Answer, IterMap!Next
<1>3. ASSUME NEW id \in Map!Ids, Map!Access(id) \/ Map!Remove(id)
      PROVE  IterMap!Next
  <2>1. id \in IterMap!Ids
    BY <1>3 DEF Map!Ids, IterMap!Ids
  <2>2. IterMap!Access(id) \/ IterMap!Remove(id)
    BY <1>1, <1>3 DEF Map!Access, Map!Remove, Map!Answer, IterMap!Access, IterMap!Remove,
                      IterMap!Answer
  <2> QED BY <2>1, <2>2 DEF IterMap!Next
<1>4. CASE UNCHANGED Map!vars
  BY <1>1, <1>4 DEF Map!vars, IterMap!vars
<1>5. ~Map!DropAll
  BY DEF Map!DropAll
<1> QED BY <1>2, <1>3, <1>4, <1>5 DEF Map!Next

\* Every step of the store with its iterators is a step of the map: what next
\* yields is what the Id names, into_iter removes it, and a drop ends the map.
LEMMA IterMapStep ==
  ASSUME IterInv, [IterNext]_allVars
  PROVE  [IterMap!Next]_(IterMap!vars)
<1>0. RemainsInv
  BY DEF IterInv
<1>1. ASSUME out' = out, Named' = Named, owner' = owner \/ (owner # "gone" /\ owner' # "gone")
      PROVE  UNCHANGED IterMap!vars
  BY <1>1 DEF IterMap!vars, Named
<1>2. ASSUME UNCHANGED restVars, slots' = slots, moved' = moved
      PROVE  Named' = Named
  BY <1>0, <1>2, LookedAt, MapStutter
<1>3. ASSUME UNCHANGED storeVars, owner' = owner \/ (owner # "gone" /\ owner' # "gone")
      PROVE  UNCHANGED IterMap!vars
  BY <1>1, <1>2, <1>3, StoreVars
<1>4. ASSUME NEW id \in Ids, out' = [id |-> id, element |-> lookup(id)], Named' = Named,
             owner' = owner, owner # "gone"
      PROVE  IterMap!Next
  <2>1. id \in IterMap!Ids /\ Named[id] = lookup(id)
    BY DEF IterMap!Ids, Named
  <2>2. IterMap!Access(id)
    BY <1>4, <2>1 DEF IterMap!Access, IterMap!Answer, Named
  <2> QED BY <2>1, <2>2 DEF IterMap!Next
<1>5. ASSUME NEW id \in Live, out' = [id |-> id, element |-> lookup(id)],
             Release({id}), UNCHANGED restVars, owner' = owner, owner # "gone"
      PROVE  IterMap!Next
  <2>1. id \in Ids /\ {id} \in SUBSET Live
    BY <1>0, RemainsFacts
  <2>2. /\ Ids' = Ids
        /\ \A i \in Ids : lookup(i)' = IF i \in {id} THEN NoElement ELSE lookup(i)
    BY <1>0, <1>5, <2>1, ReleaseFacts
  <2>3. Named' = [Named EXCEPT ![id] = NoElement] /\ Named[id] = lookup(id)
    BY <2>1, <2>2 DEF Named
  <2>4. IterMap!Remove(id)
    BY <1>5, <2>3 DEF IterMap!Remove, IterMap!Answer, Named
  <2>5. id \in IterMap!Ids
    BY <2>1 DEF IterMap!Ids
  <2> QED BY <2>4, <2>5 DEF IterMap!Next
<1>6. ASSUME Release(Live), UNCHANGED restVars, out' = out, owner # "gone", owner' = "gone"
      PROVE  IterMap!Next
  <2>1. PICK ids : ids = Live
    OBVIOUS
  <2>2. /\ Ids' = Ids
        /\ \A i \in Ids : lookup(i)' = IF i \in ids THEN NoElement ELSE lookup(i)
    BY <1>0, <1>6, <2>1, ReleaseFacts
  <2>3. \A i \in Ids : lookup(i)' = NoElement
    BY <2>1, <2>2 DEF Live
  <2>4. Named' = [i \in Ids |-> NoElement] /\ Ids = IterMap!Ids
    BY <2>2, <2>3 DEF Named, IterMap!Ids
  <2>5. IterMap!DropAll
    BY <1>6, <2>4 DEF IterMap!DropAll, Named
  <2> QED BY <2>5 DEF IterMap!Next
<1>7. CASE owner = "shared" /\ Next /\ UNCHANGED iterVars
  BY <1>7, SharedInv, MapStep, SharedMap DEF iterVars
<1>8. CASE Iterate("iter_mut") \/ Iterate("into_iter")
  BY <1>3, <1>8 DEF Iterate, Exclusive
<1>109. CASE next \/ NoneLeft \/ PopBucket
  BY <1>3, <1>109 DEF next, NoneLeft, PopBucket
<1>10. CASE NextBlock
  BY <1>1, <1>2, <1>10, NextBlockEffect
<1>11. CASE NextSlot
  <2>1. UNCHANGED restVars /\ owner' = owner /\ owner # "gone"
    BY <1>11, NextSlotEffect
  <2>2. CASE slots' = slots /\ moved' = moved /\ out' = out
    BY <1>1, <1>2, <2>1, <2>2
  <2>3. CASE \E id \in Live : /\ out' = [id |-> id, element |-> lookup(id)]
                              /\ \/ owner = "into_iter" /\ Release({id})
                                 \/ slots' = slots /\ moved' = moved
    <3>1. PICK id \in Live : /\ out' = [id |-> id, element |-> lookup(id)]
                             /\ Release({id}) \/ (slots' = slots /\ moved' = moved)
      BY <2>3
    <3>2. id \in Ids
      BY DEF Live
    <3>3. CASE Release({id})
      BY <1>5, <2>1, <3>1, <3>3
    <3>4. CASE slots' = slots /\ moved' = moved
      BY <1>2, <1>4, <2>1, <3>1, <3>2, <3>4
    <3> QED BY <3>1, <3>3, <3>4
  <2> QED BY <1>11, <2>2, <2>3, NextSlotEffect
<1>12. CASE DropIter
  <2>1. UNCHANGED restVars /\ out' = out /\ owner # "gone"
    BY <1>12, DropIterEffect
  <2>2. CASE slots' = slots /\ moved' = moved /\ owner' # "gone"
    BY <1>1, <1>2, <2>1, <2>2
  <2>3. CASE Release(Live) /\ owner' = "gone"
    BY <1>6, <2>1, <2>3
  <2> QED BY <1>12, <2>2, <2>3, DropIterEffect
<1>13. CASE DropStore
  BY <1>6, <1>13, DropStoreEffect
<1>14. ASSUME NEW id \in Ids, get_mut(id) PROVE IterMap!Next
  BY <1>2, <1>4, <1>14, get_mutEffect
<1>15. CASE UNCHANGED allVars
  BY <1>3, <1>15 DEF allVars, iterVars
<1> QED BY <1>7, <1>8, <1>10, <1>11, <1>12, <1>13, <1>14, <1>15, <1>109 DEF IterNext

\* The store with iter_mut, into_iter, get_mut and drop implements the map from
\* Ids to elements: nothing leaves it but by a removal, by into_iter or with the
\* one drop that ends it.
THEOREM IterRefinement == IterSpec => ImplementsIterMap
<1>1. IterInit => IterMap!Init
  <2> SUFFICES ASSUME IterInit PROVE IterMap!Init
    OBVIOUS
  <2>1. Map!Init /\ owner = "shared"
    BY MapInit DEF IterInit
  <2> QED BY <2>1 DEF Map!Init, IterMap!Init
<1>2. IterInv /\ [IterNext]_allVars => [IterMap!Next]_(IterMap!vars)
  BY IterMapStep
<1> QED BY <1>1, <1>2, IterInvariance, PTL DEF IterSpec, ImplementsIterMap, IterMap!Spec
=============================================================================
