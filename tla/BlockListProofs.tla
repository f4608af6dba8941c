--------------------------- MODULE BlockListProofs ---------------------------
(***************************************************************************)
(* What the functions of BlockList compute, for every width of a u32: the  *)
(* lengths doubling can reach, that scramble_slot permutes the slots of a  *)
(* block, and that head_size_to_total_size is the sum of the lengths of a  *)
(* bucket's blocks.                                                        *)
(***************************************************************************)
EXTENDS BlockList, FiniteSetTheorems, TLAPS

\* The lengths of blocks that have slots: divisors of the range of a u32, which
\* three does not divide.
Lengths == {len \in 1 .. (U32 - 1) : U32 % len = 0 /\ len % 3 # 0}

\* The remainder of a number that is less than three times the divisor.
LEMMA SmallMod ==
  ASSUME NEW len \in Nat \ {0}, NEW x \in Nat, x < 3 * len
  PROVE  x % len = IF x < len THEN x
                   ELSE IF x < 2 * len THEN x - len ELSE x - 2 * len
OBVIOUS

\* A length is at most half the range, and exactly half if three of it exceed the
\* range: so slot * 3 of scramble_slot overflows in the largest block only, and
\* by a multiple of its length.
LEMMA LengthsInHalf ==
  ASSUME NEW len \in Lengths
  PROVE  /\ len \in Nat \ {0}
         /\ 2 * len <= U32
         /\ U32 < 3 * len => U32 = 2 * len
<1>1. len \in 1 .. (U32 - 1) /\ U32 % len = 0
  BY DEF Lengths
<1>2. U32 \in Nat
  BY U32Assumption
<1>3. U32 >= 2 * len
  BY <1>1, <1>2, SmallMod
<1>4. U32 < 3 * len => U32 = 2 * len
  BY <1>1, <1>2, SmallMod
<1> QED BY <1>1, <1>3, <1>4

\* The first block of a bucket has a length.
LEMMA FirstLength == INITIAL_BLOCK_SIZE \in Lengths
BY U32Assumption DEF Lengths, INITIAL_BLOCK_SIZE

\* Doubling a length gives a length (block_size), or 0 where it overflows.
LEMMA NextLength ==
  ASSUME NEW len \in Lengths
  PROVE  IF doubling_overflows(len)
         THEN (len * RESIZE_FACTOR) % U32 = 0
         ELSE /\ (len * RESIZE_FACTOR) % U32 = 2 * len
              /\ 2 * len \in Lengths
<1>1. /\ len \in 1 .. (U32 - 1) /\ U32 % len = 0 /\ len % 3 # 0
      /\ len \in Nat \ {0} /\ 2 * len <= U32 /\ U32 \in Nat \ {0}
  BY LengthsInHalf, U32Assumption DEF Lengths
<1>2. U32 % (2 * len) = 0
  BY <1>1, U32Assumption
<1>3. (2 * len) % 3 # 0
  BY <1>1
<1>4. len * RESIZE_FACTOR = 2 * len
  BY <1>1 DEF RESIZE_FACTOR
<1>5. CASE 2 * len >= U32
  <2>1. 2 * len = U32
    BY <1>1, <1>5
  <2>2. U32 % U32 = 0
    BY <1>1, SmallMod
  <2> QED BY <1>4, <1>5, <2>1, <2>2 DEF doubling_overflows
<1>6. CASE 2 * len < U32
  <2>1. 2 * len \in Nat /\ 2 * len < 3 * U32
    BY <1>1, <1>6
  <2>2. (2 * len) % U32 = 2 * len
    BY <1>1, <1>6, <2>1, SmallMod
  <2> QED BY <1>1, <1>2, <1>3, <1>4, <1>6, <2>2 DEF doubling_overflows, Lengths
<1> QED BY <1>1, <1>5, <1>6

\* scramble_slot stays within the block, and its overflow does not show.
LEMMA ScrambleRange ==
  ASSUME NEW len \in Lengths, NEW s \in 0 .. (len - 1)
  PROVE  /\ scramble_slot(len, s) \in 0 .. (len - 1)
         /\ scramble_slot(len, s) = IF 3 * s < len THEN 3 * s
                                    ELSE IF 3 * s < 2 * len THEN 3 * s - len
                                    ELSE 3 * s - 2 * len
<1> DEFINE x == 3 * s
<1>1. /\ len \in Nat \ {0} /\ U32 \in Nat \ {0} /\ 2 * len <= U32
      /\ U32 < 3 * len => U32 = 2 * len
  BY LengthsInHalf, U32Assumption
<1>2. x \in Nat /\ x < 3 * len /\ x = s * 3
  BY <1>1
<1> HIDE DEF x
<1>3. x < 2 * U32
  BY <1>1, <1>2
<1>4. /\ x < U32 => x % U32 = x
      /\ x >= U32 => x % U32 = x - U32 /\ U32 = 2 * len
  <2>1. x < 3 * U32
    BY <1>1, <1>2, <1>3
  <2>2. x % U32 = IF x < U32 THEN x
                  ELSE IF x < 2 * U32 THEN x - U32 ELSE x - 2 * U32
    BY <1>1, <1>2, <2>1, SmallMod
  <2> QED BY <1>1, <1>2, <1>3, <2>2
<1>5. x % len = IF x < len THEN x
                ELSE IF x < 2 * len THEN x - len ELSE x - 2 * len
  BY <1>1, <1>2, SmallMod
<1>6. x >= U32 => (x - U32) % len = x - 2 * len
  BY <1>1, <1>2, <1>4, SmallMod
<1>7. (x % U32) % len = IF x < len THEN x
                        ELSE IF x < 2 * len THEN x - len ELSE x - 2 * len
  BY <1>1, <1>2, <1>3, <1>4, <1>5, <1>6
<1> QED BY <1>1, <1>2, <1>7 DEF scramble_slot, x

\* scramble_slot never gives two slots of a block the same place.
LEMMA ScrambleInjective ==
  ASSUME NEW len \in Lengths,
         NEW s \in 0 .. (len - 1), NEW t \in 0 .. (len - 1),
         scramble_slot(len, s) = scramble_slot(len, t)
  PROVE  s = t
<1>1. len \in Nat \ {0} /\ len % 3 # 0
  BY LengthsInHalf DEF Lengths
<1>2. \/ 3 * s = 3 * t
      \/ 3 * s = 3 * t + len
      \/ 3 * s = 3 * t - len
      \/ 3 * s = 3 * t + 2 * len
      \/ 3 * s = 3 * t - 2 * len
  BY <1>1, ScrambleRange
<1> QED BY <1>1, <1>2

\* scramble_slot leaves no place of a block out.
LEMMA ScrambleOnto ==
  ASSUME NEW len \in Lengths
  PROVE  {scramble_slot(len, s) : s \in 0 .. (len - 1)} = 0 .. (len - 1)
<1> DEFINE S == 0 .. (len - 1)
           f == [s \in S |-> scramble_slot(len, s)]
<1>1. f \in Injection(S, S)
  BY ScrambleRange, ScrambleInjective DEF Injection, IsInjective
<1>2. IsFiniteSet(S)
  BY LengthsInHalf, FS_Interval
<1>3. f \in Surjection(S, S)
  BY <1>1, <1>2, FS_Injection
<1> QED BY <1>3, ScrambleRange DEF Surjection

-----------------------------------------------------------------------------
\* Induction over the natural numbers, for sets: every set of them has a least
\* element.
LEMMA NatSetInduction ==
  ASSUME NEW S \in SUBSET Nat, 0 \in S, \A n \in S : n + 1 \in S
  PROVE  S = Nat
<1> SUFFICES ASSUME Nat \ S # {} PROVE FALSE
  OBVIOUS
<1>1. PICK x \in Nat \ S : \A y \in Nat \ S : ~ (<<y, x>> \in OpToRel(<, Nat))
  BY NatLessThanWellFounded, WFMin, Zenon
<1>2. x - 1 \in Nat \ S /\ x \in Nat
  OBVIOUS
<1>3. <<x - 1, x>> \in OpToRel(<, Nat)
  BY <1>2 DEF OpToRel
<1> QED BY <1>1, <1>2, <1>3

\* The equation that defines the function in head_size_to_total_size.
Solves(f, h) ==
    f = [c \in Nat |-> IF c <= h THEN c + f[c * RESIZE_FACTOR] ELSE 0]

\* There is a function as head_size_to_total_size defines it: its values from h
\* downwards are found one after the other.
LEMMA TotalExists ==
  ASSUME NEW h \in Nat
  PROVE  \E g : Solves(g, h)
<1> DEFINE From(g, k) == /\ g \in [Nat -> Nat]
                         /\ g[0] = 0
                         /\ \A c \in Nat \ {0} : c + k > h =>
                                g[c] = IF c <= h THEN c + g[c * RESIZE_FACTOR] ELSE 0
           S == {k \in Nat : \E g : From(g, k)}
<1>1. 0 \in S
  <2> DEFINE z == [c \in Nat |-> 0]
  <2>1. From(z, 0)
    OBVIOUS
  <2> QED BY <2>1
<1>2. ASSUME NEW k \in S PROVE k + 1 \in S
  <2>1. PICK g : From(g, k)
    OBVIOUS
  <2> DEFINE c0 == h - k
             g2 == [g EXCEPT ![c0] = c0 + g[c0 * RESIZE_FACTOR]]
  <2>2. CASE k >= h
    BY <2>1, <2>2
  <2>3. CASE k < h
    <3>1. c0 \in Nat \ {0} /\ k \in Nat
      BY <2>3
    <3>2. g2 \in [Nat -> Nat] /\ g2[0] = 0
      BY <2>1, <3>1 DEF RESIZE_FACTOR
    <3>3. ASSUME NEW c \in Nat \ {0}, c + (k + 1) > h
          PROVE  g2[c] = IF c <= h THEN c + g2[c * RESIZE_FACTOR] ELSE 0
      <4>1. c * RESIZE_FACTOR # c0 /\ c * RESIZE_FACTOR \in Nat
        BY <3>1, <3>3 DEF RESIZE_FACTOR
      <4>2. g2[c * RESIZE_FACTOR] = g[c * RESIZE_FACTOR]
        BY <2>1, <4>1
      <4>3. CASE c = c0
        BY <2>1, <3>1, <4>2, <4>3
      <4>4. CASE c # c0
        BY <2>1, <3>1, <3>3, <4>2, <4>4
      <4> QED BY <4>3, <4>4
    <3> HIDE DEF g2
    <3>4. From(g2, k + 1)
      BY <3>2, <3>3
    <3> QED BY <3>1, <3>4
  <2> QED BY <2>2, <2>3
<1>3. S = Nat
  <2> HIDE DEF S
  <2>1. S \in SUBSET Nat
    BY DEF S
  <2> QED BY <1>1, <1>2, <2>1, NatSetInduction
<1>4. PICK g : From(g, h)
  BY <1>3
<1>5. Solves(g, h)
  <2>1. ASSUME NEW c \in Nat
        PROVE  g[c] = IF c <= h THEN c + g[c * RESIZE_FACTOR] ELSE 0
    <3>1. CASE c = 0
      BY <1>4, <3>1 DEF RESIZE_FACTOR
    <3>2. CASE c # 0
      BY <1>4, <3>2
    <3> QED BY <3>1, <3>2
  <2> QED BY <1>4, <2>1 DEF Solves
<1> QED BY <1>5

\* head_size_to_total_size is a value of such a function.
LEMMA TotalSolves ==
  ASSUME NEW h \in Nat
  PROVE  \E f : Solves(f, h) /\ head_size_to_total_size(h) = f[INITIAL_BLOCK_SIZE]
<1> DEFINE F == CHOOSE f : f = [c \in Nat |-> IF c <= h
                                             THEN c + f[c * RESIZE_FACTOR]
                                             ELSE 0]
<1>1. Solves(F, h)
  <2>1. \E f : f = [c \in Nat |-> IF c <= h THEN c + f[c * RESIZE_FACTOR] ELSE 0]
    BY TotalExists DEF Solves
  <2> QED BY <2>1, Zenon DEF Solves
<1>2. head_size_to_total_size(h) = F[INITIAL_BLOCK_SIZE]
  BY Zenon DEF head_size_to_total_size
<1> QED BY <1>1, <1>2

\* A list without slots has a total of 0.
LEMMA TotalOfNothing == head_size_to_total_size(0) = 0
BY TotalSolves DEF Solves, INITIAL_BLOCK_SIZE

\* head_size_to_total_size computes from the head alone what the blocks behind it
\* add up to, if each of them is half the one before.
LEMMA TotalOfList ==
  ASSUME NEW list \in Seq(Nat \ {0}), list # <<>>,
         list[Len(list)] = INITIAL_BLOCK_SIZE,
         \A i \in 1 .. (Len(list) - 1) : list[i] = 2 * list[i + 1]
  PROVE  head_size_to_total_size(Head(list)) = 2 * Head(list) - 1
<1> DEFINE h == list[1]
           n == Len(list)
<1>1. /\ n \in Nat \ {0} /\ h \in Nat \ {0} /\ Head(list) = h
      /\ \A i \in 1 .. n : list[i] \in Nat \ {0}
  OBVIOUS
<1>2. PICK f : Solves(f, h) /\ head_size_to_total_size(h) = f[INITIAL_BLOCK_SIZE]
  BY <1>1, TotalSolves
<1> DEFINE S == {k \in Nat : k < n => list[k + 1] <= h /\ f[list[k + 1]] = 2 * h - list[k + 1]}
<1>3. \A c \in Nat : f[c] = IF c <= h THEN c + f[c * RESIZE_FACTOR] ELSE 0
  BY <1>2 DEF Solves
<1>4. 0 \in S
  <2>1. h * RESIZE_FACTOR \in Nat /\ h * RESIZE_FACTOR > h /\ h \in Nat
    BY <1>1 DEF RESIZE_FACTOR
  <2>2. f[h] = h + f[h * RESIZE_FACTOR] /\ f[h * RESIZE_FACTOR] = 0
    BY <1>1, <1>3, <2>1
  <2> QED BY <1>1, <2>1, <2>2
<1>5. ASSUME NEW k \in S PROVE k + 1 \in S
  <2> SUFFICES ASSUME k + 1 < n
               PROVE  list[k + 2] <= h /\ f[list[k + 2]] = 2 * h - list[k + 2]
    OBVIOUS
  <2>1. /\ k + 1 \in 1 .. (n - 1) /\ k + 2 \in 1 .. n
        /\ list[k + 1] = 2 * list[k + 2]
    BY <1>1
  <2>2. list[k + 2] \in Nat \ {0} /\ list[k + 2] * RESIZE_FACTOR = list[k + 1]
    BY <1>1, <2>1 DEF RESIZE_FACTOR
  <2>3. list[k + 1] <= h /\ f[list[k + 1]] = 2 * h - list[k + 1]
    BY <2>1
  <2>4. list[k + 2] <= h
    BY <1>1, <2>1, <2>2, <2>3
  <2>5. f[list[k + 2]] = list[k + 2] + f[list[k + 1]]
    BY <1>3, <2>2, <2>4
  <2> QED BY <1>1, <2>1, <2>2, <2>3, <2>4, <2>5
<1>6. S = Nat
  <2> HIDE DEF S
  <2>1. S \in SUBSET Nat
    BY DEF S
  <2> QED BY <1>4, <1>5, <2>1, NatSetInduction
<1>7. n - 1 \in S
  <2> HIDE DEF S
  <2> QED BY <1>1, <1>6
<1>8. f[INITIAL_BLOCK_SIZE] = 2 * h - 1
  BY <1>1, <1>7 DEF INITIAL_BLOCK_SIZE
<1> QED BY <1>1, <1>2, <1>8
=============================================================================
