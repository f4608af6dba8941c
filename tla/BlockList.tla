----------------------------- MODULE BlockList ------------------------------
(***************************************************************************)
(* The blocks of a bucket as pure functions (src/src/bucket.rs and         *)
(* src/src/block.rs): the lengths blocks are given, where a logical slot   *)
(* is placed in its block, and how many slots a list of blocks has.  A     *)
(* list is the sequence of its blocks' lengths, the head first.            *)
(***************************************************************************)
EXTENDS Naturals, Sequences

CONSTANT U32        \* the number of values of a u32

\* A power of two: so is each of its divisors, and the double of a smaller one
\* divides it too.
ASSUME U32Assumption ==
    /\ U32 \in Nat \ {0, 1}
    /\ \A d \in 1 .. (U32 - 1) : U32 % d = 0 => U32 % (2 * d) = 0

INITIAL_BLOCK_SIZE == 1
RESIZE_FACTOR == 2

\* The length of a list's head, 0 if there is none.
head_len(list) == IF list = <<>> THEN 0 ELSE Head(list)

\* The size of the block expand puts in front of a list.
block_size(list) == IF list = <<>> THEN INITIAL_BLOCK_SIZE
                                   ELSE (head_len(list) * RESIZE_FACTOR) % U32

Lesser(a, b) == IF a <= b THEN a ELSE b

\* Fault variant: a factor that shares a divisor with the block lengths.
scramble_slot_even(len, slot) == ((slot * 2) % U32) % len

\* Block::scramble_slot: the lengths are powers of two, so masking with
\* len - 1 is the remainder.
scramble_slot(len, slot) == ((slot * 3) % U32) % len

\* Block::slot_address
slot_address(len, slot) == <<len, scramble_slot(len, slot)>>

\* Fault variant: the blocks behind the head are taken to be as large as it.
head_size_to_total_size_double(head_size) == 2 * head_size

\* Doubling a head of half the range overflows: in expand, and in the last turn
\* of the loop in head_size_to_total_size, which tries the next size as well.
doubling_overflows(head_size) == head_size * RESIZE_FACTOR >= U32

\* The sum of the block lengths up to that of the head, unless doubling
\* overflows: then the loop panics or, having wrapped to 0, goes on for ever.
head_size_to_total_size(head_size) ==
    LET total_from[considered \in Nat] ==
            IF considered <= head_size
            THEN considered + total_from[considered * RESIZE_FACTOR]
            ELSE 0
    IN  total_from[INITIAL_BLOCK_SIZE]

\* The slots of a list with the last ones of its head left out.  The inner
\* subtraction wraps when used is past the end, and then so does the outer.
touched_size(head_size, used) ==
    (head_size_to_total_size(head_size) + U32
        - ((head_size + U32 - used) % U32)) % U32
=============================================================================
