----------------------------- MODULE HeaderBits -----------------------------
(***************************************************************************)
(* The state word of a header as the machine word it is in                 *)
(* src/src/header.rs: the bit helpers as written there, for fields of any  *)
(* width, and what the header's operations do to the word with them.       *)
(* HeaderState has the same helpers on a record of the three fields, on    *)
(* which Slot is built; HeaderWord compares what is done to the record     *)
(* with what this module does to the word.                                 *)
(***************************************************************************)
EXTENDS Naturals, Bitwise

CONSTANTS ID_BITS,       \* the width of the ordinal, 32 in the source
          READER_BITS    \* the width of the reader count, 31 in the source

VARIABLE word

vars == <<word>>

-----------------------------------------------------------------------------
\* u32::MAX, and the masks the source writes as !(1u32 << 31).
reserved_id == 2 ^ ID_BITS - 1
READER_MASK == 2 ^ READER_BITS - 1
UPPER_MAX == 2 ^ (READER_BITS + 1) - 1

\* Fault variant: the count may reach the pattern that means write locked.
max_reads_all_ones == 2 ^ READER_BITS - 1

max_concurrent_reads == 2 ^ READER_BITS - 2

\* shl and shr by the width of the ordinal; as u32 keeps the low bits.
Shl(n) == n * 2 ^ ID_BITS
Shr(n) == n \div 2 ^ ID_BITS
Low(n) == n % 2 ^ ID_BITS

thread_notification_mask == 2 ^ (ID_BITS + READER_BITS)

\* Every value of the word; ! of a word.
Words == 0 .. (2 * thread_notification_mask - 1)
Complement(n) == (2 * thread_notification_mask - 1) - n

unoccupied_bits(id) == id

occupied_unlocked_bits(id) == thread_notification_mask | unoccupied_bits(id)

\* Fault variant: only the reader bits are set.
write_locked_bits_marked(id) == id | Shl(READER_MASK)

write_locked_bits(id) == id | Shl(UPPER_MAX)

is_occupied(bits) == Shr(bits) # 0

id_from_bits(bits) == Low(bits)

readers_from_bits(bits) == Shr(bits) & READER_MASK

is_write_locked(bits) == readers_from_bits(bits) = READER_MASK

has_thread_blocking(bits) == (bits & thread_notification_mask) = 0

mark_thread_blocking(bits) == bits & Complement(thread_notification_mask)

unmark_thread_blocking(bits) == bits | thread_notification_mask

increment_readers(bits) == bits + Shl(1)

decrement_readers(bits) == bits - Shl(1)

\* increment_readers panics instead.
too_many_readers(bits) == readers_from_bits(bits) = max_concurrent_reads

-----------------------------------------------------------------------------
\* What the operations do to the word, each where its caller is in order.

\* Header::new
Init == word = unoccupied_bits(0)

\* occupy: the slot was offered for insertion, so its ordinals have not run out.
occupy ==
    /\ ~is_occupied(word)
    /\ id_from_bits(word) # reserved_id
    /\ word' = word | thread_notification_mask

lock_read ==
    /\ is_occupied(word)
    /\ ~is_write_locked(word)
    /\ ~too_many_readers(word)
    /\ word' = increment_readers(word)

unlock_read ==
    /\ readers_from_bits(word) # 0
    /\ ~is_write_locked(word)
    /\ word' = IF has_thread_blocking(word) /\ readers_from_bits(word) = 1
               THEN unmark_thread_blocking(decrement_readers(word))
               ELSE decrement_readers(word)

lock_write ==
    /\ word = occupied_unlocked_bits(id_from_bits(word))
    /\ word' = write_locked_bits(id_from_bits(word))

unlock_write ==
    /\ is_write_locked(word)
    /\ word' = occupied_unlocked_bits(id_from_bits(word))

\* remove from the unlocked, remove_locked from the write locked state.
remove ==
    /\ \/ word = occupied_unlocked_bits(id_from_bits(word))
       \/ is_write_locked(word)
    /\ word' = unoccupied_bits(id_from_bits(word) + 1)

block ==
    /\ readers_from_bits(word) > 0
    /\ word' = mark_thread_blocking(word)

\* reset, by an owner that may find a leaked guard's bits in the word.
reset ==
    /\ is_occupied(word)
    /\ word' = unoccupied_bits(id_from_bits(word))

Next == occupy \/ lock_read \/ unlock_read \/ lock_write \/ unlock_write
        \/ remove \/ block \/ reset

Spec == Init /\ [][Next]_vars
=============================================================================
