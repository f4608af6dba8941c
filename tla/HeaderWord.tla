----------------------------- MODULE HeaderWord -----------------------------
(***************************************************************************)
(* The header of SlotExclusive, whose life is complete, compared with the  *)
(* machine word of HeaderBits.                                             *)
(***************************************************************************)
EXTENDS SlotExclusive

CONSTANTS ID_BITS,       \* the width of the ordinal, 32 in the source
          READER_BITS    \* the width of the reader count, 31 in the source

ASSUME WidthsAssumption ==
    /\ RESERVED_ID = 2 ^ ID_BITS - 1
    /\ MAX_CONCURRENT_READS = 2 ^ READER_BITS - 2

\* The word that holds the fields of a state: the notification bit, the reader
\* bits and the ordinal, from the most significant one on.
Word(s) == ((IF s.notification THEN 1 ELSE 0) * 2 ^ READER_BITS + s.readers)
               * 2 ^ ID_BITS + s.id

Bits == INSTANCE HeaderBits WITH word <- Word(state)

-----------------------------------------------------------------------------
\* The helpers that look at the word find what the fields say: in particular no
\* reader count that increment_readers lets through looks like the write lock,
\* and an unoccupied word is told from an unlocked one.
PredicatesAgree ==
    LET word == Word(state)
    IN  /\ Bits!id_from_bits(word) = state.id
        /\ Bits!readers_from_bits(word) = state.readers
        /\ Bits!is_occupied(word) <=> is_occupied(state)
        /\ Bits!is_write_locked(word) <=> is_write_locked(state)
        /\ Bits!has_thread_blocking(word) <=> has_thread_blocking(state)
        /\ Bits!too_many_readers(word) <=> too_many_readers(state)

\* Every step of a slot changes the word as the bit helpers do: adding to the
\* reader count or masking a bit never carries into a neighbouring field.
ImplementsWord == Bits!Spec
=============================================================================
