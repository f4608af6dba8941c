----------------------------- MODULE HeaderState -----------------------------
(***************************************************************************)
(* The state word of a slot header (src/src/header.rs) and the helpers the *)
(* header's operations are written with.  The u64 is split into its three  *)
(* fields:                                                                 *)
(*   notification  the most significant bit, SET when no thread blocks;    *)
(*   readers       the next 31 bits, all ones (WRITE_LOCKED) when write    *)
(*                 locked;                                                 *)
(*   id            the low 32 bits: the ordinal of the element, or the     *)
(*                 next ordinal when the header is unoccupied.             *)
(* The helpers keep the names they have in the source.                     *)
(***************************************************************************)
EXTENDS Naturals

CONSTANTS RESERVED_ID,           \* the ordinal that is never given out
          MAX_CONCURRENT_READS   \* the largest number of read locks

ASSUME ReservedAssumption == RESERVED_ID \in Nat \ {0}
ASSUME ReadsAssumption == MAX_CONCURRENT_READS \in Nat \ {0}

\* The reader bits of a write locked header: one above the reader maximum.
WRITE_LOCKED == MAX_CONCURRENT_READS + 1

\* Every value of the u32 ordinal field.
Ordinals == 0 .. RESERVED_ID

\* Every value of the state word.
States == [notification : BOOLEAN, readers : 0 .. WRITE_LOCKED, id : Ordinals]

unoccupied_bits(id) == [notification |-> FALSE, readers |-> 0, id |-> id]

occupied_unlocked_bits(id) == [notification |-> TRUE, readers |-> 0, id |-> id]

write_locked_bits(id) ==
    [notification |-> TRUE, readers |-> WRITE_LOCKED, id |-> id]

\* state >> 32 != 0
is_occupied(s) == s.notification \/ s.readers # 0

\* Fault variant: waiting writers keep new readers out.
is_write_locked_or_waited(s) ==
    s.readers = WRITE_LOCKED \/ (s.readers > 0 /\ ~s.notification)

is_write_locked(s) == s.readers = WRITE_LOCKED

has_thread_blocking(s) == ~s.notification

mark_thread_blocking(s) == [s EXCEPT !.notification = FALSE]

unmark_thread_blocking(s) == [s EXCEPT !.notification = TRUE]

increment_readers(s) == [s EXCEPT !.readers = @ + 1]

decrement_readers(s) == [s EXCEPT !.readers = @ - 1]

\* Fault variant: the reader limit is checked one too late.
too_many_readers_late(s) == s.readers = MAX_CONCURRENT_READS + 1

\* increment_readers panics when the count is already at its maximum.
too_many_readers(s) == s.readers = MAX_CONCURRENT_READS

\* Fault variant: a slot whose ordinals ran out is put back into use.
may_reuse_always(id) == TRUE

\* The header remove leaves behind is reusable unless its ordinals ran out.
may_reuse(id) == id + 1 # RESERVED_ID
=============================================================================
