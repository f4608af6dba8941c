--------------------------- MODULE SlotExclusive ----------------------------
(***************************************************************************)
(* A slot at the end of its shared life.  When no call runs and no guard   *)
(* is borrowed from the store any more, its owner may consume it: the      *)
(* owned iterator resets the header and takes the element (Block::take),   *)
(* and dropping the blocks drops what is left (Slot::drop).  Both look at  *)
(* the header without locking it, and assert in debug builds that it is    *)
(* unlocked.                                                               *)
(*                                                                         *)
(* A guard ends its borrow without unlocking when its user leaks it with   *)
(* mem::forget, which is safe Rust.                                        *)
(***************************************************************************)
EXTENDS Slot

VARIABLES
    phase,    \* the store is shared, consumed by into_iter, or dropped
    leaked,   \* was a guard leaked?
    gone      \* how often each element was moved out or dropped

exclusiveVars == <<vars, phase, leaked, gone>>

ExclusiveInit ==
    /\ Init
    /\ phase = "shared"
    /\ leaked = FALSE
    /\ gone = [id \in Ordinals |-> 0]

\* An element moves out of the cell in the steps of take and RemoveLocked.
Shared ==
    /\ phase = "shared"
    /\ Next
    /\ gone' = IF cell # NoElement /\ cell' = NoElement
               THEN [gone EXCEPT ![cell] = @ + 1]
               ELSE gone
    /\ UNCHANGED <<phase, leaked>>

\* mem::forget of a guard: the header stays as it is.
Leak(t) ==
    /\ phase = "shared"
    /\ pc[t] = "idle"
    /\ \E g \in GuardsOf(t) : /\ read_locks' = read_locks \ {g}
                              /\ write_locks' = write_locks \ {g}
    /\ leaked' = TRUE
    /\ UNCHANGED <<state, slotVars, pc, call, current, result, parkVars, phase,
                   gone>>

\* The borrow checker gives the owner exclusive access.
Exclusive == Quiescent /\ read_locks = {} /\ write_locks = {}

\* Fault variant: the header stays occupied.
reset_nothing == state

\* The header Header::reset leaves behind.
reset == unoccupied_bits(state.id)

\* IntoIter reaches the slot: Block::take.
Block_take ==
    /\ phase = "shared"
    /\ Exclusive
    /\ phase' = "consumed"
    /\ IF is_occupied(state)
       THEN /\ state' = reset
            /\ gone' = [gone EXCEPT ![state.id] = @ + 1]
            /\ cell' = NoElement
       ELSE UNCHANGED <<state, gone, cell>>
    /\ UNCHANGED <<vacant, issued, pc, call, current, result, parkVars,
                   guardVars, leaked>>

\* The store or the iterator is dropped: Slot::drop.
Slot_drop ==
    /\ phase \in {"shared", "consumed"}
    /\ Exclusive
    /\ phase' = "dropped"
    /\ IF is_occupied(state)
       THEN /\ gone' = [gone EXCEPT ![state.id] = @ + 1]
            /\ cell' = NoElement
       ELSE UNCHANGED <<gone, cell>>
    /\ UNCHANGED <<state, vacant, issued, pc, call, current, result, parkVars,
                   guardVars, leaked>>

ExclusiveNext ==
    \/ Shared
    \/ \E t \in Threads : Leak(t)
    \/ Block_take
    \/ Slot_drop

ExclusiveSpec == ExclusiveInit /\ [][ExclusiveNext]_exclusiveVars

-----------------------------------------------------------------------------
\* Every element that was inserted has left the store once when it is dropped,
\* by a removal, an iterator or the drop, even if a guard for it was leaked;
\* and never twice before (Slot::drop asks the header alone).
ElementsLeaveOnce ==
    \A id \in Ordinals :
        /\ gone[id] <= 1
        /\ phase = "dropped" => (id \in issued <=> gone[id] = 1)

\* When every guard was dropped, whatever waiters came and gave up meanwhile,
\* the header has no readers: the assertions of Header::reset and Header::drop.
ReadersBalanced == Exclusive /\ ~leaked => state.readers = 0

\* A guard that is leaked locks its element for ever but takes nothing from the
\* others: what the guards, the removals and the waiters rely on holds although
\* the header counts readers, or a writer, that are no more.
SafeWithLeaks ==
    /\ ExclusiveAccess
    /\ GuardsKeepElement
    /\ DebugAsserts
    /\ NoLostWakeup
=============================================================================
