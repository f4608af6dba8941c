------------------------------- MODULE MCSlot -------------------------------
(***************************************************************************)
(* Model-checking instance of Slot.                                        *)
(***************************************************************************)
EXTENDS Slot, TLC

\* Threads are interchangeable.
Symmetry == Permutations(Threads)
=============================================================================
