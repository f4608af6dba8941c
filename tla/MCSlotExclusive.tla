-------------------------- MODULE MCSlotExclusive ---------------------------
(***************************************************************************)
(* Model-checking instance of SlotExclusive and HeaderWord.                *)
(***************************************************************************)
EXTENDS HeaderWord, TLC

\* Threads are interchangeable.
Symmetry == Permutations(Threads)
=============================================================================
