--------------------------- MODULE MCMemoryOrder ----------------------------
(***************************************************************************)
(* Model-checking instance of MemoryOrder.                                 *)
(***************************************************************************)
EXTENDS MemoryOrder, TLC

\* Threads are interchangeable.
Symmetry == Permutations(Threads)
=============================================================================
