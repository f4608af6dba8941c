---------------------------- MODULE MCNativeIds -----------------------------
(***************************************************************************)
(* Model-checking instance of NativeIds.                                   *)
(***************************************************************************)
EXTENDS NativeIds, TLC

\* The stores are interchangeable, and so is the memory.
Symmetry == Permutations(Stores) \cup Permutations(Addresses)
=============================================================================
