------------------------------ MODULE MCStore -------------------------------
(***************************************************************************)
(* Model-checking instance of Store.                                       *)
(***************************************************************************)
EXTENDS Store, TLC

\* Threads are interchangeable, and so are the elements.
Symmetry == Permutations(Threads) \cup Permutations(Elements)
=============================================================================
