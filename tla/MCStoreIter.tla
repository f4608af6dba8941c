---------------------------- MODULE MCStoreIter -----------------------------
(***************************************************************************)
(* Model-checking instance of StoreIter.                                   *)
(***************************************************************************)
EXTENDS StoreIter
=============================================================================
