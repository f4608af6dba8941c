------------------------------ MODULE MCBucket ------------------------------
(***************************************************************************)
(* Model-checking instance of Bucket, without symmetry: liveness is        *)
(* checked with the invariants.                                            *)
(***************************************************************************)
EXTENDS Bucket
=============================================================================
