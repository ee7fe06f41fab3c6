---------------------------- MODULE MCPoolScaler ----------------------------
(* The pool's worker manager and the worker controller together, on a few    *)
(* worker names and with no allocations.                                     *)
EXTENDS PoolScaler
=============================================================================
