---------------------------- MODULE MCAllocation ----------------------------
(* The API server, the pool's worker manager and the worker controller       *)
(* together, on a few requests and worker names.                             *)
EXTENDS Allocation
=============================================================================
