------------------------- MODULE MCWorkerReconciler -------------------------
(* The worker controller on one worker, one or two allocations and a small   *)
(* budget of faults.                                                         *)
EXTENDS WorkerReconciler
=============================================================================
