---------------------------- MODULE KubeWorkers -----------------------------
(***************************************************************************)
(* What the controller process sees of Kubernetes, as the code in src/     *)
(* uses it: the BuildKitWorker objects in the API server, the informer     *)
(* cache that every client.Get and client.List of the process reads        *)
(* (mgr.GetClient()), and the worker pods with the kubelet, the scheduler  *)
(* and the garbage collector behind them.                                  *)
(*                                                                         *)
(* A worker's name comes from GenerateName and is never used twice; names  *)
(* are numbered in creation order.  Update and Status().Update send the    *)
(* resourceVersion that was read and fail with a conflict when the object  *)
(* has changed since: the version is abstracted to the object's contents,  *)
(* so a write succeeds iff the copy it was computed from is the current    *)
(* one.  Delete sends no precondition.  Status fields that are written by  *)
(* one and the same Status().Update are one field: podName stands for      *)
(* PodName and CreatedAt, endpoint for PodIP, Endpoint and ReadyAt.        *)
(*                                                                         *)
(* The pods that carry a worker's name, one after the other, are its       *)
(* incarnations 1, 2, ...: podName and endpoint say which one they were    *)
(* recorded for, 0 standing for the empty field.                           *)
(***************************************************************************)
EXTENDS Integers, FiniteSets

CONSTANTS
  MaxWorkers,  \* bound: worker objects ever created
  Allocs,      \* allocations (one per token) a worker's spec may carry
  NoAlloc,     \* Spec.Allocation == nil
  MaxFaults    \* bound: crashes, failed calls, evictions, ten-minute delays together

ASSUME KubeAssumption ==
  /\ MaxWorkers \in Nat
  /\ MaxFaults \in Nat
  /\ NoAlloc \notin Allocs

VARIABLES
  worker,      \* [Names -> WorkerObject]: the API server
  cache,       \* [Names -> WorkerObject]: the informer cache
  pod,         \* [Names -> PodObject]: the pod that carries the worker's name
  podSeen,     \* [Names -> PodObject]: that pod in the informer cache
  aged,        \* [Names -> Nat]: latest incarnation created more than ten minutes ago
  lease,       \* [Allocs -> no token, token issued, token issued and Update sent]
  expired,     \* allocations whose ExpiresAt has passed
  poolUp,      \* the parent BuildKitPool exists
  faults       \* faults so far

kubeVars == <<worker, cache, pod, podSeen, aged, lease, expired, poolUp, faults>>

Names == 1..MaxWorkers

\* WorkerPhase.  No statement of src/ stores Running or Terminating.
Starting == {"", "Pending", "Provisioning"}
Serving == {"Idle", "Allocated"}
Phases == Starting \cup Serving \cup {"Failed"}

WorkerObject ==
  [st : {"unused", "live", "gone"}, deleting : BOOLEAN, fin : BOOLEAN,
   phase : Phases, podName : Nat, endpoint : Nat, alloc : Allocs \cup {NoAlloc}]

Blank(s) ==
  [st |-> s, deleting |-> FALSE, fin |-> FALSE, phase |-> "", podName |-> 0,
   endpoint |-> 0, alloc |-> NoAlloc]

\* "notready" is every pod that is scheduled, not ready and not failed.
PodPhases == {"none", "pending", "unschedulable", "notready", "ready", "failed"}
PodObject == [phase : PodPhases, inc : Nat]
NoPod == [phase |-> "none", inc |-> 0]

Live(n) == worker[n].st = "live"

KubeTypeOK ==
  /\ worker \in [Names -> WorkerObject]
  /\ cache \in [Names -> WorkerObject]
  /\ pod \in [Names -> PodObject]
  /\ podSeen \in [Names -> PodObject]
  /\ aged \in [Names -> Nat]
  /\ lease \in [Allocs -> {"none", "issued", "spent"}]
  /\ expired \subseteq Allocs
  /\ poolUp \in BOOLEAN
  /\ faults \in 0..MaxFaults

KubeInit ==
  /\ worker = [n \in Names |-> Blank("unused")]
  /\ cache = [n \in Names |-> Blank("unused")]
  /\ pod = [n \in Names |-> NoPod]
  /\ podSeen = [n \in Names |-> NoPod]
  /\ aged = [n \in Names |-> 0]
  /\ lease = [a \in Allocs |-> "none"]
  /\ expired = {}
  /\ poolUp = TRUE
  /\ faults = 0
-----------------------------------------------------------------------------
(* Writes to the API server. *)

\* GenerateName hands out the next name.
NextName(n) ==
  /\ worker[n].st = "unused"
  /\ \A m \in Names : m < n => worker[m].st # "unused"

Created(n) == [worker EXCEPT ![n] = Blank("live")]

\* The copy o carries the current resourceVersion.
Fresh(n, o) == Live(n) /\ worker[n] = o

\* Delete: a finalizer turns it into a deletion timestamp; a name that no
\* longer exists is NotFound, which every caller ignores or logs.
Deleted(n) ==
  IF ~Live(n) THEN worker
  ELSE IF worker[n].fin THEN [worker EXCEPT ![n].deleting = TRUE]
  ELSE [worker EXCEPT ![n] = Blank("gone")]

\* Update that removes the last finalizer of an object being deleted.
FinalizerRemoved(n) == [worker EXCEPT ![n] = Blank("gone")]

\* The pod's phase as the informer cache shows it.
PodView(n) == podSeen[n].phase
-----------------------------------------------------------------------------
(* Steps of the cluster. *)

Fault == faults < MaxFaults /\ faults' = faults + 1

InformerSync(n) ==
  /\ cache[n] # worker[n]
  /\ cache' = [cache EXCEPT ![n] = worker[n]]
  /\ UNCHANGED <<worker, pod, podSeen, aged, lease, expired, poolUp, faults>>

PodInformerSync(n) ==
  /\ podSeen[n] # pod[n]
  /\ podSeen' = [podSeen EXCEPT ![n] = pod[n]]
  /\ UNCHANGED <<worker, cache, pod, aged, lease, expired, poolUp, faults>>

PodTo(n, from, to) ==
  /\ pod[n].phase \in from
  /\ pod' = [pod EXCEPT ![n].phase = to]
  /\ UNCHANGED <<worker, cache, podSeen, aged, lease, expired, poolUp>>

PodScheduled(n) == PodTo(n, {"pending", "unschedulable"}, "notready") /\ UNCHANGED faults
PodBecomesReady(n) == PodTo(n, {"notready"}, "ready") /\ UNCHANGED faults
PodUnschedulable(n) == PodTo(n, {"pending"}, "unschedulable") /\ Fault
PodLosesReadiness(n) == PodTo(n, {"ready"}, "notready") /\ Fault
PodFails(n) == PodTo(n, {"notready", "ready"}, "failed") /\ Fault
PodEvicted(n) == PodTo(n, PodPhases \ {"none"}, "none") /\ Fault

\* The garbage collector removes a pod whose owner is gone.
GarbageCollect(n) ==
  worker[n].st = "gone" /\ PodTo(n, PodPhases \ {"none"}, "none") /\ UNCHANGED faults

\* Ten minutes (shared.WorkerStuckThreshold, maxPendingDuration) go by while
\* the worker is still being brought up.
TenMinutesPass(n) ==
  /\ Live(n) /\ worker[n].phase \in Starting
  /\ pod[n].phase # "none" /\ aged[n] < pod[n].inc
  /\ Fault
  /\ aged' = [aged EXCEPT ![n] = pod[n].inc]
  /\ UNCHANGED <<worker, cache, pod, podSeen, lease, expired, poolUp>>

AllocationExpires(a) ==
  /\ lease[a] # "none" /\ a \notin expired
  /\ expired' = expired \cup {a}
  /\ UNCHANGED <<worker, cache, pod, podSeen, aged, lease, poolUp, faults>>

PoolDeleted ==
  /\ poolUp
  /\ poolUp' = FALSE
  /\ Fault
  /\ UNCHANGED <<worker, cache, pod, podSeen, aged, lease, expired>>

KubeProgress(n) ==
  \/ InformerSync(n) \/ PodInformerSync(n) \/ PodScheduled(n)
  \/ PodBecomesReady(n) \/ GarbageCollect(n)

KubeFault(n) ==
  \/ PodUnschedulable(n) \/ PodLosesReadiness(n) \/ PodFails(n)
  \/ PodEvicted(n) \/ TenMinutesPass(n)
=============================================================================
