----------------------- MODULE WorkerReconcilerProofs -----------------------
(***************************************************************************)
(* Proofs about the worker controller, for any number of workers,          *)
(* allocations and faults.                                                 *)
(*                                                                         *)
(* The properties are not inductive by themselves, because the controller  *)
(* acts on cached copies: the invariant has to say what a stale copy can   *)
(* still claim.  A cached finalizer is still there on the live object, and *)
(* a live object that serves is never cached in a phase that makes         *)
(* reconcilePending create a pod.                                          *)
(***************************************************************************)
EXTENDS WorkerReconciler, TLAPS

\* A name that was never handed out has no object, no cached copy and no pod.
UnusedIsBlank ==
  \A n \in Names : worker[n].st = "unused" =>
    /\ ~worker[n].fin
    /\ cache[n].st # "live" /\ ~cache[n].fin
    /\ pod[n].phase = "none"

\* The finalizer in a cached copy is still on the object, if that still exists.
CachedFinalizerHolds == \A n \in Names : Live(n) /\ cache[n].fin => worker[n].fin

\* A serving worker is not cached in a phase handled by reconcilePending.
ServingNotCachedPending ==
  \A n \in Names :
    Live(n) /\ worker[n].phase \in Serving /\ cache[n].st = "live"
      => cache[n].phase \notin {"", "Pending"}

\* reconcilePending holds a copy in the phase that sent it there.
HeldCopyPending == recon.op = "podCreated" => recon.obj.phase \in {"", "Pending"}

IInv ==
  /\ WRTypeOK
  /\ UnusedIsBlank
  /\ CachedFinalizerHolds
  /\ ServingNotCachedPending
  /\ HeldCopyPending
  /\ PodUnderFinalizer
-----------------------------------------------------------------------------
\* Blank objects are worker objects.
LEMMA BlankType ==
  ASSUME NEW s \in {"unused", "live", "gone"}
  PROVE  Blank(s) \in WorkerObject
BY DEF Blank, WorkerObject, Phases, Starting, Serving

\* The API server's writes keep the worker objects' type.
LEMMA WriteType ==
  ASSUME worker \in [Names -> WorkerObject], NEW n \in Names
  PROVE  /\ Created(n) \in [Names -> WorkerObject]
         /\ Deleted(n) \in [Names -> WorkerObject]
         /\ FinalizerRemoved(n) \in [Names -> WorkerObject]
         /\ \A o \in WorkerObject : [worker EXCEPT ![n] = o] \in [Names -> WorkerObject]
<1>1. Blank("live") \in WorkerObject /\ Blank("gone") \in WorkerObject
  BY BlankType
<1>2. [worker[n] EXCEPT !.deleting = TRUE] \in WorkerObject
  BY DEF WorkerObject
<1> QED
  BY <1>1, <1>2 DEF Created, Deleted, FinalizerRemoved

\* Every initial state satisfies the inductive invariant.
LEMMA InvInit == WRInit => IInv
<1> SUFFICES ASSUME WRInit PROVE IInv
  OBVIOUS
<1>1. Blank("unused") \in WorkerObject
  BY BlankType
<1>2. WRTypeOK
  BY <1>1, KubeAssumption DEF WRInit, KubeInit, WRTypeOK, KubeTypeOK, NoRecon, Recon, NoPod,
     PodObject, PodPhases
<1> QED
  BY <1>2 DEF WRInit, KubeInit, IInv, UnusedIsBlank, CachedFinalizerHolds, HeldCopyPending,
     ServingNotCachedPending, PodUnderFinalizer, Live, Blank, NoPod, NoRecon

\* Status().Update writes a worker object over a worker object.
LEMMA UpdateStatusType ==
  ASSUME WRTypeOK, NEW n \in Names, NEW o, NEW new \in WorkerObject, UpdateStatus(n, o, new)
  PROVE  WRTypeOK'
<1>1. worker' \in [Names -> WorkerObject]
  BY WriteType DEF WRTypeOK, KubeTypeOK, UpdateStatus
<1> QED
  BY <1>1 DEF WRTypeOK, KubeTypeOK, UpdateStatus, Recon

\* A fault keeps the count within its bound.
LEMMA FaultType ==
  ASSUME faults \in 0..MaxFaults, Fault
  PROVE  faults' \in 0..MaxFaults
BY KubeAssumption DEF Fault

\* Every reconciliation of the worker controller keeps the types.
LEMMA ReconcileType ==
  ASSUME WRTypeOK, NEW n \in Names, Reconcile(n)
  PROVE  WRTypeOK'
<1> USE DEF WRTypeOK, KubeTypeOK
<1>0. worker[n] \in WorkerObject /\ cache[n] \in WorkerObject /\ pod[n] \in PodObject
      /\ podSeen[n] \in PodObject
  OBVIOUS
<1>1. \A p \in Phases : [cache[n] EXCEPT !.phase = p] \in WorkerObject
  BY <1>0 DEF WorkerObject
<1>2. CASE AddFinalizer(n)
  <2>1. [worker[n] EXCEPT !.fin = TRUE] \in WorkerObject
    BY <1>0 DEF WorkerObject
  <2> QED
    BY <1>2, <2>1 DEF AddFinalizer
<1>3. CASE ParentPoolNotFound(n)
  BY <1>1, <1>3, UpdateStatusType DEF ParentPoolNotFound, Phases
<1>4. CASE CreatePod(n)
  <2>0. pod[n].inc + 1 \in Nat
    BY <1>0 DEF PodObject
  <2>1. [phase |-> "pending", inc |-> pod[n].inc + 1] \in PodObject
    BY <2>0 DEF PodObject, PodPhases
  <2>2. recon' \in Recon /\ recon'.n \in Names
    BY <1>0, <1>4, <2>0 DEF CreatePod, Recon
  <2> QED
    BY <1>4, <2>1, <2>2 DEF CreatePod
<1>5. CASE PodAlreadyExists(n)
  BY <1>1, <1>5, UpdateStatusType DEF PodAlreadyExists, Phases, Starting
<1>6. CASE CreatePodFails(n)
  <2>1. [worker[n] EXCEPT !.phase = "Failed"] \in WorkerObject
    BY <1>0 DEF WorkerObject, Phases
  <2> QED
    BY <1>6, <2>1, FaultType DEF CreatePodFails
<1>7. CASE ProvisioningStep(n)
  <2>1. [cache[n] EXCEPT !.phase = "Idle", !.endpoint = podSeen[n].inc] \in WorkerObject
    BY <1>0 DEF WorkerObject, PodObject, Phases, Serving
  <2>2. {"Pending", "Failed"} \subseteq Phases
    BY DEF Phases, Starting
  <2> QED
    BY <1>1, <1>7, <2>1, <2>2, UpdateStatusType DEF ProvisioningStep
<1>8. CASE DeleteExpired(n)
  BY <1>8, WriteType DEF DeleteExpired
<1>9. CASE RunningStep(n)
  <2>1. (IF PodView(n) # "ready" THEN "Failed" ELSE DesiredPhase(cache[n])) \in Phases
    BY DEF DesiredPhase, Phases, Serving
  <2> QED
    BY <1>1, <1>9, <2>1, UpdateStatusType DEF RunningStep
<1>10. CASE DeletePod(n)
  <2>1. pod' \in [Names -> PodObject]
    BY <1>0, <1>10 DEF DeletePod, PodObject, PodPhases
  <2>2. recon' \in Recon /\ recon'.n \in Names
    BY <1>0, <1>10 DEF DeletePod, Recon
  <2> QED
    BY <1>10, <2>1, <2>2 DEF DeletePod
<1> QED
  BY <1>2, <1>3, <1>4, <1>5, <1>6, <1>7, <1>8, <1>9, <1>10 DEF Reconcile

\* So do the cluster's steps on one worker.
LEMMA KubeType ==
  ASSUME WRTypeOK, NEW n \in Names, KubeProgress(n) \/ KubeFault(n), UNCHANGED recon
  PROVE  WRTypeOK'
<1> USE DEF WRTypeOK, KubeTypeOK
<1>1. CASE InformerSync(n)
  BY <1>1 DEF InformerSync
<1>2. CASE PodInformerSync(n)
  BY <1>2 DEF PodInformerSync
<1>3. CASE TenMinutesPass(n)
  BY <1>3, FaultType DEF TenMinutesPass, PodObject
<1>4. \A from, to : to \in PodPhases /\ PodTo(n, from, to) => pod' \in [Names -> PodObject]
  BY DEF PodTo, PodObject
<1>5. CASE PodScheduled(n) \/ PodBecomesReady(n) \/ GarbageCollect(n)
  BY <1>4, <1>5 DEF PodScheduled, PodBecomesReady, GarbageCollect, PodTo, PodPhases
<1>6. CASE PodUnschedulable(n) \/ PodLosesReadiness(n) \/ PodFails(n) \/ PodEvicted(n)
  BY <1>4, <1>6, FaultType
     DEF PodUnschedulable, PodLosesReadiness, PodFails, PodEvicted, PodTo, PodPhases
<1> QED
  BY <1>1, <1>2, <1>3, <1>5, <1>6 DEF KubeProgress, KubeFault

\* Storing an allocation keeps a worker object well formed.
LEMMA AllocationType ==
  ASSUME NEW w \in WorkerObject, NEW a \in Allocs
  PROVE  [w EXCEPT !.alloc = a] \in WorkerObject
BY DEF WorkerObject

\* Every step keeps the types.
LEMMA TypeStep ==
  ASSUME WRTypeOK, [WRNext]_wrVars
  PROVE  WRTypeOK'
<1> USE DEF WRTypeOK, KubeTypeOK
<1>1. ASSUME NEW n \in Names, Reconcile(n) PROVE WRTypeOK'
  BY <1>1, ReconcileType
<1>2. NoRecon \in Recon /\ NoRecon.op = "none"
  BY BlankType DEF NoRecon, Recon
<1>3. CASE RecordPod
  <2>1. recon.n \in Names /\ recon.inc \in Nat /\ worker[recon.n] \in WorkerObject
    BY <1>3 DEF RecordPod, Recon
  <2>2. [worker[recon.n] EXCEPT !.phase = "Provisioning", !.podName = recon.inc] \in WorkerObject
    BY <2>1 DEF WorkerObject, Phases, Starting
  <2>3. worker' \in [Names -> WorkerObject]
    BY <1>3, <2>1, <2>2 DEF RecordPod
  <2> QED
    BY <1>2, <1>3, <2>3 DEF RecordPod
<1>4. CASE RemoveFinalizer
  <2>1. worker' \in [Names -> WorkerObject]
    BY <1>4, WriteType DEF RemoveFinalizer
  <2> QED
    BY <1>2, <1>4, <2>1 DEF RemoveFinalizer
<1>5. CASE ReconcileAborted
  BY <1>2, <1>5, FaultType DEF ReconcileAborted
<1>6. CASE Restart
  BY <1>2, <1>6, FaultType DEF Restart
<1>7. CASE ClusterStep
  <2>1. ASSUME NEW a \in Allocs, AllocationExpires(a), UNCHANGED recon PROVE WRTypeOK'
    BY <2>1 DEF AllocationExpires
  <2> QED
    BY <1>7, <2>1, KubeType DEF ClusterStep
<1>8. CASE PoolDeleted /\ UNCHANGED recon
  BY <1>8, FaultType DEF PoolDeleted
<1>9. CASE EnvFault
  BY <1>9, FaultType DEF EnvFault
<1>10. ASSUME NEW n \in Names, EnvCreate(n) \/ EnvDelete(n) PROVE WRTypeOK'
  BY <1>10, WriteType DEF EnvCreate, EnvDelete, EnvUnchanged
<1>11. ASSUME NEW a \in Allocs, EnvIssue(a) PROVE WRTypeOK'
  BY <1>11 DEF EnvIssue, EnvUnchanged
<1>12. ASSUME NEW n \in Names, NEW a \in Allocs, EnvAllocate(n, a) PROVE WRTypeOK'
  <2>1. [worker[n] EXCEPT !.alloc = a] \in WorkerObject
    BY AllocationType
  <2>2. worker' \in [Names -> WorkerObject] /\ lease' \in [Allocs -> {"none", "issued", "spent"}]
    BY <1>12, <2>1 DEF EnvAllocate
  <2> QED
    BY <1>12, <2>2 DEF EnvAllocate, EnvUnchanged
<1>13. CASE UNCHANGED wrVars
  BY <1>13 DEF wrVars
<1> QED
  BY <1>1, <1>3, <1>4, <1>5, <1>6, <1>7, <1>8, <1>9, <1>10, <1>11, <1>12, <1>13
     DEF WRNext, WRStep, WREnv
-----------------------------------------------------------------------------
\* What most writes do to an object: end it, or keep its existence, drop no
\* finalizer and enter no serving phase.
MildWrite(m) ==
  \/ worker[m].st = "live" /\ worker'[m].st = "gone"
  \/ /\ worker'[m].st = worker[m].st
     /\ (worker'[m].fin <=> worker[m].fin) \/ (worker[m].st = "live" /\ worker'[m].fin)
     /\ worker'[m].phase \in Serving => worker'[m].phase = worker[m].phase

\* Such writes, with the caches and the pods left alone, keep the invariant's
\* clauses on the objects.
LEMMA MildWritesInv ==
  ASSUME IInv, UNCHANGED <<cache, pod>>, \A m \in Names : MildWrite(m)
  PROVE  /\ UnusedIsBlank' /\ CachedFinalizerHolds'
         /\ ServingNotCachedPending' /\ PodUnderFinalizer'
<1>1. UnusedIsBlank'
  BY DEF IInv, MildWrite, UnusedIsBlank
<1>2. CachedFinalizerHolds' /\ PodUnderFinalizer'
  BY DEF IInv, MildWrite, CachedFinalizerHolds, PodUnderFinalizer, Live
<1>3. ServingNotCachedPending'
  BY DEF IInv, MildWrite, ServingNotCachedPending, Live
<1> QED
  BY <1>1, <1>2, <1>3

\* A Delete is such a write.
LEMMA DeletedIsMild ==
  ASSUME IInv, NEW n \in Names, worker' = Deleted(n)
  PROVE  \A m \in Names : MildWrite(m)
<1>1. worker \in [Names -> WorkerObject]
  BY DEF IInv, WRTypeOK, KubeTypeOK
<1>2. \A m \in Names : m # n => worker'[m] = worker[m]
  BY <1>1 DEF Deleted
<1>3. MildWrite(n)
  BY <1>1 DEF Deleted, Blank, Live, WorkerObject, MildWrite
<1> QED
  BY <1>2, <1>3 DEF MildWrite

\* A Status().Update that leaves metadata alone, and moves to a serving phase
\* only from a copy that reconcilePending does not handle, keeps the invariant.
LEMMA UpdateStatusInv ==
  ASSUME IInv, NEW n \in Names, NEW new \in WorkerObject, UpdateStatus(n, cache[n], new),
         new.st = cache[n].st, new.fin = cache[n].fin,
         new.phase \in Serving => cache[n].phase \notin {"", "Pending"}
  PROVE  IInv'
<1>1. WRTypeOK'
  BY UpdateStatusType DEF IInv
<1>2. /\ worker' = [worker EXCEPT ![n] = new] /\ worker \in [Names -> WorkerObject]
      /\ UNCHANGED <<cache, pod, recon>> /\ worker[n] = cache[n] /\ Live(n)
  BY DEF UpdateStatus, Fresh, IInv, WRTypeOK, KubeTypeOK
<1> QED
  BY <1>1, <1>2 DEF IInv, UnusedIsBlank, CachedFinalizerHolds, ServingNotCachedPending,
     HeldCopyPending, PodUnderFinalizer, Live

\* Every reconciliation of the worker controller keeps the invariant.
LEMMA ReconcileInv ==
  ASSUME IInv, NEW n \in Names, Reconcile(n)
  PROVE  IInv'
<1>0. WRTypeOK'
  BY ReconcileType DEF IInv
<1>a. cache[n] \in WorkerObject /\ podSeen[n] \in PodObject
  BY DEF IInv, WRTypeOK, KubeTypeOK
<1>b. \A p \in Phases :
        LET new == [cache[n] EXCEPT !.phase = p]
        IN  /\ new \in WorkerObject /\ new.st = cache[n].st
            /\ new.fin = cache[n].fin /\ new.phase = p
  BY <1>a DEF WorkerObject
<1>c. worker \in [Names -> WorkerObject] /\ pod \in [Names -> PodObject]
  BY DEF IInv, WRTypeOK, KubeTypeOK
<1>d. {"Failed", "Pending", "Provisioning"} \subseteq Phases \ Serving
  BY DEF Phases, Starting, Serving
<1> DEFINE Clauses == UnusedIsBlank /\ CachedFinalizerHolds /\ ServingNotCachedPending
                        /\ HeldCopyPending /\ PodUnderFinalizer
<1>e. Clauses /\ (Clauses' => IInv')
  BY <1>0 DEF IInv
<1>1. CASE AddFinalizer(n)
  <2>1. /\ worker' = [worker EXCEPT ![n] = [worker[n] EXCEPT !.fin = TRUE]]
        /\ UNCHANGED <<cache, pod, recon>> /\ Live(n)
    BY <1>1 DEF AddFinalizer, Fresh
  <2>2. \A m \in Names : MildWrite(m)
    BY <1>c, <2>1 DEF WorkerObject, Live, MildWrite
  <2> QED
    BY <1>e, <2>1, <2>2, MildWritesInv DEF HeldCopyPending
<1>2. CASE ParentPoolNotFound(n)
  BY <1>b, <1>d, <1>2, UpdateStatusInv DEF ParentPoolNotFound
<1>3. CASE CreatePod(n)
  <2>1. /\ UNCHANGED <<worker, cache>>
        /\ cache[n].st = "live" /\ cache[n].fin /\ cache[n].phase \in {"", "Pending"}
        /\ recon'.obj = cache[n]
        /\ \A m \in Names : m # n => pod'[m] = pod[m]
    BY <1>3, <1>c DEF CreatePod, Dispatched, Fetched
  <2>2. worker[n].st # "unused" /\ (Live(n) => worker[n].fin)
    BY <1>e, <2>1 DEF UnusedIsBlank, CachedFinalizerHolds
  <2> QED
    BY <1>e, <2>1, <2>2 DEF UnusedIsBlank, CachedFinalizerHolds, ServingNotCachedPending,
       HeldCopyPending, PodUnderFinalizer, Live
<1>4. CASE PodAlreadyExists(n)
  BY <1>b, <1>d, <1>4, UpdateStatusInv DEF PodAlreadyExists
<1>5. CASE CreatePodFails(n)
  <2>1. /\ worker' = [worker EXCEPT ![n] = [worker[n] EXCEPT !.phase = "Failed"]]
        /\ UNCHANGED <<cache, pod, recon>>
    BY <1>5 DEF CreatePodFails
  <2>2. \A m \in Names : MildWrite(m)
    BY <1>c, <1>d, <2>1 DEF WorkerObject, MildWrite
  <2> QED
    BY <1>e, <2>1, <2>2, MildWritesInv DEF HeldCopyPending
<1>6. CASE ProvisioningStep(n)
  <2> DEFINE ready == [cache[n] EXCEPT !.phase = "Idle", !.endpoint = podSeen[n].inc]
  <2>1. ready \in WorkerObject /\ ready.st = cache[n].st /\ ready.fin = cache[n].fin
    BY <1>a DEF WorkerObject, PodObject, Phases, Serving
  <2>2. cache[n].phase = "Provisioning"
    BY <1>6 DEF ProvisioningStep
  <2>3. CASE UpdateStatus(n, cache[n], ready)
    BY <2>1, <2>2, <2>3, UpdateStatusInv
  <2>4. ASSUME NEW p \in {"Pending", "Failed"}, UpdateStatus(n, cache[n], [cache[n] EXCEPT !.phase = p])
        PROVE  IInv'
    BY <1>b, <1>d, <2>2, <2>4, UpdateStatusInv
  <2> QED
    BY <1>6, <2>3, <2>4 DEF ProvisioningStep
<1>7. CASE DeleteExpired(n)
  <2>1. worker' = Deleted(n) /\ UNCHANGED <<cache, pod, recon>>
    BY <1>7 DEF DeleteExpired
  <2> QED
    BY <1>e, <2>1, DeletedIsMild, MildWritesInv DEF HeldCopyPending
<1>8. CASE RunningStep(n)
  <2> DEFINE p == IF PodView(n) # "ready" THEN "Failed" ELSE DesiredPhase(cache[n])
  <2>1. p \in Phases /\ UpdateStatus(n, cache[n], [cache[n] EXCEPT !.phase = p])
    BY <1>8 DEF RunningStep, DesiredPhase, Phases, Serving
  <2>2. cache[n].phase \notin {"", "Pending"}
    BY <1>8 DEF RunningStep, Serving
  <2> HIDE DEF p
  <2> QED
    BY <1>b, <2>1, <2>2, UpdateStatusInv
<1>9. CASE DeletePod(n)
  <2>1. /\ UNCHANGED <<worker, cache>> /\ recon'.op # "podCreated"
        /\ \A m \in Names : pod'[m].phase \in {"none", pod[m].phase}
    BY <1>9, <1>c DEF DeletePod, PodObject
  <2> QED
    BY <1>e, <2>1 DEF UnusedIsBlank, CachedFinalizerHolds, ServingNotCachedPending,
       HeldCopyPending, PodUnderFinalizer, Live
<1> QED
  BY <1>1, <1>2, <1>3, <1>4, <1>5, <1>6, <1>7, <1>8, <1>9 DEF Reconcile

\* So do the cluster's steps on one worker.
LEMMA KubeInv ==
  ASSUME IInv, NEW n \in Names, KubeProgress(n) \/ KubeFault(n), UNCHANGED recon
  PROVE  IInv'
<1>0. WRTypeOK'
  BY KubeType DEF IInv
<1>a. cache \in [Names -> WorkerObject] /\ pod \in [Names -> PodObject]
  BY DEF IInv, WRTypeOK, KubeTypeOK
<1> USE DEF IInv, UnusedIsBlank, CachedFinalizerHolds, ServingNotCachedPending,
       HeldCopyPending, PodUnderFinalizer, Live
<1>1. CASE InformerSync(n)
  BY <1>0, <1>a, <1>1 DEF InformerSync, Serving
<1>2. CASE UNCHANGED <<worker, cache, pod>>
  BY <1>0, <1>2
<1>3. ASSUME NEW from, NEW to, PodTo(n, from, to), "none" \notin from PROVE IInv'
  <2>1. UNCHANGED <<worker, cache>> /\ pod[n].phase # "none"
        /\ \A m \in Names : m # n => pod'[m] = pod[m]
    BY <1>a, <1>3 DEF PodTo
  <2> QED
    BY <1>0, <2>1
<1> QED
  BY <1>1, <1>2, <1>3 DEF KubeProgress, KubeFault, PodInformerSync, TenMinutesPass, PodScheduled,
     PodBecomesReady, GarbageCollect, PodUnschedulable, PodLosesReadiness, PodFails, PodEvicted

\* And so does every step.
LEMMA InvStep ==
  ASSUME IInv, [WRNext]_wrVars
  PROVE  IInv'
<1>a. worker \in [Names -> WorkerObject]
      /\ (recon.op # "none" => recon.n \in Names)
  BY DEF IInv, WRTypeOK, KubeTypeOK
<1> DEFINE Clauses == UnusedIsBlank /\ CachedFinalizerHolds /\ ServingNotCachedPending
                        /\ PodUnderFinalizer
<1>b. Clauses /\ HeldCopyPending
  BY DEF IInv
<1>c. ASSUME Clauses', HeldCopyPending' PROVE IInv'
  BY <1>c, TypeStep DEF IInv
<1>d. CASE UNCHANGED recon \/ recon' = NoRecon
  <2>a. NoRecon.op = "none"
    BY DEF NoRecon
  <2>1. HeldCopyPending'
    BY <1>b, <1>d, <2>a DEF HeldCopyPending
  <2>2. CASE UNCHANGED <<worker, cache, pod>>
    BY <1>b, <1>c, <2>1, <2>2 DEF UnusedIsBlank, CachedFinalizerHolds,
       ServingNotCachedPending, PodUnderFinalizer, Live
  <2>3. CASE RecordPod
    <3>1. recon.n \in Names /\ UNCHANGED <<cache, pod>>
      BY <1>a, <2>3 DEF RecordPod
    <3>2. CASE worker' = [worker EXCEPT ![recon.n].phase = "Provisioning",
                                        ![recon.n].podName = recon.inc]
      <4>1. /\ \A m \in Names : m # recon.n => worker'[m] = worker[m]
            /\ worker'[recon.n] = [worker[recon.n] EXCEPT !.phase = "Provisioning",
                                                          !.podName = recon.inc]
        BY <1>a, <3>1, <3>2
      <4>2. /\ worker'[recon.n].st = worker[recon.n].st
            /\ worker'[recon.n].fin <=> worker[recon.n].fin
            /\ worker'[recon.n].phase \notin Serving
        BY <1>a, <3>1, <4>1 DEF WorkerObject, Serving
      <4> QED
        <5>0. \A m \in Names : /\ worker'[m].st = worker[m].st
                               /\ worker'[m].fin <=> worker[m].fin
          BY <4>1, <4>2
        <5>1. UnusedIsBlank' /\ CachedFinalizerHolds'
          BY <1>b, <3>1, <5>0 DEF UnusedIsBlank, CachedFinalizerHolds, Live
        <5>2. ServingNotCachedPending' /\ PodUnderFinalizer'
          BY <1>b, <3>1, <4>1, <4>2 DEF ServingNotCachedPending, PodUnderFinalizer, Live
        <5> QED
          BY <1>c, <2>1, <5>1, <5>2
    <3> QED
      BY <2>2, <2>3, <3>1, <3>2 DEF RecordPod
  <2>4. CASE RemoveFinalizer
    <3>1. recon.n \in Names /\ UNCHANGED <<cache, pod>>
      BY <1>a, <2>4 DEF RemoveFinalizer
    <3>2. CASE worker' = [worker EXCEPT ![recon.n] = Blank("gone")]
      BY <1>a, <1>b, <1>c, <2>1, <3>1, <3>2 DEF Blank, WorkerObject, UnusedIsBlank,
         CachedFinalizerHolds, ServingNotCachedPending, PodUnderFinalizer, Live
    <3> QED
      BY <2>2, <2>4, <3>1, <3>2 DEF RemoveFinalizer, FinalizerRemoved
  <2>5. CASE Restart
    BY <1>b, <1>c, <2>1, <2>5 DEF Restart, Serving, UnusedIsBlank, CachedFinalizerHolds,
       ServingNotCachedPending, PodUnderFinalizer, Live
  <2>6. ASSUME NEW n \in Names, EnvCreate(n) PROVE IInv'
    BY <1>a, <1>b, <1>c, <2>1, <2>6 DEF EnvCreate, EnvUnchanged, NextName, Created, Blank,
       Serving, WorkerObject, UnusedIsBlank, CachedFinalizerHolds, ServingNotCachedPending,
       PodUnderFinalizer, Live
  <2>7. ASSUME NEW n \in Names, EnvDelete(n) PROVE IInv'
    BY <1>c, <2>1, <2>7, DeletedIsMild, MildWritesInv DEF EnvDelete, EnvUnchanged
  <2>8. ASSUME NEW n \in Names, NEW a \in Allocs, EnvAllocate(n, a) PROVE IInv'
    <3>1. CASE worker' = [worker EXCEPT ![n].alloc = a]
      <4>1. \A m \in Names : MildWrite(m)
        BY <1>a, <3>1 DEF WorkerObject, MildWrite
      <4> QED
        BY <1>c, <2>1, <2>8, <4>1, MildWritesInv DEF EnvAllocate, EnvUnchanged
    <3> QED
      BY <2>2, <2>8, <3>1 DEF EnvAllocate, EnvUnchanged
  <2>9. CASE RecordPod \/ RemoveFinalizer \/ ReconcileAborted
    BY <2>2, <2>3, <2>4, <2>9 DEF ReconcileAborted
  <2>10. CASE WREnv
    BY <2>2, <2>6, <2>7, <2>8, <2>10 DEF WREnv, EnvFault, EnvIssue, EnvUnchanged
  <2>11. CASE ClusterStep
    BY <2>2, <2>11, KubeInv DEF ClusterStep, AllocationExpires
  <2>12. CASE UNCHANGED wrVars \/ PoolDeleted
    BY <2>2, <2>12 DEF wrVars, PoolDeleted
  <2>13. ASSUME NEW n \in Names, Reconcile(n) PROVE IInv'
    BY <2>13, ReconcileInv
  <2> QED
    BY <2>5, <2>9, <2>10, <2>11, <2>12, <2>13 DEF WRNext, WRStep
<1>e. ASSUME NEW n \in Names, Reconcile(n) PROVE IInv'
  BY <1>e, ReconcileInv
<1>f. CASE ~\E n \in Names : Reconcile(n)
  <2>1. UNCHANGED recon \/ recon' = NoRecon
    BY <1>f DEF WRNext, WRStep, RecordPod, RemoveFinalizer, ReconcileAborted, Restart,
       ClusterStep, WREnv, EnvFault, EnvCreate, EnvDelete, EnvIssue, EnvAllocate, EnvUnchanged,
       wrVars
  <2> QED
    BY <1>d, <2>1
<1> QED
  BY <1>e, <1>f

\* No step creates a pod for a worker that serves.
LEMMA KeepStep ==
  ASSUME IInv, [WRNext]_wrVars, NEW n \in Names, Live(n), worker[n].phase \in Serving
  PROVE  pod'[n].inc = pod[n].inc
<1>a. pod \in [Names -> PodObject]
  BY DEF IInv, WRTypeOK, KubeTypeOK
<1>1. ASSUME NEW m \in Names, CreatePod(m) PROVE pod'[n].inc = pod[n].inc
  <2>1. m # n
    BY <1>1 DEF IInv, ServingNotCachedPending, CreatePod, Dispatched, Fetched
  <2> QED
    BY <1>1, <1>a, <2>1 DEF CreatePod
<1>2. ASSUME NEW m \in Names, DeletePod(m) PROVE pod'[n].inc = pod[n].inc
  BY <1>2, <1>a DEF DeletePod, PodObject
<1>3. ASSUME NEW m \in Names, NEW from, NEW to, PodTo(m, from, to) PROVE pod'[n].inc = pod[n].inc
  BY <1>3, <1>a DEF PodTo, PodObject
<1>4. ASSUME NEW m \in Names, KubeProgress(m) \/ KubeFault(m) PROVE pod'[n].inc = pod[n].inc
  BY <1>3, <1>4 DEF KubeProgress, KubeFault, InformerSync, PodInformerSync, TenMinutesPass,
     PodScheduled, PodBecomesReady, GarbageCollect, PodUnschedulable, PodLosesReadiness,
     PodFails, PodEvicted
<1>5. ASSUME NEW m \in Names, Reconcile(m) PROVE pod'[n].inc = pod[n].inc
  BY <1>1, <1>2, <1>5 DEF Reconcile, AddFinalizer, ParentPoolNotFound, PodAlreadyExists,
     CreatePodFails, ProvisioningStep, DeleteExpired, RunningStep, UpdateStatus
<1> QED
  BY <1>4, <1>5 DEF WRNext, WRStep, ClusterStep, WREnv, RecordPod, RemoveFinalizer,
     ReconcileAborted, Restart, AllocationExpires, PoolDeleted, EnvFault, EnvCreate, EnvDelete,
     EnvIssue, EnvAllocate, EnvUnchanged, wrVars

\* No step sends a worker that served or failed back to provisioning.
LEMMA PhaseStep ==
  ASSUME IInv, [WRNext]_wrVars, NEW n \in Names,
         Live(n), worker[n].phase \notin Starting, Live(n)'
  PROVE  worker'[n].phase \notin Starting
<1>a. worker \in [Names -> WorkerObject] /\ cache[n] \in WorkerObject
      /\ (recon.op # "none" => recon.n \in Names)
  BY DEF IInv, WRTypeOK, KubeTypeOK
<1> DEFINE Kept == worker'[n].phase \notin Starting
<1>1. CASE worker'[n] = worker[n]
  BY <1>1
<1>2. ASSUME NEW m \in Names, Reconcile(m) PROVE Kept
  <2>1. CASE m # n
    BY <1>1, <1>2, <1>a, <2>1 DEF Reconcile, AddFinalizer, ParentPoolNotFound, CreatePod,
       PodAlreadyExists, CreatePodFails, ProvisioningStep, DeleteExpired, Deleted, RunningStep,
       DeletePod, UpdateStatus
  <2>2. CASE m = n
    <3>1. ASSUME NEW p, UpdateStatus(n, cache[n], [cache[n] EXCEPT !.phase = p]),
                 p \notin Starting
          PROVE  Kept
      BY <1>a, <3>1 DEF UpdateStatus, WorkerObject
    <3>2. CASE AddFinalizer(n)
      BY <1>a, <3>2 DEF AddFinalizer, WorkerObject
    <3>3. CASE ParentPoolNotFound(n)
      <4>1. "Failed" \notin Starting
        BY DEF Starting
      <4> QED
        BY <3>1, <3>3, <4>1 DEF ParentPoolNotFound
    <3>4. CASE CreatePod(n) \/ DeletePod(n)
      BY <1>1, <3>4 DEF CreatePod, DeletePod
    <3>5. CASE PodAlreadyExists(n) \/ ProvisioningStep(n)
      <4>1. cache[n].phase \in Starting /\ Fresh(n, cache[n])
        BY <3>5 DEF PodAlreadyExists, ProvisioningStep, UpdateStatus, Starting
      <4> QED
        BY <4>1 DEF Fresh
    <3>6. CASE CreatePodFails(n)
      BY <1>a, <3>6 DEF CreatePodFails, WorkerObject, Starting
    <3>7. CASE DeleteExpired(n)
      BY <1>a, <3>7 DEF DeleteExpired, Deleted, WorkerObject, Blank, Live
    <3>8. CASE RunningStep(n)
      <4> DEFINE p == IF PodView(n) # "ready" THEN "Failed" ELSE DesiredPhase(cache[n])
      <4>1. p \notin Starting
        BY DEF DesiredPhase, Starting
      <4>2. UpdateStatus(n, cache[n], [cache[n] EXCEPT !.phase = p])
        BY <3>8 DEF RunningStep
      <4> HIDE DEF p
      <4> QED
        BY <3>1, <4>1, <4>2
    <3> QED
      BY <1>2, <2>2, <3>2, <3>3, <3>4, <3>5, <3>6, <3>7, <3>8 DEF Reconcile
  <2> QED
    BY <2>1, <2>2
<1>3. CASE RecordPod
  <2>1. CASE recon.n = n /\ Fresh(recon.n, recon.obj)
    BY <1>3, <2>1 DEF IInv, HeldCopyPending, RecordPod, Fresh, Starting
  <2>2. CASE ~(recon.n = n /\ Fresh(recon.n, recon.obj))
    <3>1. worker'[n] = worker[n]
      BY <1>3, <1>a, <2>2 DEF RecordPod
    <3> QED
      BY <1>1, <3>1
  <2> QED
    BY <2>1, <2>2
<1>4. CASE RemoveFinalizer
  BY <1>a, <1>4 DEF RemoveFinalizer, FinalizerRemoved, Blank, Live
<1>5. ASSUME NEW m \in Names, EnvCreate(m) PROVE Kept
  BY <1>a, <1>5 DEF EnvCreate, NextName, Created, Live
<1>6. ASSUME NEW m \in Names, EnvDelete(m) PROVE Kept
  BY <1>a, <1>6 DEF EnvDelete, Deleted, WorkerObject, Blank, Live
<1>7. ASSUME NEW m \in Names, NEW a \in Allocs, EnvAllocate(m, a) PROVE Kept
  BY <1>a, <1>7 DEF EnvAllocate, WorkerObject
<1>8. ASSUME NEW m \in Names, KubeProgress(m) \/ KubeFault(m) PROVE Kept
  BY <1>1, <1>8 DEF KubeProgress, KubeFault, InformerSync, PodInformerSync, TenMinutesPass, PodTo,
     PodScheduled, PodBecomesReady, GarbageCollect, PodUnschedulable, PodLosesReadiness,
     PodFails, PodEvicted
<1>9. CASE WREnv
  BY <1>1, <1>5, <1>6, <1>7, <1>9 DEF WREnv, EnvFault, EnvIssue
<1>10. CASE ClusterStep
  BY <1>1, <1>8, <1>10 DEF ClusterStep, AllocationExpires
<1> QED
  BY <1>1, <1>2, <1>3, <1>4, <1>9, <1>10 DEF WRNext, WRStep, ReconcileAborted, Restart,
     PoolDeleted, wrVars
-----------------------------------------------------------------------------
\* The inductive invariant holds in every reachable state.
THEOREM WRInvariant == WRSpec => []IInv
BY InvInit, InvStep, PTL DEF WRSpec

\* Type correctness: every worker, pod and reconciliation record stays well formed.
THEOREM WRTypeCorrect == WRSpec => []WRTypeOK
<1>1. IInv => WRTypeOK
  BY DEF IInv
<1> QED
  BY <1>1, WRInvariant, PTL

\* A worker object whose pod exists carries the finalizer, whatever the cache said
\* when reconcilePending created the pod.
THEOREM WRPodUnderFinalizer == WRSpec => []PodUnderFinalizer
<1>1. IInv => PodUnderFinalizer
  BY DEF IInv
<1> QED
  BY <1>1, WRInvariant, PTL

\* reconcilePending never creates a pod for a worker that is Idle or Allocated.
THEOREM WRServingPodKept == WRSpec => ServingPodKept
<1>1. ASSUME IInv, [WRNext]_wrVars
      PROVE  [\A n \in Names :
                Live(n) /\ worker[n].phase \in Serving => pod'[n].inc = pod[n].inc]_wrVars
  BY <1>1, KeepStep
<1> QED
  BY <1>1, WRInvariant, PTL DEF WRSpec, ServingPodKept

\* A worker that has been Idle, Allocated or Failed is never provisioned again.
THEOREM WRNeverReprovisioned == WRSpec => NeverReprovisioned
<1>1. ASSUME IInv, [WRNext]_wrVars
      PROVE  [\A n \in Names :
                Live(n) /\ worker[n].phase \notin Starting /\ Live(n)'
                  => worker'[n].phase \notin Starting]_wrVars
  BY <1>1, PhaseStep
<1> QED
  BY <1>1, WRInvariant, PTL DEF WRSpec, NeverReprovisioned
=============================================================================
