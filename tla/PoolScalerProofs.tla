-------------------------- MODULE PoolScalerProofs --------------------------
(***************************************************************************)
(* Proofs about the pool's worker manager beside the worker controller,    *)
(* for any Min, any number of workers and any number of faults.            *)
(*                                                                         *)
(* The manager's writes are among those WorkerReconciler allows its        *)
(* environment, so the pool implements WRSpec and IInv is inherited.  On   *)
(* top of it the scale-down needs to know what stale lists can show while  *)
(* the cluster is calm, and which workers every list still keeps.          *)
(***************************************************************************)
EXTENDS PoolScaler, WorkerReconcilerProofs, FiniteSetTheorems

\* A Delete by the pool or by a release is EnvDelete, or finds no object.
LEMMA DeleteIsEnv ==
  ASSUME NEW n \in Names, worker' = Deleted(n), UNCHANGED lease, EnvUnchanged
  PROVE  [WRNext]_wrVars
<1>1. CASE Live(n)
  BY <1>1 DEF WRNext, WREnv, EnvDelete
<1>2. CASE ~Live(n)
  BY <1>2 DEF Deleted, EnvUnchanged, wrVars
<1> QED
  BY <1>1, <1>2

\* A failed call changes nothing but the number of faults.
LEMMA FaultIsEnv ==
  ASSUME Fault, UNCHANGED <<worker, cache, pod, podSeen, aged, lease, expired, poolUp, recon>>
  PROVE  WRNext
BY DEF WRNext, WREnv, EnvFault

\* Every step of the pool manager is a step of the environment.
LEMMA PoolRefines == ASSUME PoolStep PROVE [WRNext]_wrVars
<1>1. ASSUME NEW n \in Names, PoolDelete(n) PROVE [WRNext]_wrVars
  BY <1>1, DeleteIsEnv DEF PoolDelete, EnvUnchanged
<1>2. ASSUME NEW n \in Names, PoolCreate(n) PROVE [WRNext]_wrVars
  BY <1>2 DEF PoolCreate, WRNext, WREnv, EnvCreate, EnvUnchanged
<1>3. ASSUME NEW n \in Names, PoolDeleteFails(n) PROVE [WRNext]_wrVars
  BY <1>3, FaultIsEnv DEF PoolDeleteFails
<1>4. CASE PoolCreateFails
  BY <1>4, FaultIsEnv DEF PoolCreateFails
<1>5. CASE PoolList \/ PoolNamesExhausted
  BY <1>5 DEF PoolList, PoolNamesExhausted
<1> QED
  BY <1>1, <1>2, <1>3, <1>4, <1>5 DEF PoolStep

-----------------------------------------------------------------------------
(* The counts of the worker manager. *)

\* ensureMinimumWorkers asks for at most Min workers, and for none rather than for a
\* negative number: the stuck workers it takes off are among those it counts.
LEMMA CreateBounded == WorkersToCreate \in 0..Min
<1>1. IsFiniteSet(Names)
  BY FS_Interval, KubeAssumption DEF Names
<1>2. IdleWorkers \subseteq Names /\ ProvisioningWorkers \subseteq Names /\ StuckWorkers \subseteq ProvisioningWorkers
  BY DEF IdleWorkers, ProvisioningWorkers, StuckWorkers, InPhase, Listed
<1>3. IsFiniteSet(IdleWorkers) /\ IsFiniteSet(ProvisioningWorkers)
  BY <1>1, <1>2, FS_Subset
<1>4. /\ Cardinality(IdleWorkers) \in Nat /\ Cardinality(ProvisioningWorkers) \in Nat
      /\ Cardinality(StuckWorkers) \in Nat
      /\ Cardinality(StuckWorkers) <= Cardinality(ProvisioningWorkers)
  BY <1>2, <1>3, FS_Subset, FS_CardinalityType
<1>5. MissingWorkers \in Int /\ MissingWorkers <= Min
  BY <1>4, PoolAssumption DEF MissingWorkers, Smaller
<1> QED
  BY <1>5, PoolAssumption DEF WorkersToCreate

\* What a pass decides is a set of workers to delete and a bounded number to create.
LEMMA PlansType ==
  ASSUME NEW toZero, NEW p \in Plans(toZero) PROVE p \in [dels : SUBSET Names, create : 0..Min]
<1>1. FailedWorkers \cup StuckWorkers \subseteq Names /\ IdleWorkers \subseteq Names
  BY DEF FailedWorkers, StuckWorkers, IdleWorkers, ProvisioningWorkers, InPhase, Listed
<1>2. \A S \in ExcessIdle : S \subseteq Names
  BY <1>1 DEF ExcessIdle
<1>3. 0 \in 0..Min
  BY PoolAssumption
<1> QED
  BY <1>1, <1>2, <1>3, CreateBounded DEF Plans

PlanTypeOK == plan \in [dels : SUBSET Names, create : 0..Min]

\* A pass at rest.
LEMMA NoPlanType == NoPlan \in [dels : SUBSET Names, create : 0..Min]
BY PoolAssumption DEF NoPlan

\* Every step of the manager leaves a plan a plan.
LEMMA PoolStepPlan == ASSUME PlanTypeOK, PoolStep PROVE PlanTypeOK'
<1>2. CASE plan' = NoPlan
  BY <1>2, NoPlanType DEF PlanTypeOK
<1>3. CASE PoolList
  BY <1>3, PlansType DEF PoolList, PlanTypeOK
<1>4. ASSUME NEW n \in Names, PoolDelete(n) \/ PoolDeleteFails(n) PROVE PlanTypeOK'
  BY <1>4 DEF PoolDelete, PoolDeleteFails, PlanTypeOK
<1>5. ASSUME NEW n \in Names, PoolCreate(n) PROVE PlanTypeOK'
  BY <1>5, PoolAssumption DEF PoolCreate, PlanTypeOK
<1> QED
  BY <1>2, <1>3, <1>4, <1>5 DEF PoolStep, PoolCreateFails, PoolNamesExhausted

\* Every step of the pool is a step of the worker controller in its environment.
LEMMA PoolNextRefines == ASSUME [PoolNext]_poolVars PROVE [WRNext]_wrVars
BY PoolRefines DEF PoolNext, WRNext, poolVars, wrVars

\* The pool's initial state is one of the worker controller.
LEMMA PoolInitInv == PoolInit => IInv /\ PlanTypeOK
BY InvInit, NoPlanType DEF PoolInit, PlanTypeOK

\* Steps of the pool keep both invariants.
LEMMA PoolInvStep ==
  ASSUME IInv, PlanTypeOK, [PoolNext]_poolVars PROVE IInv' /\ PlanTypeOK'
<1>1. IInv'
  BY PoolNextRefines, InvStep
<1>2. CASE UNCHANGED plan \/ plan' = NoPlan
  BY <1>1, <1>2, NoPlanType DEF PlanTypeOK
<1> QED
  BY <1>1, <1>2, PoolStepPlan DEF PoolNext, poolVars

\* The worker manager is one of the environments the worker controller was written for:
\* it creates and deletes workers and writes nothing else.
THEOREM PoolImplementsWR == PoolSpec => WRSpec
<1>1. PoolInit => WRInit
  BY DEF PoolInit
<1>2. [PoolNext]_poolVars => [WRNext]_wrVars
  BY PoolNextRefines
<1> QED
  BY <1>1, <1>2, PTL DEF PoolSpec, WRSpec

\* Type correctness of the pool: a pass never plans to create a negative number of
\* workers or more than Min.
THEOREM PoolTypeCorrect == PoolSpec => []PoolTypeOK
<1>1. IInv /\ PlanTypeOK => PoolTypeOK
  BY DEF IInv, PlanTypeOK, PoolTypeOK
<1>2. IInv /\ PlanTypeOK /\ [PoolNext]_poolVars => (IInv /\ PlanTypeOK)'
  BY PoolInvStep
<1> QED
  BY <1>1, <1>2, PoolInitInv, PTL DEF PoolSpec
-----------------------------------------------------------------------------
(* What the caches and the plan can show of a worker. *)

\* A name that was never handed out has left no trace.
UnusedUntouched ==
  \A n \in Names : worker[n].st = "unused" =>
    /\ worker[n] = Blank("unused") /\ cache[n] = Blank("unused")
    /\ pod[n] = NoPod /\ podSeen[n] = NoPod

\* Nothing in this process allocates a worker or deletes the pool.
Unallocated ==
  /\ poolUp
  /\ \A n \in Names : worker[n].alloc = NoAlloc /\ cache[n].alloc = NoAlloc

\* What a cached copy says of a deletion, a pod name or a failure is true for good.
CachedFactsHold ==
  \A n \in Names : Live(n) =>
    /\ cache[n].deleting => worker[n].deleting
    /\ cache[n].podName # 0 => worker[n].podName # 0
    /\ cache[n].phase = "Failed" => worker[n].phase = "Failed"

\* A worker serves only once its pod is recorded.
ServingNamed ==
  \A n \in Names : \A o \in {worker[n], cache[n]} : o.phase \in Serving => o.podName # 0

\* A reconciliation records a pod that exists, or ends an object being deleted.
HeldCopySound ==
  /\ recon.op = "podCreated" => recon.inc # 0
  /\ recon.op = "podDeleted" => recon.obj.deleting

\* The manager deletes workers that failed or whose pod is recorded.
PlanNamed ==
  \A n \in plan.dels :
    /\ worker[n].st # "unused"
    /\ Live(n) => worker[n].podName # 0 \/ worker[n].phase = "Failed"

PoolInv ==
  /\ IInv /\ PlanTypeOK
  /\ UnusedUntouched /\ Unallocated /\ CachedFactsHold /\ ServingNamed
  /\ HeldCopySound /\ PlanNamed

\* The fields of a fresh record.
LEMMA BlankFields ==
  \A s : /\ Blank(s).st = s /\ ~Blank(s).deleting /\ ~Blank(s).fin /\ Blank(s).phase = ""
         /\ Blank(s).podName = 0 /\ Blank(s).endpoint = 0 /\ Blank(s).alloc = NoAlloc
  BY DEF Blank

\* What a step may do to an object of this process: nothing, create it, delete it when the
\* plan says so, end its deletion, or one of the phase changes of the worker controller.
Stays(m) ==
  /\ Live(m) /\ worker'[m].st = "live" /\ worker'[m].alloc = worker[m].alloc
  /\ worker'[m].deleting = worker[m].deleting

SamePhase(m) == worker'[m].phase = worker[m].phase /\ worker'[m].podName = worker[m].podName

Moves(m) ==
  \/ worker'[m] = worker[m]
  \/ worker[m].st = "unused" /\ worker'[m] = Blank("live")
  \/ Live(m) /\ (worker[m].deleting \/ m \in plan.dels) /\ worker'[m] = Blank("gone")
  \/ /\ Live(m) /\ m \in plan.dels /\ SamePhase(m)
     /\ worker'[m].st = "live" /\ worker'[m].deleting /\ worker'[m].alloc = worker[m].alloc
  \/ Stays(m) /\ SamePhase(m)
  \/ /\ Stays(m) /\ worker[m].phase \in {"", "Pending"}
     /\ worker'[m].phase \in {"Provisioning", "Failed"}
     /\ worker[m].podName # 0 => worker'[m].podName # 0
  \/ /\ Stays(m) /\ ~worker[m].deleting
     /\ worker[m].podName # 0 /\ worker'[m].podName = worker[m].podName
     /\ \/ worker[m].phase = "Provisioning" /\ worker'[m].phase \in {"Pending", "Failed"}
        \/ /\ worker[m].phase = "Provisioning" /\ worker'[m].phase = "Idle"
           /\ podSeen[m].phase = "ready"
        \/ /\ worker[m].phase \in Serving /\ worker'[m].phase = "Failed"
           /\ podSeen[m].phase # "ready"
        \/ worker[m].phase = "Allocated" /\ worker'[m].phase = "Idle"

\* What a Status().Update of the cached copy writes.
LEMMA UpdateWrites ==
  ASSUME PoolInv, NEW n \in Names, NEW e, NEW p,
         UpdateStatus(n, cache[n], [cache[n] EXCEPT !.phase = p, !.endpoint = e])
  PROVE  /\ \A m \in Names : m # n => worker'[m] = worker[m]
         /\ worker[n] = cache[n] /\ Stays(n)
         /\ worker'[n].phase = p /\ worker'[n].podName = worker[n].podName
<1>1. worker \in [Names -> WorkerObject] /\ cache[n] \in WorkerObject
  BY DEF PoolInv, IInv, WRTypeOK, KubeTypeOK
<1>2. worker[n] = cache[n] /\ Live(n)
  BY DEF UpdateStatus, Fresh
<1>3. \A m \in Names : m # n => worker'[m] = worker[m]
  BY <1>1 DEF UpdateStatus
<1>4. worker'[n] = [cache[n] EXCEPT !.phase = p, !.endpoint = e]
  BY <1>1 DEF UpdateStatus
<1>5. Stays(n) /\ worker'[n].phase = p /\ worker'[n].podName = worker[n].podName
  BY <1>1, <1>2, <1>4 DEF Stays, Live, WorkerObject
<1> QED
  BY <1>2, <1>3, <1>5

\* A reconciliation moves the objects so.
LEMMA ReconcileMoves ==
  ASSUME PoolInv, NEW n \in Names, Reconcile(n)
  PROVE  \A m \in Names : Moves(m)
<1>a. worker \in [Names -> WorkerObject] /\ cache[n] \in WorkerObject
  BY DEF PoolInv, IInv, WRTypeOK, KubeTypeOK
<1>b. poolUp /\ cache[n].alloc = NoAlloc
  BY DEF PoolInv, Unallocated
<1>c. \A p : [cache[n] EXCEPT !.phase = p] = [cache[n] EXCEPT !.phase = p, !.endpoint = cache[n].endpoint]
  BY <1>a DEF WorkerObject
<1>1. CASE AddFinalizer(n)
  <2>1. worker' = [worker EXCEPT ![n] = [worker[n] EXCEPT !.fin = TRUE]] /\ Live(n)
    BY <1>1 DEF AddFinalizer, Fresh
  <2>2. Stays(n) /\ SamePhase(n)
    BY <1>a, <2>1 DEF Stays, SamePhase, Live, WorkerObject
  <2>3. \A m \in Names : m # n => worker'[m] = worker[m]
    BY <1>a, <2>1
  <2> QED
    BY <2>2, <2>3 DEF Moves
<1>2. CASE PodAlreadyExists(n)
  <2>1. /\ cache[n].phase \in {"", "Pending"}
        /\ UpdateStatus(n, cache[n], [cache[n] EXCEPT !.phase = "Provisioning",
                                                      !.endpoint = cache[n].endpoint])
    BY Zenon, <1>2, <1>c DEF PodAlreadyExists
  <2>2. /\ \A m \in Names : m # n => worker'[m] = worker[m]
        /\ worker[n] = cache[n] /\ Stays(n)
        /\ worker'[n].phase = "Provisioning" /\ worker'[n].podName = worker[n].podName
    BY Zenon, <2>1, UpdateWrites
  <2> QED
    BY <2>1, <2>2 DEF Moves
<1>3. CASE CreatePodFails(n)
  <2>1. /\ worker' = [worker EXCEPT ![n] = [worker[n] EXCEPT !.phase = "Failed"]] /\ Live(n)
        /\ worker[n].phase \in {"", "Pending"}
    BY <1>3 DEF CreatePodFails, Fresh
  <2>2. /\ Stays(n) /\ worker'[n].phase = "Failed" /\ worker'[n].podName = worker[n].podName
    BY <1>a, <2>1 DEF Stays, Live, WorkerObject
  <2>3. \A m \in Names : m # n => worker'[m] = worker[m]
    BY <1>a, <2>1
  <2> QED
    BY <2>1, <2>2, <2>3 DEF Moves
<1>4. CASE ProvisioningStep(n)
  <2>1. cache[n].phase = "Provisioning" /\ cache[n].podName # 0 /\ ~cache[n].deleting
    BY <1>4 DEF ProvisioningStep, Dispatched
  <2>2. \E p, e : /\ UpdateStatus(n, cache[n], [cache[n] EXCEPT !.phase = p, !.endpoint = e])
                  /\ p \in {"Pending", "Failed"} \/ (p = "Idle" /\ podSeen[n].phase = "ready")
    BY Zenon, <1>4, <1>c DEF ProvisioningStep, PodView
  <2>3. PICK p, e : /\ UpdateStatus(n, cache[n], [cache[n] EXCEPT !.phase = p, !.endpoint = e])
                    /\ p \in {"Pending", "Failed"} \/ (p = "Idle" /\ podSeen[n].phase = "ready")
    BY Zenon, <2>2
  <2>4. /\ \A m \in Names : m # n => worker'[m] = worker[m]
        /\ worker[n] = cache[n] /\ Stays(n)
        /\ worker'[n].phase = p /\ worker'[n].podName = worker[n].podName
    BY Zenon, <2>3, UpdateWrites
  <2> QED
    BY <2>1, <2>3, <2>4 DEF Moves
<1>5. CASE RunningStep(n)
  <2>1. cache[n].phase \in Serving /\ cache[n].podName # 0 /\ ~cache[n].deleting
    BY <1>5 DEF RunningStep, Dispatched
  <2> DEFINE p == IF PodView(n) # "ready" THEN "Failed" ELSE "Idle"
  <2>2. UpdateStatus(n, cache[n], [cache[n] EXCEPT !.phase = p])
    BY <1>5, <1>b DEF RunningStep, DesiredPhase
  <2>3. cache[n].phase # p
    <3>1. cache[n] # [cache[n] EXCEPT !.phase = p]
      BY <2>2 DEF UpdateStatus
    <3> HIDE DEF p
    <3> QED
      BY <1>a, <3>1 DEF WorkerObject
  <2>4. UpdateStatus(n, cache[n], [cache[n] EXCEPT !.phase = p, !.endpoint = cache[n].endpoint])
    <3> HIDE DEF p
    <3> QED
      BY Zenon, <2>2, <1>c
  <2>5. /\ \A m \in Names : m # n => worker'[m] = worker[m]
        /\ worker[n] = cache[n] /\ Stays(n)
        /\ worker'[n].phase = p /\ worker'[n].podName = worker[n].podName
    <3> HIDE DEF p
    <3> QED
      BY Zenon, <2>4, UpdateWrites
  <2>6. \/ p = "Failed" /\ podSeen[n].phase # "ready"
        \/ p = "Idle" /\ cache[n].phase = "Allocated"
    BY <2>1, <2>3 DEF PodView, Serving
  <2> HIDE DEF p
  <2> QED
    BY <2>1, <2>5, <2>6 DEF Moves
<1>6. CASE CreatePod(n) \/ DeletePod(n)
  BY <1>6 DEF CreatePod, DeletePod, Moves
<1> QED
  BY <1>b, <1>1, <1>2, <1>3, <1>4, <1>5, <1>6
     DEF Reconcile, ParentPoolNotFound, DeleteExpired, AllocationExpired

\* Every other step does too.
LEMMA PoolMoves ==
  ASSUME PoolInv, [PoolNext]_poolVars
  PROVE  \A m \in Names : Moves(m)
<1>a. worker \in [Names -> WorkerObject] /\ (recon.op # "none" => recon.n \in Names)
  BY DEF PoolInv, IInv, WRTypeOK, KubeTypeOK
<1>1. CASE UNCHANGED worker
  BY <1>1 DEF Moves
<1>2. ASSUME NEW n \in Names, Reconcile(n) PROVE \A m \in Names : Moves(m)
  BY <1>2, ReconcileMoves
<1>3. CASE RecordPod
  <2>1. recon.n \in Names /\ recon.inc # 0 /\ recon.obj.phase \in {"", "Pending"}
    BY <1>3, <1>a DEF RecordPod, PoolInv, IInv, HeldCopyPending, HeldCopySound
  <2>2. CASE Fresh(recon.n, recon.obj)
    <3>1. worker' = [worker EXCEPT ![recon.n] = [worker[recon.n] EXCEPT !.phase = "Provisioning",
                                                                     !.podName = recon.inc]]
      BY <1>3, <2>2 DEF RecordPod
    <3>2. Live(recon.n) /\ worker[recon.n].phase \in {"", "Pending"}
      BY <2>1, <2>2 DEF Fresh
    <3>3. /\ Stays(recon.n) /\ worker'[recon.n].phase = "Provisioning"
          /\ worker'[recon.n].podName # 0
      BY <1>a, <2>1, <3>1, <3>2 DEF Stays, Live, WorkerObject
    <3>4. \A m \in Names : m # recon.n => worker'[m] = worker[m]
      BY <1>a, <3>1
    <3> QED
      BY <3>2, <3>3, <3>4 DEF Moves
  <2> QED
    BY <1>1, <1>3, <2>2 DEF RecordPod
<1>4. CASE RemoveFinalizer
  <2>1. CASE Fresh(recon.n, recon.obj)
    <3>1. recon.n \in Names /\ recon.obj.deleting
      BY <1>4, <1>a DEF RemoveFinalizer, PoolInv, HeldCopySound
    <3> QED
      BY <1>4, <1>a, <2>1, <3>1 DEF RemoveFinalizer, FinalizerRemoved, Fresh, Moves
  <2> QED
    BY <1>1, <1>4, <2>1 DEF RemoveFinalizer
<1>5. ASSUME NEW n \in Names, PoolDelete(n) PROVE \A m \in Names : Moves(m)
  <2>1. worker' = Deleted(n) /\ n \in plan.dels
    BY <1>5 DEF PoolDelete
  <2>2. CASE worker' = [worker EXCEPT ![n].deleting = TRUE] /\ Live(n)
    <3>1. /\ SamePhase(n) /\ worker'[n].st = "live" /\ worker'[n].deleting
          /\ worker'[n].alloc = worker[n].alloc
      BY <1>a, <2>2 DEF SamePhase, Live, WorkerObject
    <3>2. \A m \in Names : m # n => worker'[m] = worker[m]
      BY <1>a, <2>2
    <3> QED
      BY <2>1, <2>2, <3>1, <3>2 DEF Moves
  <2> QED
    BY <1>1, <1>a, <2>1, <2>2 DEF Deleted, Moves
<1>6. ASSUME NEW n \in Names, PoolCreate(n) PROVE \A m \in Names : Moves(m)
  BY <1>6, <1>a DEF PoolCreate, NextName, Created, Moves
<1>7. CASE WRStep
  BY <1>1, <1>2, <1>3, <1>4, <1>7 DEF WRStep, ReconcileAborted
<1>8. CASE PoolStep
  BY <1>1, <1>5, <1>6, <1>8 DEF PoolStep, PoolList, PoolDeleteFails, PoolCreateFails,
     PoolNamesExhausted, wrVars
<1>9. CASE ClusterStep
  BY <1>1, <1>9 DEF ClusterStep, KubeProgress, KubeFault, InformerSync, PodInformerSync,
     TenMinutesPass, PodTo, PodScheduled, PodBecomesReady, GarbageCollect, PodUnschedulable,
     PodLosesReadiness, PodFails, PodEvicted, AllocationExpires
<1> QED
  BY <1>1, <1>7, <1>8, <1>9 DEF PoolNext, Restart, poolVars

\* The objects stay well-typed.
LEMMA ObjectTypes ==
  ASSUME PoolInv, [PoolNext]_poolVars, NEW m \in Names
  PROVE  worker[m] \in WorkerObject /\ worker'[m] \in WorkerObject /\ cache[m] \in WorkerObject
<1>1. IInv' /\ IInv
  BY PoolInvStep DEF PoolInv
<1> QED
  BY <1>1 DEF IInv, WRTypeOK, KubeTypeOK

\* In short: an object comes, goes, or keeps its deletion, pod name, failure and missing
\* allocation, and serves only with a pod name.
Advances(m) ==
  \/ worker'[m] = worker[m]
  \/ worker[m].st = "unused" /\ worker'[m] = Blank("live")
  \/ Live(m) /\ worker'[m] = Blank("gone")
  \/ /\ Live(m) /\ worker'[m].st = "live" /\ worker'[m].alloc = worker[m].alloc
     /\ worker[m].deleting => worker'[m].deleting
     /\ worker[m].podName # 0 => worker'[m].podName # 0
     /\ worker[m].phase = "Failed" => worker'[m].phase = "Failed"
     /\ worker'[m].phase \in Serving => worker'[m].podName # 0

\* Every step of the pool advances the objects so.
LEMMA PoolAdvances ==
  ASSUME PoolInv, [PoolNext]_poolVars, NEW m \in Names
  PROVE  Advances(m)
<1>1. Moves(m) /\ worker[m] \in WorkerObject /\ worker'[m] \in WorkerObject
  BY PoolMoves, ObjectTypes
<1>2. worker[m].phase \in Serving => worker[m].podName # 0
  BY DEF PoolInv, ServingNamed
<1> QED
  BY <1>1, <1>2 DEF Moves, Advances, Stays, SamePhase, Serving, WorkerObject

\* The caches follow: a copy stays, or becomes the object of a worker the step leaves alone.
LEMMA CachesFollow ==
  ASSUME PoolInv, [PoolNext]_poolVars, NEW m \in Names
  PROVE  /\ cache'[m] = cache[m] \/ (cache'[m] = worker[m] /\ worker'[m] = worker[m])
         /\ podSeen'[m] = podSeen[m] \/ (podSeen'[m] = pod[m] /\ pod'[m] = pod[m])
<1>a. cache \in [Names -> WorkerObject] /\ podSeen \in [Names -> PodObject]
  BY DEF PoolInv, IInv, WRTypeOK, KubeTypeOK
<1>1. CASE UNCHANGED <<cache, podSeen>>
  BY <1>1
<1>2. ASSUME NEW n \in Names, KubeProgress(n) \/ KubeFault(n)
      PROVE  \/ UNCHANGED <<cache, podSeen>>
             \/ InformerSync(n)
             \/ PodInformerSync(n)
  BY <1>2 DEF KubeProgress, KubeFault, TenMinutesPass, PodTo, PodScheduled, PodBecomesReady,
     GarbageCollect, PodUnschedulable, PodLosesReadiness, PodFails, PodEvicted
<1>3. ASSUME NEW n \in Names, InformerSync(n) \/ PodInformerSync(n)
      PROVE  /\ cache'[m] = cache[m] \/ (cache'[m] = worker[m] /\ worker'[m] = worker[m])
             /\ podSeen'[m] = podSeen[m] \/ (podSeen'[m] = pod[m] /\ pod'[m] = pod[m])
  BY <1>a, <1>3 DEF InformerSync, PodInformerSync
<1>4. CASE ClusterStep
  BY <1>1, <1>2, <1>3, <1>4 DEF ClusterStep, AllocationExpires
<1>5. CASE Restart
  BY <1>5 DEF Restart
<1>6. ASSUME NEW n \in Names, Reconcile(n) PROVE UNCHANGED <<cache, podSeen>>
  BY <1>6 DEF Reconcile, AddFinalizer, ParentPoolNotFound, CreatePod, PodAlreadyExists,
     CreatePodFails, ProvisioningStep, DeleteExpired, RunningStep, DeletePod, UpdateStatus
<1>7. CASE WRStep
  BY <1>1, <1>6, <1>7 DEF WRStep, RecordPod, RemoveFinalizer, ReconcileAborted
<1>8. CASE PoolStep
  BY <1>1, <1>8 DEF PoolStep, PoolList, PoolDelete, PoolDeleteFails, PoolCreate, PoolCreateFails,
     PoolNamesExhausted, wrVars
<1> QED
  BY <1>1, <1>4, <1>5, <1>7, <1>8 DEF PoolNext, poolVars

\* A pod of a name that was never handed out is left alone, and the pool object stays.
LEMMA UnusedPodsStay ==
  ASSUME PoolInv, [PoolNext]_poolVars
  PROVE  poolUp' = poolUp /\ \A m \in Names : worker[m].st = "unused" => pod'[m] = pod[m]
<1>a. pod \in [Names -> PodObject]
  BY DEF PoolInv, IInv, WRTypeOK, KubeTypeOK
<1> DEFINE Stay == poolUp' = poolUp /\ \A m \in Names : worker[m].st = "unused" => pod'[m] = pod[m]
<1>1. CASE UNCHANGED <<poolUp, pod>>
  BY <1>1
<1>2. ASSUME NEW n \in Names, Reconcile(n) PROVE Stay
  <2>1. CASE CreatePod(n) \/ DeletePod(n)
    <3>1. cache[n].st = "live"
      BY <2>1 DEF CreatePod, DeletePod, Dispatched, Fetched
    <3>2. worker[n].st # "unused"
      BY <3>1 DEF PoolInv, UnusedUntouched, Blank
    <3> QED
      BY <1>a, <2>1, <3>2 DEF CreatePod, DeletePod
  <2> QED
    BY <1>1, <1>2, <2>1 DEF Reconcile, AddFinalizer, ParentPoolNotFound, PodAlreadyExists,
       CreatePodFails, ProvisioningStep, DeleteExpired, RunningStep, UpdateStatus
<1>3. ASSUME NEW n \in Names, NEW from, NEW to, PodTo(n, from, to), "none" \notin from PROVE Stay
  <2>1. worker[n].st # "unused"
    BY <1>3 DEF PodTo, PoolInv, UnusedUntouched, NoPod
  <2> QED
    BY <1>a, <1>3, <2>1 DEF PodTo
<1>4. ASSUME NEW n \in Names, KubeProgress(n) \/ KubeFault(n) PROVE Stay
  BY <1>1, <1>3, <1>4 DEF KubeProgress, KubeFault, InformerSync, PodInformerSync, TenMinutesPass,
     PodScheduled, PodBecomesReady, GarbageCollect, PodUnschedulable, PodLosesReadiness,
     PodFails, PodEvicted
<1>5. CASE WRStep
  BY <1>1, <1>2, <1>5 DEF WRStep, RecordPod, RemoveFinalizer, ReconcileAborted
<1>6. CASE PoolStep
  BY <1>1, <1>6 DEF PoolStep, PoolList, PoolDelete, PoolDeleteFails, PoolCreate, PoolCreateFails,
     PoolNamesExhausted, wrVars
<1>7. CASE ClusterStep
  BY <1>1, <1>4, <1>7 DEF ClusterStep, AllocationExpires
<1> QED
  BY <1>1, <1>5, <1>6, <1>7 DEF PoolNext, Restart, poolVars

\* What a reconciliation holds between its two writes is sound.
LEMMA HeldStep == ASSUME PoolInv, [PoolNext]_poolVars PROVE HeldCopySound'
<1>1. CASE UNCHANGED recon \/ recon' = NoRecon
  BY <1>1 DEF PoolInv, HeldCopySound, NoRecon
<1>2. ASSUME NEW n \in Names, CreatePod(n) PROVE HeldCopySound'
  <2>1. pod[n].inc + 1 # 0
    BY DEF PoolInv, IInv, WRTypeOK, KubeTypeOK, PodObject
  <2>2. recon' = [op |-> "podCreated", n |-> n, obj |-> cache[n], inc |-> pod[n].inc + 1]
    BY <1>2 DEF CreatePod
  <2> QED
    BY <2>1, <2>2 DEF HeldCopySound
<1>3. ASSUME NEW n \in Names, DeletePod(n) PROVE HeldCopySound'
  BY <1>3 DEF DeletePod, HeldCopySound
<1>4. CASE WRStep
  BY Zenon, <1>1, <1>2, <1>3, <1>4 DEF WRStep, Reconcile, RecordPod, RemoveFinalizer, ReconcileAborted,
     AddFinalizer, ParentPoolNotFound, PodAlreadyExists, CreatePodFails, ProvisioningStep,
     DeleteExpired, RunningStep, UpdateStatus
<1>5. CASE PoolStep
  BY <1>1, <1>5 DEF PoolStep, PoolList, PoolDelete, PoolDeleteFails, PoolCreate, PoolCreateFails,
     PoolNamesExhausted, wrVars
<1> QED
  BY <1>1, <1>4, <1>5 DEF PoolNext, ClusterStep, Restart, poolVars

\* Only a new list plans deletions.
LEMMA PlanShrinks ==
  ASSUME PoolInv, [PoolNext]_poolVars PROVE plan'.dels \subseteq plan.dels \/ PoolList
<1>1. ASSUME NEW n \in Names, PoolDelete(n) \/ PoolDeleteFails(n) \/ PoolCreate(n)
      PROVE  plan'.dels \subseteq plan.dels
  <2>1. plan \in [dels : SUBSET Names, create : 0..Min]
    BY DEF PoolInv, PlanTypeOK
  <2> QED
    BY <1>1, <2>1 DEF PoolDelete, PoolDeleteFails, PoolCreate
<1> QED
  BY <1>1 DEF PoolNext, PoolStep, PoolCreateFails, PoolNamesExhausted, Restart, NoPlan, poolVars

\* What a pass plans to delete has failed or has its pod recorded, and stays so.
LEMMA PlanNamedStep ==
  ASSUME PoolInv, [PoolNext]_poolVars PROVE PlanNamed'
<1>a. plan \in [dels : SUBSET Names, create : 0..Min]
  BY DEF PoolInv, PlanTypeOK
<1>1. CASE plan'.dels \subseteq plan.dels
  <2>1. \A m \in plan.dels : Advances(m) /\ m \in Names
    BY <1>a, PoolAdvances
  <2>2. ASSUME NEW m \in plan.dels
        PROVE  /\ worker'[m].st # "unused"
               /\ worker'[m].st = "live" => worker'[m].podName # 0 \/ worker'[m].phase = "Failed"
    <3>1. /\ worker[m].st # "unused"
          /\ worker[m].st = "live" => worker[m].podName # 0 \/ worker[m].phase = "Failed"
      BY DEF PoolInv, PlanNamed, Live
    <3>2. Advances(m) /\ Blank("gone").st = "gone"
      BY <2>1, BlankFields
    <3> QED
      BY <3>1, <3>2 DEF Advances, Live
  <2> QED
    BY <1>1, <2>2 DEF PlanNamed, Live
<1>2. CASE PoolList
  <2>1. UNCHANGED <<worker, cache>> /\ \E toZero : plan' \in Plans(toZero)
    BY <1>2 DEF PoolList, wrVars
  <2>2. plan'.dels \subseteq FailedWorkers \cup StuckWorkers \cup IdleWorkers
    BY <2>1 DEF Plans, ExcessIdle
  <2>3. \A n \in FailedWorkers \cup StuckWorkers \cup IdleWorkers :
          /\ n \in Names /\ cache[n].st = "live"
          /\ cache[n].podName # 0 \/ cache[n].phase = "Failed"
    BY DEF FailedWorkers, StuckWorkers, IdleWorkers, ProvisioningWorkers, InPhase, Listed,
       IsWorkerStuck, PoolInv, ServingNamed, Serving
  <2> QED
    BY <2>1, <2>2, <2>3 DEF PlanNamed, Live, PoolInv, UnusedUntouched, CachedFactsHold, Blank
<1> QED
  BY <1>1, <1>2, PlanShrinks

\* A cached copy's facts stay facts.
LEMMA CopiesStep ==
  ASSUME PoolInv, [PoolNext]_poolVars
  PROVE  UnusedUntouched' /\ Unallocated' /\ CachedFactsHold' /\ ServingNamed'
<1>1. ASSUME NEW m \in Names
      PROVE  /\ Advances(m)
             /\ cache'[m] = cache[m] \/ (cache'[m] = worker[m] /\ worker'[m] = worker[m])
             /\ podSeen'[m] = podSeen[m] \/ (podSeen'[m] = pod[m] /\ pod'[m] = pod[m])
             /\ worker[m].st = "unused" => pod'[m] = pod[m]
  BY PoolAdvances, CachesFollow, UnusedPodsStay
<1>2. UnusedUntouched'
  <2> SUFFICES ASSUME NEW m \in Names, worker'[m].st = "unused"
               PROVE  /\ worker'[m] = Blank("unused") /\ cache'[m] = Blank("unused")
                      /\ pod'[m] = NoPod /\ podSeen'[m] = NoPod
    BY DEF UnusedUntouched
  <2>1. Advances(m) /\ Blank("live").st = "live" /\ Blank("gone").st = "gone"
    BY <1>1, BlankFields
  <2>2. worker'[m] = worker[m]
    BY <2>1 DEF Advances
  <2> QED
    BY <1>1, <2>2 DEF PoolInv, UnusedUntouched
<1>3. Unallocated'
  <2>1. \A m \in Names : worker'[m].alloc = NoAlloc
    <3> SUFFICES ASSUME NEW m \in Names PROVE worker'[m].alloc = NoAlloc
      OBVIOUS
    <3>1. worker[m].alloc = NoAlloc
      BY DEF PoolInv, Unallocated
    <3>2. Advances(m) /\ Blank("live").alloc = NoAlloc /\ Blank("gone").alloc = NoAlloc
      BY <1>1, BlankFields
    <3> QED
      BY <3>1, <3>2 DEF Advances
  <2> QED
    BY <1>1, <2>1, UnusedPodsStay DEF PoolInv, Unallocated
<1>4. CachedFactsHold'
  <2> SUFFICES ASSUME NEW m \in Names, worker'[m].st = "live"
               PROVE  /\ cache'[m].deleting => worker'[m].deleting
                      /\ cache'[m].podName # 0 => worker'[m].podName # 0
                      /\ cache'[m].phase = "Failed" => worker'[m].phase = "Failed"
    BY DEF CachedFactsHold, Live
  <2>1. CASE cache'[m] = worker[m] /\ worker'[m] = worker[m]
    BY <2>1
  <2>2. CASE cache'[m] = cache[m] /\ worker[m].st = "unused"
    <3>1. cache[m] = Blank("unused")
      BY <2>2 DEF PoolInv, UnusedUntouched
    <3>2. /\ ~Blank("unused").deleting /\ Blank("unused").podName = 0
          /\ Blank("unused").phase = ""
      BY BlankFields
    <3> QED
      BY <2>2, <3>1, <3>2
  <2>3. CASE cache'[m] = cache[m] /\ worker[m].st # "unused"
    <3>a. Advances(m) /\ Blank("gone").st = "gone"
      BY <1>1, BlankFields
    <3>1. Live(m)
      BY <2>3, <3>a DEF Advances, Live
    <3>2. /\ worker[m].deleting => worker'[m].deleting
          /\ worker[m].podName # 0 => worker'[m].podName # 0
          /\ worker[m].phase = "Failed" => worker'[m].phase = "Failed"
      BY <2>3, <3>a DEF Advances
    <3> QED
      BY <2>3, <3>1, <3>2 DEF PoolInv, CachedFactsHold
  <2> QED
    BY <1>1, <2>1, <2>2, <2>3
<1>5. ServingNamed'
  <2>1. \A m \in Names : worker'[m].phase \in Serving => worker'[m].podName # 0
    <3> SUFFICES ASSUME NEW m \in Names PROVE worker'[m].phase \in Serving => worker'[m].podName # 0
      OBVIOUS
    <3>1. /\ Advances(m) /\ Blank("live").phase \notin Serving /\ Blank("gone").phase \notin Serving
      BY <1>1, BlankFields DEF Serving
    <3>2. worker[m].phase \in Serving => worker[m].podName # 0
      BY DEF PoolInv, ServingNamed
    <3> QED
      BY <3>1, <3>2 DEF Advances
  <2> QED
    BY <1>1, <2>1 DEF PoolInv, ServingNamed
<1> QED
  BY <1>2, <1>3, <1>4, <1>5

\* The facts about caches and plan are inductive.
LEMMA PoolFactsStep == ASSUME PoolInv, [PoolNext]_poolVars PROVE PoolInv'
<1>1. IInv' /\ PlanTypeOK'
  BY PoolInvStep DEF PoolInv
<1> QED
  BY <1>1, CopiesStep, HeldStep, PlanNamedStep DEF PoolInv

\* The facts hold at the start.
LEMMA PoolFactsInit == PoolInit => PoolInv
<1>1. ASSUME PoolInit
      PROVE  UnusedUntouched /\ Unallocated /\ CachedFactsHold /\ ServingNamed
             /\ HeldCopySound /\ PlanNamed
  BY <1>1, BlankFields DEF PoolInit, WRInit, KubeInit, UnusedUntouched, Unallocated,
     CachedFactsHold, ServingNamed, HeldCopySound, PlanNamed, NoRecon, NoPlan, Live, Serving
<1> QED
  BY <1>1, PoolInitInv DEF PoolInv
-----------------------------------------------------------------------------
(* A worker in Provisioning that never got its pod recorded. *)

\* Only a worker that failed or has its pod recorded is ever deleted.
DeletingNamed ==
  \A n \in Names :
    Live(n) /\ worker[n].deleting => worker[n].podName # 0 \/ worker[n].phase = "Failed"

\* No step brings a wedged worker out of its state, not even the deletions of the pool.
LEMMA WedgeStep ==
  ASSUME PoolInv, DeletingNamed, [PoolNext]_poolVars
  PROVE  DeletingNamed' /\ \A n \in Names : Wedged(n) => Wedged(n)'
<1> SUFFICES ASSUME NEW n \in Names
             PROVE  /\ worker'[n].st = "live" /\ worker'[n].deleting
                         => worker'[n].podName # 0 \/ worker'[n].phase = "Failed"
                    /\ worker[n].st = "live" /\ worker[n].phase = "Provisioning" /\ worker[n].podName = 0
                         => /\ worker'[n].st = "live" /\ worker'[n].phase = "Provisioning"
                            /\ worker'[n].podName = 0
  BY DEF DeletingNamed, Wedged, Live
<1>1. Moves(n) /\ worker[n] \in WorkerObject /\ worker'[n] \in WorkerObject
  BY PoolMoves, ObjectTypes
<1>2. worker[n].st = "live" /\ (worker[n].deleting \/ n \in plan.dels)
        => worker[n].podName # 0 \/ worker[n].phase = "Failed"
  BY DEF DeletingNamed, PoolInv, PlanNamed, Live
<1>3. \A st \in {"live", "gone"} : Blank(st).st = st /\ ~Blank(st).deleting
  BY BlankFields
<1>4. CASE worker[n].st = "live" /\ (worker[n].deleting \/ n \in plan.dels)
  BY <1>1, <1>2, <1>3, <1>4 DEF Moves, Stays, SamePhase, Live
<1>5. CASE ~(worker[n].st = "live" /\ (worker[n].deleting \/ n \in plan.dels))
  BY <1>1, <1>3, <1>5 DEF Moves, Stays, SamePhase, Live
<1> QED
  BY <1>4, <1>5

\* A worker that is Provisioning without a recorded pod stays so for ever: the worker
\* controller waits for a pod name that nothing writes any more, IsWorkerStuck asks for the
\* pod name first, and the pool controller counts the worker as provisioning.
THEOREM WedgedForGood ==
  PoolSpec => [][\A n \in Names : Wedged(n) => Wedged(n)']_poolVars
<1>1. PoolInit => PoolInv /\ DeletingNamed
  <2>1. Blank("unused").st = "unused"
    BY BlankFields
  <2> QED
    BY <2>1, PoolFactsInit DEF PoolInit, WRInit, KubeInit, DeletingNamed, Live
<1>2. PoolInv /\ DeletingNamed /\ [PoolNext]_poolVars
        => /\ (PoolInv /\ DeletingNamed)'
           /\ [\A n \in Names : Wedged(n) => Wedged(n)']_poolVars
  BY PoolFactsStep, WedgeStep
<1> QED
  BY <1>1, <1>2, PTL DEF PoolSpec
-----------------------------------------------------------------------------
(* What holds besides while the cluster is calm. *)

\* Pods are never late, unschedulable or failed.
PodsFine ==
  \A n \in Names :
    /\ aged[n] = 0
    /\ \A p \in {pod[n], podSeen[n]} :
         p.phase \notin {"unschedulable", "failed"} /\ (p.phase # "none" => p.inc # 0)

\* The pod of a worker that is not being deleted stays ready once it was seen ready.
ReadyStays ==
  \A n \in Names :
    Live(n) /\ ~worker[n].deleting /\ podSeen[n].phase = "ready" => pod[n].phase = "ready"

\* An idle worker's pod has been seen ready; no other phase serves.
IdleIsReady ==
  \A n \in Names :
    /\ worker[n].phase # "Allocated" /\ cache[n].phase # "Allocated"
    /\ n \in Spare => podSeen[n].phase = "ready"

\* A worker the list shows Idle is Idle, or gone.
ListedIdleHolds == \A n \in IdleWorkers : worker[n].phase = "Idle" \/ worker[n].st = "gone"

\* An idle worker that is being deleted, or is about to be, was listed as idle.
DoomedWereListed ==
  \A n \in Names :
    Live(n) /\ worker[n].phase = "Idle" /\ (worker[n].deleting \/ n \in plan.dels)
      => n \in IdleWorkers

\* What the plan will delete is past its start.
DoomedStarted == \A n \in plan.dels : worker[n].phase \notin Starting \/ worker[n].st = "gone"

\* The workers a list may still show idle although they are deleted or about to be.
Leaving == {n \in IdleWorkers : n \notin Spare \/ n \in plan.dels}

\* Scale-down takes the oldest: every worker it has taken is older than each of Min ready
\* workers that the list shows and no plan contains.
YoungerKept ==
  Leaving # {} =>
    \E K \in SUBSET (IdleWorkers \cap Spare) :
      /\ Cardinality(K) = Min
      /\ K \cap plan.dels = {}
      /\ \A d \in Leaving, k \in K : d < k

CalmInv ==
  /\ PoolInv
  /\ PodsFine /\ ReadyStays /\ IdleIsReady /\ ListedIdleHolds /\ DoomedWereListed
  /\ DoomedStarted /\ YoungerKept

\* A calm cluster changes a pod only forwards, except for deleting it after its worker.
PodMoves(m) ==
  \/ pod'[m] = pod[m]
  \/ pod[m].phase = "none" /\ pod'[m].phase = "pending" /\ pod'[m].inc # 0
  \/ /\ pod[m].phase \in {"pending", "unschedulable", "notready"} /\ pod'[m].inc = pod[m].inc
     /\ pod'[m].phase \in {"notready", "ready"}
  \/ pod'[m].phase = "none" /\ (worker[m].st = "gone" \/ worker[m].deleting)

\* Every step of a calm cluster moves the pods so.
LEMMA CalmPods ==
  ASSUME PoolInv, [PoolNext /\ Calm]_poolVars, NEW m \in Names
  PROVE  aged' = aged /\ PodMoves(m)
<1>a. pod \in [Names -> PodObject]
  BY DEF PoolInv, IInv, WRTypeOK, KubeTypeOK
<1>1. CASE UNCHANGED <<aged, pod>>
  BY <1>1 DEF PodMoves
<1>2. ASSUME NEW n \in Names, CreatePod(n) PROVE aged' = aged /\ PodMoves(m)
  <2>1. /\ pod[n].phase = "none" /\ aged' = aged
        /\ pod' = [pod EXCEPT ![n] = [phase |-> "pending", inc |-> pod[n].inc + 1]]
    BY <1>2 DEF CreatePod
  <2>2. pod[n].inc + 1 # 0
    BY <1>a DEF PodObject
  <2>3. CASE n = m
    <3>1. pod'[m] = [phase |-> "pending", inc |-> pod[n].inc + 1]
      BY <1>a, <2>1, <2>3
    <3> QED
      BY <2>1, <2>2, <2>3, <3>1 DEF PodMoves
  <2>4. CASE n # m
    BY <1>a, <2>1, <2>4 DEF PodMoves
  <2> QED
    BY <2>3, <2>4
<1>3. ASSUME NEW n \in Names, DeletePod(n) PROVE aged' = aged /\ PodMoves(m)
  <2>1. aged' = aged /\ cache[n].st = "live" /\ cache[n].deleting
        /\ (pod' = pod \/ pod' = [pod EXCEPT ![n].phase = "none"])
    BY <1>3 DEF DeletePod, Fetched
  <2>2. worker[n].st = "gone" \/ worker[n].deleting
    <3>1. worker[n].st # "unused"
      BY <2>1, BlankFields DEF PoolInv, UnusedUntouched
    <3>2. worker[n].st \in {"unused", "live", "gone"}
      BY DEF PoolInv, IInv, WRTypeOK, KubeTypeOK, WorkerObject
    <3> QED
      BY <2>1, <3>1, <3>2 DEF PoolInv, CachedFactsHold, Live
  <2> QED
    BY <1>a, <2>1, <2>2 DEF PodMoves, PodObject
<1>4. ASSUME NEW n \in Names, KubeProgress(n) PROVE aged' = aged /\ PodMoves(m)
  BY <1>a, <1>1, <1>4 DEF KubeProgress, InformerSync, PodInformerSync, PodTo, PodScheduled,
     PodBecomesReady, GarbageCollect, PodMoves, PodObject
<1>5. CASE ClusterStep /\ Calm
  BY <1>1, <1>4, <1>5 DEF ClusterStep, Calm, AllocationExpires
<1>6. CASE WRStep
  BY Zenon, <1>1, <1>2, <1>3, <1>6 DEF WRStep, Reconcile, RecordPod, RemoveFinalizer, ReconcileAborted,
     AddFinalizer, ParentPoolNotFound, PodAlreadyExists, CreatePodFails, ProvisioningStep,
     DeleteExpired, RunningStep, UpdateStatus
<1>7. CASE PoolStep
  BY <1>1, <1>7 DEF PoolStep, PoolList, PoolDelete, PoolDeleteFails, PoolCreate, PoolCreateFails,
     PoolNamesExhausted, wrVars
<1> QED
  BY <1>1, <1>5, <1>6, <1>7 DEF PoolNext, Restart, poolVars

\* No worker of a calm cluster fails once it serves.
CalmMoves(m) ==
  \/ worker'[m] = worker[m]
  \/ worker[m].st = "unused" /\ worker'[m] = Blank("live")
  \/ Live(m) /\ (worker[m].deleting \/ m \in plan.dels) /\ worker'[m] = Blank("gone")
  \/ /\ Live(m) /\ worker'[m].st = "live" /\ worker'[m].phase = worker[m].phase
     /\ worker'[m].deleting = worker[m].deleting \/ (m \in plan.dels /\ worker'[m].deleting)
  \/ /\ Stays(m) /\ worker[m].phase \in Starting
     /\ \/ worker'[m].phase \notin Serving
        \/ worker'[m].phase = "Idle" /\ ~worker[m].deleting /\ podSeen[m].phase = "ready"

\* Every step of a calm cluster moves the workers so.
LEMMA CalmWorkers ==
  ASSUME CalmInv, [PoolNext]_poolVars, NEW m \in Names
  PROVE  CalmMoves(m)
<1>1. Moves(m)
  BY PoolMoves DEF CalmInv
<1>2. worker[m].phase # "Allocated"
  BY DEF CalmInv, IdleIsReady
<1>3. Live(m) /\ ~worker[m].deleting /\ worker[m].phase = "Idle" => podSeen[m].phase = "ready"
  BY DEF CalmInv, IdleIsReady, Spare
<1> QED
  BY <1>1, <1>2, <1>3 DEF Moves, CalmMoves, Stays, SamePhase, Serving, Starting

\* The pods stay fine and ready, and so do the idle workers.
LEMMA CalmPodsStep ==
  ASSUME CalmInv, [PoolNext /\ Calm]_poolVars
  PROVE  PodsFine' /\ ReadyStays' /\ IdleIsReady'
<1>0. PoolInv /\ [PoolNext]_poolVars
  BY DEF CalmInv
<1>1. ASSUME NEW m \in Names
      PROVE  /\ aged' = aged /\ PodMoves(m) /\ CalmMoves(m)
             /\ cache'[m] = cache[m] \/ (cache'[m] = worker[m] /\ worker'[m] = worker[m])
             /\ podSeen'[m] = podSeen[m] \/ (podSeen'[m] = pod[m] /\ pod'[m] = pod[m])
  BY <1>0, CalmPods, CalmWorkers, CachesFollow
<1>2. PodsFine'
  <2> SUFFICES ASSUME NEW m \in Names
               PROVE  /\ aged'[m] = 0
                      /\ \A p \in {pod'[m], podSeen'[m]} :
                           /\ p.phase \notin {"unschedulable", "failed"}
                           /\ p.phase # "none" => p.inc # 0
    BY DEF PodsFine
  <2>1. /\ aged[m] = 0
        /\ \A p \in {pod[m], podSeen[m]} :
             p.phase \notin {"unschedulable", "failed"} /\ (p.phase # "none" => p.inc # 0)
    BY DEF CalmInv, PodsFine
  <2>2. pod'[m].phase \notin {"unschedulable", "failed"} /\ (pod'[m].phase # "none" => pod'[m].inc # 0)
    BY <1>1, <2>1 DEF PodMoves
  <2> QED
    BY <1>1, <2>1, <2>2
<1>3. ASSUME NEW m \in Names, worker[m].st = "live", ~worker[m].deleting, podSeen[m].phase = "ready"
      PROVE  pod'[m].phase = "ready" /\ podSeen'[m].phase = "ready"
  <2>1. pod[m].phase = "ready"
    BY <1>3 DEF CalmInv, ReadyStays, Live
  <2> QED
    BY <1>1, <1>3, <2>1 DEF PodMoves
<1>4. ReadyStays'
  <2> SUFFICES ASSUME NEW m \in Names, worker'[m].st = "live", ~worker'[m].deleting,
                      podSeen'[m].phase = "ready"
               PROVE  pod'[m].phase = "ready"
    BY DEF ReadyStays, Live
  <2>1. CASE podSeen'[m] = pod[m] /\ pod'[m] = pod[m]
    BY <2>1
  <2>2. CASE podSeen'[m] = podSeen[m]
    <3>1. worker[m].st # "unused"
      BY <2>2 DEF CalmInv, PoolInv, UnusedUntouched, NoPod
    <3>2. CalmMoves(m) /\ Blank("gone").st = "gone"
      BY <1>1, BlankFields
    <3>3. worker[m].deleting \in BOOLEAN /\ worker'[m].deleting \in BOOLEAN
      BY <1>0, ObjectTypes DEF WorkerObject
    <3>4. worker[m].st = "live" /\ ~worker[m].deleting
      BY <3>1, <3>2, <3>3 DEF CalmMoves, Stays, Live
    <3> QED
      BY <1>3, <2>2, <3>4
  <2> QED
    BY <1>1, <2>1, <2>2
<1>5. IdleIsReady'
  <2>1. \A m \in Names : worker'[m].phase # "Allocated"
    <3> SUFFICES ASSUME NEW m \in Names PROVE worker'[m].phase # "Allocated"
      OBVIOUS
    <3>1. worker[m].phase # "Allocated" /\ CalmMoves(m)
      BY <1>1 DEF CalmInv, IdleIsReady
    <3>2. Blank("live").phase = "" /\ Blank("gone").phase = ""
      BY BlankFields
    <3> QED
      BY <3>1, <3>2 DEF CalmMoves, Serving
  <2>2. \A m \in Names : cache'[m].phase # "Allocated"
    BY <1>1, <2>1 DEF CalmInv, IdleIsReady
  <2>3. ASSUME NEW m \in Names, worker'[m].st = "live", ~worker'[m].deleting, worker'[m].phase = "Idle"
        PROVE  podSeen'[m].phase = "ready"
    <3>1. CalmMoves(m) /\ Blank("live").phase = "" /\ Blank("gone").phase = ""
      BY <1>1, BlankFields
    <3>a. worker[m].deleting \in BOOLEAN /\ worker'[m].deleting \in BOOLEAN
      BY <1>0, ObjectTypes DEF WorkerObject
    <3>2. worker[m].st = "live" /\ ~worker[m].deleting
          /\ (worker[m].phase = "Idle" \/ podSeen[m].phase = "ready")
      BY <2>3, <3>1, <3>a DEF CalmMoves, Stays, Live, Serving
    <3>3. podSeen[m].phase = "ready"
      BY <3>2 DEF CalmInv, IdleIsReady, Spare, Live
    <3> QED
      BY <1>3, <3>2, <3>3
  <2> QED
    BY <2>1, <2>2, <2>3 DEF IdleIsReady, Spare, Live
<1> QED
  BY <1>2, <1>4, <1>5

\* While pods are fine no worker is stuck.
LEMMA NoneStuck == ASSUME CalmInv PROVE StuckWorkers = {}
<1> SUFFICES ASSUME NEW n \in Names, IsWorkerStuck(n) PROVE FALSE
  BY DEF StuckWorkers, ProvisioningWorkers, InPhase, Listed
<1>1. cache[n].podName \in Nat /\ podSeen[n].inc \in Nat
  BY DEF CalmInv, PoolInv, IInv, WRTypeOK, KubeTypeOK, WorkerObject, PodObject
<1>2. /\ aged[n] = 0 /\ podSeen[n].phase \notin {"unschedulable", "failed"}
      /\ podSeen[n].phase # "none" => podSeen[n].inc # 0
  BY DEF CalmInv, PodsFine
<1> QED
  BY <1>1, <1>2 DEF IsWorkerStuck, PodView

\* What a list decides on: the idle workers that go, and the rest, which stays.
LEMMA CalmPlan ==
  ASSUME CalmInv, PoolList, DistinctSeconds, ~HasSchedule
  PROVE  \/ plan'.dels = FailedWorkers
         \/ \E S \in SUBSET IdleWorkers :
              /\ plan'.dels = FailedWorkers \cup S
              /\ Cardinality(S) = Cardinality(IdleWorkers) - Min
              /\ \A a \in S, b \in IdleWorkers \ S : a < b
<1>1. plan' \in Plans(FALSE)
  BY DEF PoolList, ScheduleActive
<1>2. StuckWorkers = {}
  BY NoneStuck
<1>3. CASE \E S \in ExcessIdle : plan' = [dels |-> FailedWorkers \cup S, create |-> WorkersToCreate]
  BY <1>3 DEF ExcessIdle
<1> QED
  BY <1>1, <1>2, <1>3 DEF Plans

\* What the next state's idle list and spare workers owe to this one's.
LEMMA IdleMoves ==
  ASSUME CalmInv, [PoolNext]_poolVars, NEW n \in Names
  PROVE  /\ n \in IdleWorkers' =>
              \/ n \in IdleWorkers
              \/ /\ worker'[n] = worker[n] /\ worker[n].st = "live" /\ worker[n].phase = "Idle"
         /\ n \in IdleWorkers /\ worker'[n].st = "live" /\ worker'[n].phase = "Idle"
              => n \in IdleWorkers'
         /\ n \in Spare /\ n \notin plan.dels => n \in Spare'
<1>1. /\ CalmMoves(n)
      /\ cache'[n] = cache[n] \/ (cache'[n] = worker[n] /\ worker'[n] = worker[n])
  BY CalmWorkers, CachesFollow DEF CalmInv
<1>2. n \in IdleWorkers' <=> cache'[n].st = "live" /\ cache'[n].phase = "Idle"
  BY DEF IdleWorkers, InPhase, Listed
<1>3. n \in IdleWorkers <=> cache[n].st = "live" /\ cache[n].phase = "Idle"
  BY DEF IdleWorkers, InPhase, Listed
<1>4. ASSUME n \in Spare, n \notin plan.dels PROVE n \in Spare'
  <2>1. worker[n].st = "live" /\ ~worker[n].deleting /\ worker[n].phase = "Idle"
    BY <1>4 DEF Spare, Live
  <2>2. worker[n].deleting \in BOOLEAN /\ worker'[n].deleting \in BOOLEAN
    BY ObjectTypes DEF CalmInv, WorkerObject
  <2>3. worker'[n].st = "live" /\ ~worker'[n].deleting /\ worker'[n].phase = "Idle"
    BY <1>1, <1>4, <2>1, <2>2 DEF CalmMoves, Starting
  <2> QED
    BY <2>3 DEF Spare, Live
<1> QED
  BY <1>1, <1>2, <1>3, <1>4

\* The workers a list takes for failed have failed, or are gone.
LEMMA ListedFailed ==
  ASSUME CalmInv, NEW n \in FailedWorkers
  PROVE  n \in Names /\ n \notin IdleWorkers /\ (worker[n].phase = "Failed" \/ worker[n].st = "gone")
<1>1. n \in Names /\ cache[n].st = "live" /\ cache[n].phase = "Failed"
  BY DEF FailedWorkers, InPhase, Listed
<1>2. worker[n].st # "unused"
  BY <1>1, BlankFields DEF CalmInv, PoolInv, UnusedUntouched
<1>3. worker[n].st \in {"unused", "live", "gone"}
  BY <1>1 DEF CalmInv, PoolInv, IInv, WRTypeOK, KubeTypeOK, WorkerObject
<1>4. Live(n) => worker[n].phase = "Failed"
  BY <1>1 DEF CalmInv, PoolInv, CachedFactsHold
<1> QED
  BY <1>1, <1>2, <1>3, <1>4 DEF Live, IdleWorkers, InPhase

\* The lists stay as stale as they may be.
LEMMA CalmListsStep ==
  ASSUME CalmInv, [PoolNext]_poolVars, DistinctSeconds, ~HasSchedule
  PROVE  ListedIdleHolds' /\ DoomedWereListed' /\ DoomedStarted'
<1>a. plan.dels \subseteq Names /\ IdleWorkers' \subseteq Names
  BY DEF CalmInv, PoolInv, PlanTypeOK, IdleWorkers, InPhase, Listed
<1>b. Blank("gone").st = "gone" /\ Blank("gone").phase = "" /\ Blank("live").phase = ""
  BY BlankFields
<1>c. PoolInv /\ \A n \in Names : CalmMoves(n)
  BY CalmWorkers DEF CalmInv
<1>1. ASSUME NEW n \in IdleWorkers' PROVE worker'[n].phase = "Idle" \/ worker'[n].st = "gone"
  <2>1. n \in Names /\ CalmMoves(n)
    BY <1>a, <1>c, <1>1
  <2>2. CASE n \in IdleWorkers
    <3>1. worker[n].phase = "Idle" \/ worker[n].st = "gone"
      BY <2>2 DEF CalmInv, ListedIdleHolds
    <3>2. worker[n].st = "unused" => worker[n].phase = ""
      BY <2>1, BlankFields DEF CalmInv, PoolInv, UnusedUntouched
    <3> QED
      BY <1>b, <2>1, <3>1, <3>2 DEF CalmMoves, Stays, Live, Starting
  <2> QED
    BY <2>1, <2>2, <1>1, IdleMoves
<1>2. CASE PoolList
  <2>1. UNCHANGED <<worker, cache>> /\ IdleWorkers' = IdleWorkers
    BY <1>2 DEF PoolList, wrVars, IdleWorkers, InPhase, Listed
  <2>2. plan'.dels \subseteq FailedWorkers \cup IdleWorkers
    BY <1>2, CalmPlan
  <2>3. ASSUME NEW n \in Names, worker[n].st = "live", worker[n].phase = "Idle",
               worker[n].deleting \/ n \in plan'.dels
        PROVE  n \in IdleWorkers
    <3>1. CASE worker[n].deleting
      BY <2>3, <3>1 DEF CalmInv, DoomedWereListed, Live
    <3>2. CASE n \in plan'.dels
      BY <2>2, <2>3, <3>2, ListedFailed
    <3> QED
      BY <2>3, <3>1, <3>2
  <2>4. ASSUME NEW n \in plan'.dels PROVE worker[n].phase \notin Starting \/ worker[n].st = "gone"
    <3>1. worker[n].phase \in {"Failed", "Idle"} \/ worker[n].st = "gone"
      BY <2>2, ListedFailed DEF CalmInv, ListedIdleHolds
    <3> QED
      BY <3>1 DEF Starting
  <2> QED
    BY <1>1, <2>1, <2>3, <2>4 DEF ListedIdleHolds, DoomedWereListed, DoomedStarted, Live
<1>3. CASE plan'.dels \subseteq plan.dels
  <2>1. ASSUME NEW n \in plan'.dels PROVE worker'[n].phase \notin Starting \/ worker'[n].st = "gone"
    <3>1. n \in Names /\ CalmMoves(n)
      BY <1>3, <1>a, <1>c
    <3>2. worker[n].phase \notin Starting \/ worker[n].st = "gone"
      BY <1>3 DEF CalmInv, DoomedStarted
    <3>3. worker[n].st # "unused"
      BY <1>3 DEF CalmInv, PoolInv, PlanNamed
    <3> QED
      BY <1>b, <3>1, <3>2, <3>3 DEF CalmMoves, Stays, Live
  <2>2. ASSUME NEW n \in Names, worker'[n].st = "live", worker'[n].phase = "Idle",
               worker'[n].deleting \/ n \in plan'.dels
        PROVE  n \in IdleWorkers'
    <3>1. CalmMoves(n) /\ worker[n].deleting \in BOOLEAN /\ worker'[n].deleting \in BOOLEAN
      BY <1>c, ObjectTypes DEF WorkerObject
    <3>2. n \in plan.dels => worker[n].phase \notin Starting \/ worker[n].st = "gone"
      BY DEF CalmInv, DoomedStarted
    <3>3. /\ worker[n].st = "live" /\ worker[n].phase = "Idle"
          /\ worker[n].deleting \/ n \in plan.dels
      BY <1>3, <1>b, <2>2, <3>1, <3>2 DEF CalmMoves, Stays, Live, Serving
    <3>4. n \in IdleWorkers
      BY <3>3 DEF CalmInv, DoomedWereListed, Live
    <3> QED
      BY <2>2, <3>4, IdleMoves
  <2> QED
    BY <1>1, <2>1, <2>2 DEF ListedIdleHolds, DoomedWereListed, DoomedStarted, Live
<1> QED
  BY <1>c, <1>2, <1>3, PlanShrinks

\* The sets that are counted are finite.
LEMMA SetsFinite == IsFiniteSet(Names) /\ IsFiniteSet(IdleWorkers) /\ IsFiniteSet(Spare)
<1>1. IsFiniteSet(Names)
  BY FS_Interval, KubeAssumption DEF Names
<1>2. IdleWorkers \subseteq Names /\ Spare \subseteq Names
  BY DEF IdleWorkers, InPhase, Listed, Spare
<1> QED
  BY <1>1, <1>2, FS_Subset

\* What an earlier pass kept, a later list keeps: the Min youngest idle workers it shows
\* are spare.
LEMMA KeptAreSpare ==
  ASSUME CalmInv, NEW S \in SUBSET IdleWorkers,
         Cardinality(S) = Cardinality(IdleWorkers) - Min,
         \A a \in S, b \in IdleWorkers \ S : a < b
  PROVE  Cardinality(IdleWorkers \ S) = Min /\ IdleWorkers \ S \subseteq Spare
<1>a. IdleWorkers \subseteq Names /\ Names \subseteq Int
  BY DEF IdleWorkers, InPhase, Listed, Names
<1>b. Min \in Nat
  BY PoolAssumption
<1>c. /\ IsFiniteSet(IdleWorkers) /\ IsFiniteSet(S) /\ IsFiniteSet(IdleWorkers \ S)
      /\ Cardinality(IdleWorkers) \in Nat /\ Cardinality(S) \in Nat
  BY SetsFinite, FS_Subset, FS_Difference, FS_CardinalityType
<1>1. Cardinality(IdleWorkers \ S) = Min
  <2>1. Cardinality(IdleWorkers \ S) = Cardinality(IdleWorkers) - Cardinality(IdleWorkers \cap S)
    BY <1>c, FS_Difference
  <2>2. IdleWorkers \cap S = S
    OBVIOUS
  <2> QED
    BY <1>b, <1>c, <2>1, <2>2
<1>2. ASSUME NEW k \in IdleWorkers \ S, k \notin Spare PROVE FALSE
  <2>1. k \in Leaving
    BY <1>2 DEF Leaving
  <2>2. PICK K \in SUBSET (IdleWorkers \cap Spare) :
          Cardinality(K) = Min /\ \A d \in Leaving, e \in K : d < e
    BY <2>1 DEF CalmInv, YoungerKept
  <2>3. K \subseteq (IdleWorkers \ S) \ {k}
    <3> SUFFICES ASSUME NEW e \in K PROVE e \notin S /\ e # k
      OBVIOUS
    <3>1. k < e /\ k \in Int /\ e \in Int
      BY <1>a, <1>2, <2>1, <2>2
    <3>2. e \in S => e < k
      BY <1>2
    <3> QED
      BY <3>1, <3>2
  <2>4. /\ IsFiniteSet((IdleWorkers \ S) \ {k})
        /\ Cardinality((IdleWorkers \ S) \ {k}) = Min - 1
    BY <1>c, <1>1, <1>2, FS_RemoveElement
  <2>5. Cardinality(K) <= Min - 1
    BY <2>3, <2>4, FS_Subset
  <2> QED
    BY <1>b, <2>2, <2>5
<1> QED
  BY <1>1, <1>2

\* Every step keeps Min workers that are younger than all it gives up.
LEMMA YoungerStep ==
  ASSUME CalmInv, [PoolNext]_poolVars, DistinctSeconds, ~HasSchedule
  PROVE  YoungerKept'
<1>a. IdleWorkers \subseteq Names /\ IdleWorkers' \subseteq Names /\ Spare \subseteq Names
  BY DEF IdleWorkers, InPhase, Listed, Spare
<1>1. CASE PoolList
  <2>1. plan.dels = {} /\ IdleWorkers' = IdleWorkers /\ Spare' = Spare
    BY <1>1 DEF PoolList, wrVars, NoPlan, IdleWorkers, InPhase, Listed, Spare, Live
  <2>2. FailedWorkers \cap IdleWorkers = {}
    BY ListedFailed
  <2>3. CASE plan'.dels = FailedWorkers
    <3>1. Leaving' = Leaving
      BY <2>1, <2>2, <2>3 DEF Leaving
    <3>2. ASSUME NEW K \in SUBSET (IdleWorkers \cap Spare) PROVE K \cap plan'.dels = {}
      BY <2>2, <2>3
    <3> QED
      BY <2>1, <3>1, <3>2 DEF CalmInv, YoungerKept
  <2>4. ASSUME NEW S \in SUBSET IdleWorkers, plan'.dels = FailedWorkers \cup S,
               Cardinality(S) = Cardinality(IdleWorkers) - Min,
               \A a \in S, b \in IdleWorkers \ S : a < b
        PROVE  YoungerKept'
    <3> DEFINE K == IdleWorkers \ S
    <3>1. Cardinality(K) = Min /\ K \subseteq Spare
      BY <2>4, KeptAreSpare
    <3>2. Leaving' \subseteq S
      BY <2>1, <2>2, <2>4, <3>1 DEF Leaving
    <3>3. K \in SUBSET (IdleWorkers' \cap Spare') /\ K \cap plan'.dels = {}
      BY <2>1, <2>2, <2>4, <3>1
    <3>4. \A d \in Leaving', k \in K : d < k
      BY <2>4, <3>2
    <3> HIDE DEF K
    <3> QED
      BY <3>1, <3>3, <3>4 DEF YoungerKept
  <2> QED
    BY <1>1, <2>3, <2>4, CalmPlan
<1>2. CASE plan'.dels \subseteq plan.dels
  <2>1. Leaving' \subseteq Leaving
    <3> SUFFICES ASSUME NEW n \in Names, n \in IdleWorkers', n \notin Spare' \/ n \in plan'.dels
                 PROVE  n \in IdleWorkers /\ (n \notin Spare \/ n \in plan.dels)
      BY <1>a DEF Leaving
    <3>1. n \notin Spare \/ n \in plan.dels
      BY <1>2, IdleMoves
    <3>2. CASE worker[n].st = "live" /\ worker[n].phase = "Idle"
      BY <3>1, <3>2 DEF CalmInv, DoomedWereListed, Spare, Live
    <3> QED
      BY <3>1, <3>2, IdleMoves
  <2>2. ASSUME NEW K \in SUBSET (IdleWorkers \cap Spare), K \cap plan.dels = {}
        PROVE  K \in SUBSET (IdleWorkers' \cap Spare') /\ K \cap plan'.dels = {}
    <3> SUFFICES ASSUME NEW k \in K PROVE k \in IdleWorkers' /\ k \in Spare'
      BY <1>2, <2>2
    <3>1. k \in Names /\ k \in Spare'
      BY <1>a, <2>2, IdleMoves
    <3>2. worker'[k].st = "live" /\ worker'[k].phase = "Idle"
      BY <3>1 DEF Spare, Live
    <3> QED
      BY <3>1, <3>2, IdleMoves
  <2> QED
    BY <2>1, <2>2 DEF CalmInv, YoungerKept
<1> QED
  BY <1>1, <1>2, PlanShrinks DEF CalmInv

\* What makes scale-down safe is inductive while the cluster is calm.
LEMMA CalmStep ==
  ASSUME CalmInv, [PoolNext /\ Calm]_poolVars, DistinctSeconds, ~HasSchedule
  PROVE  CalmInv'
<1>1. PoolInv' /\ [PoolNext]_poolVars
  BY PoolFactsStep DEF CalmInv
<1> QED
  BY <1>1, CalmPodsStep, CalmListsStep, YoungerStep DEF CalmInv

\* A spare worker is given up only when Min others are left.
LEMMA ScaleDownStep ==
  ASSUME CalmInv, [PoolNext]_poolVars
  PROVE  Spare \ Spare' # {} => Cardinality(Spare') >= Min
<1> SUFFICES ASSUME NEW n \in Spare, n \notin Spare' PROVE Cardinality(Spare') >= Min
  OBVIOUS
<1>1. n \in Names /\ n \in plan.dels
  BY IdleMoves DEF Spare
<1>2. n \in Leaving
  BY <1>1 DEF CalmInv, DoomedWereListed, Spare, Leaving
<1>3. PICK K \in SUBSET (IdleWorkers \cap Spare) : Cardinality(K) = Min /\ K \cap plan.dels = {}
  BY <1>2 DEF CalmInv, YoungerKept
<1>4. K \subseteq Spare'
  <2> SUFFICES ASSUME NEW k \in K PROVE k \in Spare'
    OBVIOUS
  <2>1. k \in Names /\ k \in Spare /\ k \notin plan.dels
    BY <1>3 DEF Spare
  <2> QED
    BY <2>1, IdleMoves
<1>5. IsFiniteSet(Spare')
  <2>1. Spare' \subseteq Names
    BY DEF Spare
  <2> QED
    BY <2>1, SetsFinite, FS_Subset
<1>6. Cardinality(K) <= Cardinality(Spare') /\ Cardinality(Spare') \in Nat
  BY <1>4, <1>5, FS_Subset, FS_CardinalityType
<1> QED
  BY <1>3, <1>6, PoolAssumption

\* The invariant holds at the start.
LEMMA CalmInit == PoolInit => CalmInv
<1> SUFFICES ASSUME PoolInit PROVE CalmInv
  OBVIOUS
<1>1. PoolInv
  BY PoolFactsInit
<1>2. /\ \A n \in Names : /\ worker[n] = Blank("unused") /\ cache[n] = Blank("unused")
                          /\ pod[n] = NoPod /\ podSeen[n] = NoPod /\ aged[n] = 0
      /\ plan.dels = {}
  BY DEF PoolInit, WRInit, KubeInit, NoPlan
<1>3. PodsFine /\ ReadyStays
  <2>1. NoPod.phase = "none"
    BY DEF NoPod
  <2> QED
    BY <1>2, <2>1 DEF PodsFine, ReadyStays
<1>4. Spare = {} /\ IdleWorkers = {}
  BY <1>2, BlankFields DEF Spare, IdleWorkers, InPhase, Listed, Live
<1>5. IdleIsReady
  BY <1>2, <1>4, BlankFields DEF IdleIsReady
<1>6. ListedIdleHolds /\ DoomedWereListed /\ DoomedStarted /\ YoungerKept
  BY <1>2, <1>4, BlankFields DEF ListedIdleHolds, DoomedWereListed, DoomedStarted, YoungerKept,
     Leaving, Live
<1> QED
  BY <1>1, <1>3, <1>5, <1>6 DEF CalmInv

\* While pods stay healthy, no scale-down ever leaves the pool with fewer than Min spare
\* workers: not from a stale list, not across restarts, failed calls or overlapping passes.
\* It needs creation times that tell workers apart, and no schedule that scales to zero.
THEOREM ScaleDownSafe ==
  DistinctSeconds /\ ~HasSchedule => (CalmPoolSpec => ScaleDownKeepsMin)
<1> SUFFICES ASSUME DistinctSeconds, ~HasSchedule PROVE CalmPoolSpec => ScaleDownKeepsMin
  OBVIOUS
<1>1. CalmInv /\ [PoolNext /\ Calm]_poolVars
        => CalmInv' /\ [Spare \ Spare' # {} => Cardinality(Spare') >= Min]_poolVars
  BY CalmStep, ScaleDownStep
<1> QED
  BY <1>1, CalmInit, PTL DEF CalmPoolSpec, ScaleDownKeepsMin
=============================================================================
