----------------------------- MODULE PoolScaler -----------------------------
(***************************************************************************)
(* The pool controller's worker manager, internal/controller/worker/       *)
(* manager.go with the helpers of internal/controller/shared/helpers.go,   *)
(* beside the worker controller.                                           *)
(*                                                                         *)
(* reconcileWorkers lists the pool's workers from the informer cache,      *)
(* sorts them into categories, and then sends one Delete or Create per     *)
(* worker.  The list is one action that fixes the calls to be made; every  *)
(* call is an action of its own, so the rest of the program runs between   *)
(* them.  A pass that decides to make no call is stuttering.               *)
(***************************************************************************)
EXTENDS WorkerReconciler

CONSTANTS
  Min,              \* pool.Spec.Scaling.Min (nil counts as 0)
  Max,              \* pool.Spec.Scaling.Max: read by the API server, not by the manager
  HasSchedule,      \* pool.Spec.Scaling.ScaleDownSchedule is set and parses
  DistinctSeconds   \* no two workers were created within the same second

ASSUME PoolAssumption ==
  /\ Min \in Nat
  /\ Max \in Nat \ {0}
  /\ HasSchedule \in BOOLEAN
  /\ DistinctSeconds \in BOOLEAN

VARIABLE plan   \* calls the current pass has still to send

poolVars == <<worker, cache, pod, podSeen, aged, lease, expired, poolUp, faults, recon, plan>>

NoPlan == [dels |-> {}, create |-> 0]

PoolTypeOK ==
  /\ WRTypeOK
  /\ plan \in [dels : SUBSET Names, create : 0..Min]

PoolInit == WRInit /\ plan = NoPlan
-----------------------------------------------------------------------------
\* ListWorkersByPool, from the cache; workers being deleted are included.
Listed == {n \in Names : cache[n].st = "live"}
InPhase(P) == {n \in Listed : cache[n].phase \in P}

\* IsWorkerStuck: CreatedAt and PodName are recorded together.
IsWorkerStuck(n) ==
  /\ cache[n].podName # 0
  /\ \/ cache[n].podName <= aged[n]
     \/ PodView(n) \in {"unschedulable", "failed"}
     \/ PodView(n) = "pending" /\ podSeen[n].inc <= aged[n]

\* CategorizeWorkers: a worker whose phase is still "" is in no category.
IdleWorkers == InPhase({"Idle"})
ProvisioningWorkers == InPhase({"Pending", "Provisioning"})

\* Mutant of FailedWorkers: only workers that got as far as a pod.
FailedWithPod == {n \in InPhase({"Failed"}) : cache[n].podName # 0}

FailedWorkers == InPhase({"Failed"})
StuckWorkers == {n \in ProvisioningWorkers : IsWorkerStuck(n)}

Smaller(a, b) == IF a < b THEN a ELSE b

\* Mutant of ExcessIdle: the idle workers are taken as listed, unsorted.
ExcessUnsorted == {S \in SUBSET IdleWorkers : Cardinality(S) = Cardinality(IdleWorkers) - Min}

\* scaleDownExcessIdleWorkers: the oldest ones.  CreationTimestamp counts whole
\* seconds and the sort is not stable, so workers of one second come in any order.
ExcessIdle ==
  {S \in SUBSET IdleWorkers :
     /\ Cardinality(S) = Cardinality(IdleWorkers) - Min
     /\ DistinctSeconds => \A a \in S, b \in IdleWorkers \ S : a < b}

\* ensureMinimumWorkers, after the excess has been taken off.
MissingWorkers ==
  Min - (Smaller(Cardinality(IdleWorkers), Min)
           + Cardinality(ProvisioningWorkers) - Cardinality(StuckWorkers))

\* Mutants of WorkersToCreate: no lower bound; an off-by-one in the test.
CreateUnclamped == MissingWorkers
CreateIfTwoMissing == IF MissingWorkers > 1 THEN MissingWorkers ELSE 0

WorkersToCreate == IF MissingWorkers > 0 THEN MissingWorkers ELSE 0

\* checkScaleDownSchedule: the answers a pass may get.
ScheduleActive == IF HasSchedule THEN BOOLEAN ELSE {FALSE}

\* What a pass decides, given checkScaleDownSchedule's answer.
Plans(toZero) ==
  LET cleanup == FailedWorkers \cup StuckWorkers
  IN  IF toZero THEN {[dels |-> cleanup \cup IdleWorkers, create |-> 0]}
      ELSE IF Min = 0 THEN {[dels |-> cleanup, create |-> 0]}
      ELSE IF Cardinality(IdleWorkers) > Min
             THEN {[dels |-> cleanup \cup S, create |-> WorkersToCreate] : S \in ExcessIdle}
      ELSE {[dels |-> cleanup, create |-> WorkersToCreate]}

PoolList ==
  /\ poolUp
  /\ plan = NoPlan
  /\ \E toZero \in ScheduleActive : plan' \in Plans(toZero)
  /\ plan' # NoPlan
  /\ UNCHANGED wrVars

\* DeleteWorkers and scaleDownExcessIdleWorkers: one Delete.
PoolDelete(n) ==
  /\ n \in plan.dels
  /\ worker' = Deleted(n)
  /\ plan' = [plan EXCEPT !.dels = @ \ {n}]
  /\ UNCHANGED <<cache, pod, podSeen, aged, lease, expired, poolUp, faults, recon>>

\* ... which fails: the error is logged and the loop goes on.
PoolDeleteFails(n) ==
  /\ n \in plan.dels
  /\ Fault
  /\ plan' = [plan EXCEPT !.dels = @ \ {n}]
  /\ UNCHANGED <<worker, cache, pod, podSeen, aged, lease, expired, poolUp, recon>>

\* createWorkers: one Create.
PoolCreate(n) ==
  /\ plan.dels = {} /\ plan.create > 0
  /\ NextName(n)
  /\ worker' = Created(n)
  /\ plan' = [plan EXCEPT !.create = @ - 1]
  /\ UNCHANGED <<cache, pod, podSeen, aged, lease, expired, poolUp, faults, recon>>

\* ... which fails: the pass ends with the error.
PoolCreateFails ==
  /\ plan.dels = {} /\ plan.create > 0
  /\ Fault
  /\ plan' = NoPlan
  /\ UNCHANGED <<worker, cache, pod, podSeen, aged, lease, expired, poolUp, recon>>

\* The bound on names: a pass that finds none left stops.
PoolNamesExhausted ==
  /\ plan.dels = {} /\ plan.create > 0
  /\ \A n \in Names : worker[n].st # "unused"
  /\ plan' = NoPlan
  /\ UNCHANGED wrVars

PoolStep ==
  \/ PoolList
  \/ \E n \in Names : PoolDelete(n) \/ PoolDeleteFails(n) \/ PoolCreate(n)
  \/ PoolCreateFails \/ PoolNamesExhausted

PoolNext ==
  \/ PoolStep
  \/ (WRStep \/ ClusterStep) /\ UNCHANGED plan
  \/ Restart /\ plan' = NoPlan

PoolSpec == PoolInit /\ [][PoolNext]_poolVars

\* No pod is lost, found unschedulable or ten minutes late.
Calm == \A n \in Names : ~KubeFault(n)

\* The pool while the cluster is calm: crashes and failed calls are left.
CalmPoolSpec == PoolInit /\ [][PoolNext /\ Calm]_poolVars

\* A pass has a call to make whatever the schedule says.
PoolDue == \A toZero \in ScheduleActive : NoPlan \notin Plans(toZero)

\* The pool is reconciled every 30 seconds and on every worker event; when the
\* schedule is active is nobody's promise.
PoolFairness ==
  /\ WRFairness
  /\ WF_poolVars(PoolDue /\ PoolList)
  /\ WF_poolVars(PoolNamesExhausted)
  /\ \A n \in Names : WF_poolVars(PoolDelete(n)) /\ WF_poolVars(PoolCreate(n))

PoolFairSpec == PoolSpec /\ PoolFairness
-----------------------------------------------------------------------------
\* Workers ready to be handed out.
Spare == {n \in Names : Live(n) /\ ~worker[n].deleting /\ worker[n].phase = "Idle"}
LiveWorkers == {n \in Names : Live(n)}

\* Provisioning with no PodName recorded: reconcileProvisioning fails for ever
\* and IsWorkerStuck never holds.
Wedged(n) == Live(n) /\ worker[n].phase = "Provisioning" /\ worker[n].podName = 0

\* The bound on names keeps the pool from creating a worker it wants.
OutOfNames == plan.create > 0 /\ \A n \in Names : worker[n].st # "unused"

\* ensureMinimumWorkers keeps Min workers ready: from some time on there are
\* Min spare workers, unless one worker is wedged for good.
MinReadyUnlessWedged ==
  \/ <>[](Cardinality(Spare) >= Min \/ \E n \in Names : Wedged(n))
  \/ []<>OutOfNames

\* "the number of available workers that should always be ready": from some
\* time on there are Min spare workers.
MinReady == <>[](Cardinality(Spare) >= Min) \/ []<>OutOfNames

\* A worker whose pod was recorded and that is still starting after ten
\* minutes, and a worker that has failed, is deleted or leaves that state.
StuckAndFailedReplaced ==
  \A n \in Names :
    (Live(n) /\ \/ worker[n].phase = "Failed"
                \/ worker[n].phase \in Starting /\ worker[n].podName \in 1..aged[n])
      ~> (~Live(n) \/ worker[n].deleting \/ worker[n].phase \in Serving)

\* While the cluster is calm, a worker stops being ready only by being scaled down,
\* and that never leaves fewer than Min ready, although every pass works from a list
\* that may be stale and the process may crash in the middle of one.
ScaleDownKeepsMin ==
  [][Spare \ Spare' # {} => Cardinality(Spare') >= Min]_poolVars

\* "Max is the maximum number of replicas": the pool never has more worker
\* objects than Max.
MaxRespected == Cardinality(LiveWorkers) <= Max
=============================================================================
