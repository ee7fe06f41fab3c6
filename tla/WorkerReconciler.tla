-------------------------- MODULE WorkerReconciler --------------------------
(***************************************************************************)
(* The BuildKitWorker controller, internal/controller/worker_controller.go.*)
(*                                                                         *)
(* A reconciliation reads the worker (and its pod) from the informer cache *)
(* and ends in at most one write to the worker, so reading and writing are *)
(* one action: a stale copy makes the write conflict, and a conflict only  *)
(* requeues.  The two branches that write twice are two actions with the   *)
(* copy held in between: creating the pod and then recording it, deleting  *)
(* the pod and then dropping the finalizer.  The controller runs one       *)
(* reconciliation at a time (MaxConcurrentReconciles is left at 1).        *)
(* Reconciliations that change nothing are stuttering.                     *)
(*                                                                         *)
(* The rest of the program is an environment that creates, allocates and   *)
(* deletes workers the way its callers of the API server do.               *)
(***************************************************************************)
EXTENDS KubeWorkers

VARIABLE recon   \* the reconciliation between its two writes

wrVars == <<worker, cache, pod, podSeen, aged, lease, expired, poolUp, faults, recon>>

NoRecon == [op |-> "none", n |-> 0, obj |-> Blank("unused"), inc |-> 0]
Recon ==
  [op : {"none", "podCreated", "podDeleted"}, n : Names \cup {0}, obj : WorkerObject, inc : Nat]

WRTypeOK ==
  /\ KubeTypeOK
  /\ recon \in Recon
  /\ recon.op # "none" => recon.n \in Names

WRInit == KubeInit /\ recon = NoRecon

\* Status().Update of the copy o of worker n; a conflict changes nothing.
UpdateStatus(n, o, new) ==
  /\ Fresh(n, o)
  /\ o # new
  /\ worker' = [worker EXCEPT ![n] = new]
  /\ UNCHANGED <<cache, pod, podSeen, aged, lease, expired, poolUp, faults, recon>>

\* Reconcile has fetched worker n and got past the not-found return.
Fetched(n) == recon.op = "none" /\ cache[n].st = "live"

\* Mutant of Dispatched: the finalizer is added along the way, not first.
DispatchedWithoutFinalizer(n) == Fetched(n) /\ ~cache[n].deleting /\ poolUp

\* ... and past the deletion and finalizer branches, with the pool found.
Dispatched(n) == Fetched(n) /\ ~cache[n].deleting /\ cache[n].fin /\ poolUp

AddFinalizer(n) ==
  /\ Fetched(n) /\ ~cache[n].deleting /\ ~cache[n].fin
  /\ Fresh(n, cache[n])
  /\ worker' = [worker EXCEPT ![n].fin = TRUE]
  /\ UNCHANGED <<cache, pod, podSeen, aged, lease, expired, poolUp, faults, recon>>

\* Mutant of ParentPoolNotFound: a phase the controller never leaves.
ParentPoolTerminates(n) ==
  /\ Fetched(n) /\ ~cache[n].deleting /\ cache[n].fin /\ ~poolUp
  /\ UpdateStatus(n, cache[n], [cache[n] EXCEPT !.phase = "Terminating"])

ParentPoolNotFound(n) ==
  /\ Fetched(n) /\ ~cache[n].deleting /\ cache[n].fin /\ ~poolUp
  /\ UpdateStatus(n, cache[n], [cache[n] EXCEPT !.phase = "Failed"])

\* Mutant of CreatePod: a pod that disappeared is created again in place.
RecreatePod(n) ==
  /\ Dispatched(n)
  /\ cache[n].phase \in {"", "Pending"} \/ (cache[n].phase \in Serving /\ PodView(n) = "none")
  /\ pod[n].phase = "none"
  /\ pod' = [pod EXCEPT ![n] = [phase |-> "pending", inc |-> @.inc + 1]]
  /\ recon' = [op |-> "podCreated", n |-> n, obj |-> cache[n], inc |-> pod[n].inc + 1]
  /\ UNCHANGED <<worker, cache, podSeen, aged, lease, expired, poolUp, faults>>

\* reconcilePending, the Create of the pod succeeds.
CreatePod(n) ==
  /\ Dispatched(n) /\ cache[n].phase \in {"", "Pending"}
  /\ pod[n].phase = "none"
  /\ pod' = [pod EXCEPT ![n] = [phase |-> "pending", inc |-> @.inc + 1]]
  /\ recon' = [op |-> "podCreated", n |-> n, obj |-> cache[n], inc |-> pod[n].inc + 1]
  /\ UNCHANGED <<worker, cache, podSeen, aged, lease, expired, poolUp, faults>>

\* reconcilePending, IsAlreadyExists: the phase is set, PodName is not.
PodAlreadyExists(n) ==
  /\ Dispatched(n) /\ cache[n].phase \in {"", "Pending"}
  /\ pod[n].phase # "none"
  /\ UpdateStatus(n, cache[n], [cache[n] EXCEPT !.phase = "Provisioning"])

\* reconcilePending, any other error of Create (quota, admission).
CreatePodFails(n) ==
  /\ Dispatched(n) /\ cache[n].phase \in {"", "Pending"}
  /\ Fresh(n, cache[n])
  /\ Fault
  /\ worker' = [worker EXCEPT ![n].phase = "Failed"]
  /\ UNCHANGED <<cache, pod, podSeen, aged, lease, expired, poolUp, recon>>

\* reconcilePending, the Status().Update after the pod was created.
RecordPod ==
  /\ recon.op = "podCreated"
  /\ worker' = IF Fresh(recon.n, recon.obj)
                 THEN [worker EXCEPT ![recon.n].phase = "Provisioning",
                                     ![recon.n].podName = recon.inc]
                 ELSE worker
  /\ recon' = NoRecon
  /\ UNCHANGED <<cache, pod, podSeen, aged, lease, expired, poolUp, faults>>

\* reconcileProvisioning.  An empty PodName is an error that is not NotFound:
\* the reconciliation fails and is retried, changing nothing.
ProvisioningStep(n) ==
  LET o == cache[n]
      seen == PodView(n)
  IN  /\ Dispatched(n) /\ o.phase = "Provisioning" /\ o.podName # 0
      /\ \/ seen = "none" /\ UpdateStatus(n, o, [o EXCEPT !.phase = "Pending"])
         \/ /\ seen = "ready"
            /\ UpdateStatus(n, o, [o EXCEPT !.phase = "Idle", !.endpoint = podSeen[n].inc])
         \/ seen = "failed" /\ UpdateStatus(n, o, [o EXCEPT !.phase = "Failed"])
         \/ /\ seen \in {"pending", "unschedulable"} /\ podSeen[n].inc <= aged[n]
            /\ UpdateStatus(n, o, [o EXCEPT !.phase = "Failed"])

AllocationExpired(o) == o.alloc # NoAlloc /\ o.alloc \in expired

\* Mutant of DesiredPhase: the phase of the API that no code path stores.
DesiredRunning(o) == IF o.alloc # NoAlloc THEN "Running" ELSE "Idle"

DesiredPhase(o) == IF o.alloc # NoAlloc THEN "Allocated" ELSE "Idle"

\* Mutant of DeleteExpired: the worker goes back to the idle ones.
IdleExpired(n) ==
  /\ Dispatched(n) /\ AllocationExpired(cache[n])
  /\ UpdateStatus(n, cache[n], [cache[n] EXCEPT !.phase = "Idle"])

\* reconcileRunning, the expired allocation: a Delete with no precondition.
DeleteExpired(n) ==
  /\ Dispatched(n) /\ cache[n].phase \in Serving
  /\ AllocationExpired(cache[n])
  /\ worker' = Deleted(n)
  /\ UNCHANGED <<cache, pod, podSeen, aged, lease, expired, poolUp, faults, recon>>

\* Mutant of RunningStep: a lost pod sends the worker back to Pending, as
\* reconcileProvisioning does.
RunningBackToPending(n) ==
  LET o == cache[n]
  IN  /\ Dispatched(n) /\ o.phase \in Serving /\ o.podName # 0
      /\ ~AllocationExpired(o)
      /\ UpdateStatus(n, o, [o EXCEPT !.phase =
                               IF PodView(n) # "ready" THEN "Pending" ELSE DesiredPhase(o)])

\* reconcileRunning, the rest: a pod that is gone or not ready fails the
\* worker, otherwise the phase follows Spec.Allocation.
RunningStep(n) ==
  LET o == cache[n]
  IN  /\ Dispatched(n) /\ o.phase \in Serving /\ o.podName # 0
      /\ ~AllocationExpired(o)
      /\ UpdateStatus(n, o, [o EXCEPT !.phase =
                               IF PodView(n) # "ready" THEN "Failed" ELSE DesiredPhase(o)])

\* Mutant of DeletePod: without deleteWorkerPod's early return, an empty
\* PodName is an error and the finalizer stays.
DeletePodNeedsName(n) ==
  /\ Fetched(n) /\ cache[n].deleting /\ cache[n].podName # 0
  /\ pod' = IF PodView(n) # "none" THEN [pod EXCEPT ![n].phase = "none"] ELSE pod
  /\ recon' = [op |-> "podDeleted", n |-> n, obj |-> cache[n], inc |-> 0]
  /\ UNCHANGED <<worker, cache, podSeen, aged, lease, expired, poolUp, faults>>

\* reconcileDelete, deleteWorkerPod.
DeletePod(n) ==
  /\ Fetched(n) /\ cache[n].deleting
  /\ pod' = IF cache[n].podName # 0 /\ PodView(n) # "none"
              THEN [pod EXCEPT ![n].phase = "none"]
              ELSE pod
  /\ recon' = [op |-> "podDeleted", n |-> n, obj |-> cache[n], inc |-> 0]
  /\ UNCHANGED <<worker, cache, podSeen, aged, lease, expired, poolUp, faults>>

\* reconcileDelete, the Update that removes the finalizer.
RemoveFinalizer ==
  /\ recon.op = "podDeleted"
  /\ worker' = IF Fresh(recon.n, recon.obj) THEN FinalizerRemoved(recon.n) ELSE worker
  /\ recon' = NoRecon
  /\ UNCHANGED <<cache, pod, podSeen, aged, lease, expired, poolUp, faults>>

\* A call of the reconciliation in flight fails; it returns the error.
ReconcileAborted ==
  /\ recon.op # "none"
  /\ Fault
  /\ recon' = NoRecon
  /\ UNCHANGED <<worker, cache, pod, podSeen, aged, lease, expired, poolUp>>

\* The process stops and restarts; its caches are filled before it reconciles.
Restart ==
  /\ Fault
  /\ recon' = NoRecon
  /\ cache' = worker
  /\ podSeen' = pod
  /\ UNCHANGED <<worker, pod, aged, lease, expired, poolUp>>

Reconcile(n) ==
  \/ AddFinalizer(n) \/ ParentPoolNotFound(n)
  \/ CreatePod(n) \/ PodAlreadyExists(n) \/ CreatePodFails(n)
  \/ ProvisioningStep(n)
  \/ DeleteExpired(n) \/ RunningStep(n)
  \/ DeletePod(n)

WRStep ==
  \/ \E n \in Names : Reconcile(n)
  \/ RecordPod \/ RemoveFinalizer
  \/ ReconcileAborted

ClusterStep ==
  \/ \E n \in Names : (KubeProgress(n) \/ KubeFault(n)) /\ UNCHANGED recon
  \/ \E a \in Allocs : AllocationExpires(a) /\ UNCHANGED recon
-----------------------------------------------------------------------------
(* The rest of the program, as far as it writes worker objects. *)

EnvUnchanged == UNCHANGED <<cache, pod, podSeen, aged, expired, poolUp, faults, recon>>

\* createWorkers and findOrCreateWorker.
EnvCreate(n) == NextName(n) /\ worker' = Created(n) /\ UNCHANGED lease /\ EnvUnchanged

\* handleWorkerAllocate issues a token ...
EnvIssue(a) ==
  /\ lease[a] = "none"
  /\ lease' = [lease EXCEPT ![a] = "issued"]
  /\ UNCHANGED worker /\ EnvUnchanged

\* ... and sends one Update: the copy it updates was in phase Idle, and a
\* conflict changes nothing.
EnvAllocate(n, a) ==
  /\ lease[a] = "issued"
  /\ lease' = [lease EXCEPT ![a] = "spent"]
  /\ \/ Live(n) /\ worker[n].phase = "Idle" /\ worker' = [worker EXCEPT ![n].alloc = a]
     \/ UNCHANGED worker
  /\ EnvUnchanged

\* DeleteWorkers, scaleDownExcessIdleWorkers, handleWorkerRelease, a user.
EnvDelete(n) == Live(n) /\ worker' = Deleted(n) /\ UNCHANGED lease /\ EnvUnchanged

\* A call of another component fails and changes nothing here.
EnvFault == Fault /\ UNCHANGED <<worker, cache, pod, podSeen, aged, lease, expired, poolUp, recon>>

WREnv ==
  \/ EnvFault
  \/ \E n \in Names : EnvCreate(n) \/ EnvDelete(n)
  \/ \E n \in Names, a \in Allocs : EnvAllocate(n, a)
  \/ \E a \in Allocs : EnvIssue(a)

WRNext == WRStep \/ ClusterStep \/ Restart \/ (PoolDeleted /\ UNCHANGED recon) \/ WREnv

WRSpec == WRInit /\ [][WRNext]_wrVars

\* Every watch event and every RequeueAfter puts the worker back in the FIFO
\* work queue, so a worker with something to do is reconciled again; the
\* informers, the kubelet and the garbage collector make progress.
WRFairness ==
  /\ \A n \in Names :
       /\ SF_wrVars(Reconcile(n))
       /\ WF_wrVars(InformerSync(n) /\ UNCHANGED recon)
       /\ WF_wrVars(PodInformerSync(n) /\ UNCHANGED recon)
       /\ WF_wrVars(PodScheduled(n) /\ UNCHANGED recon)
       /\ WF_wrVars(PodBecomesReady(n) /\ UNCHANGED recon)
       /\ WF_wrVars(GarbageCollect(n) /\ UNCHANGED recon)
  /\ WF_wrVars(RecordPod)
  /\ WF_wrVars(RemoveFinalizer)

WRFairSpec == WRSpec /\ WRFairness
-----------------------------------------------------------------------------
\* A pod exists under a worker object only once the object carries the
\* finalizer, so no pod can lose its owner without reconcileDelete running.
PodUnderFinalizer ==
  \A n \in Names : Live(n) /\ pod[n].phase # "none" => worker[n].fin

\* No pod is created for a worker while it is Idle or Allocated, however
\* stale the copy reconcilePending works from: the pod behind an endpoint that
\* has been handed out is never replaced by another.
ServingPodKept ==
  [][\A n \in Names :
       Live(n) /\ worker[n].phase \in Serving => pod'[n].inc = pod[n].inc]_wrVars

\* "Endpoint is the internal endpoint for the gateway to reach this worker":
\* when the caches are up to date and the pod is ready, so that the controller
\* has nothing left to do, a serving worker publishes that pod's address.
EndpointCurrent ==
  \A n \in Names :
    /\ Live(n) /\ worker[n].phase \in Serving /\ cache[n] = worker[n]
    /\ pod[n].phase = "ready" /\ podSeen[n] = pod[n]
    => worker[n].endpoint = pod[n].inc

\* A worker that has been Idle, Allocated or Failed is never provisioned
\* again under the same name: reconcileRunning fails it instead.
NeverReprovisioned ==
  [][\A n \in Names :
       Live(n) /\ worker[n].phase \notin Starting /\ Live(n)'
         => worker'[n].phase \notin Starting]_wrVars

\* A worker being deleted goes away, and no pod stays behind it, whatever
\* crash or conflict interrupts reconcileDelete.
DeletionCompletes ==
  \A n \in Names : worker[n].deleting ~> (worker[n].st = "gone" /\ pod[n].phase = "none")

\* A worker whose allocation has expired is deleted or has failed, or has
\* been given another allocation.
ExpiredReclaimed ==
  \A n \in Names, a \in Allocs :
    (worker[n].alloc = a /\ a \in expired)
      ~> (worker[n].deleting \/ ~Live(n) \/ worker[n].phase = "Failed" \/ worker[n].alloc # a)
=============================================================================
