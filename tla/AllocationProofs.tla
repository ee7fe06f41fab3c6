-------------------------- MODULE AllocationProofs --------------------------
(***************************************************************************)
(* The whole controller process, API server, pool manager and worker       *)
(* controller together, implements the worker controller in its assumed    *)
(* environment, so what is proved of WRSpec holds of the whole process.    *)
(*                                                                         *)
(* Every step is matched with a step of WRNext or with stuttering.  Only   *)
(* the Update of an allocate request needs an invariant: EnvAllocate lets  *)
(* a token be written once, to a worker that was read in phase Idle.       *)
(***************************************************************************)
EXTENDS Allocation, PoolScalerProofs

\* A step of request a: of its goroutine, its timers or its client.
HandlerStep(a) ==
  \/ Handle(a) \/ WaitTimesOut(a) \/ WriteTimeout(a) \/ ClientLeaves(a)
  \/ DropExpiredToken(a) \/ ReleaseDelete(a)

Unissued == {"start", "create", "waitIdle", "waitReady", "picked"}
HasWorker == {"waitReady", "picked", "update", "cert", "replied", "revoke", "released"}

\* A request's token is issued once, right before its Update, for a worker
\* whose copy is in phase Idle.
RequestInv ==
  /\ req \in [Allocs -> Request]
  /\ DOMAIN lease = Allocs
  /\ \A a \in Allocs :
       /\ req[a].pc \in Unissued => lease[a] = "none"
       /\ req[a].pc = "update" => lease[a] = "issued"
       /\ req[a].pc \in {"picked", "update"} => req[a].obj.phase = "Idle"
       /\ req[a].pc \in HasWorker => req[a].n \in Names

\* The initial states satisfy it.
LEMMA RequestInit == AllocInit => RequestInv /\ WRInit
<1> SUFFICES ASSUME AllocInit PROVE RequestInv /\ WRInit
  OBVIOUS
<1>1. Blank("unused") \in WorkerObject
  BY BlankType
<1> QED
  BY <1>1 DEF AllocInit, PoolInit, WRInit, KubeInit, RequestInv, Request, Unissued, HasWorker

\* The pool manager's and the worker controller's steps leave requests and
\* leases alone.
LEMMA OthersLeaveLeases ==
  ASSUME PoolStep \/ WRStep \/ ClusterStep \/ Restart
  PROVE  lease' = lease
<1>1. ASSUME NEW n \in Names, Reconcile(n) PROVE lease' = lease
  BY <1>1 DEF Reconcile, AddFinalizer, ParentPoolNotFound, CreatePod, PodAlreadyExists,
     CreatePodFails, ProvisioningStep, DeleteExpired, RunningStep, DeletePod, UpdateStatus
<1>2. ASSUME NEW n \in Names, KubeProgress(n) \/ KubeFault(n) PROVE lease' = lease
  BY <1>2 DEF KubeProgress, KubeFault, InformerSync, PodInformerSync, TenMinutesPass, PodTo,
     PodScheduled, PodBecomesReady, GarbageCollect, PodUnschedulable, PodLosesReadiness,
     PodFails, PodEvicted
<1>3. CASE WRStep
  BY <1>1, <1>3 DEF WRStep, RecordPod, RemoveFinalizer, ReconcileAborted
<1>4. CASE ClusterStep
  BY <1>2, <1>4 DEF ClusterStep, AllocationExpires
<1>5. CASE PoolStep
  BY <1>5 DEF PoolStep, PoolList, PoolDelete, PoolDeleteFails, PoolCreate, PoolCreateFails,
     PoolNamesExhausted, wrVars
<1> QED
  BY <1>3, <1>4, <1>5 DEF Restart

\* Every step of the process is a step of the worker controller, of its
\* environment, or none.
LEMMA StepRefines ==
  ASSUME RequestInv, [AllocNext]_allocVars
  PROVE  [WRNext]_wrVars
<1>1. ASSUME NEW a \in Allocs, NEW n \in Names, CreateWorker(a, n) PROVE [WRNext]_wrVars
  BY <1>1 DEF CreateWorker, WRNext, WREnv, EnvCreate, EnvUnchanged
<1>2. ASSUME NEW a \in Allocs, CreateWorkerFails(a) PROVE [WRNext]_wrVars
  BY <1>2, FaultIsEnv DEF CreateWorkerFails, wrVars
<1>3. ASSUME NEW a \in Allocs, IssueToken(a) PROVE [WRNext]_wrVars
  <2>1. lease[a] = "none"
    BY <1>3 DEF IssueToken, At, RequestInv, Unissued
  <2>2. EnvIssue(a)
    BY <1>3, <2>1 DEF IssueToken, EnvIssue, EnvUnchanged
  <2> QED
    BY <2>2 DEF WRNext, WREnv
<1>4. ASSUME NEW a \in Allocs, UpdateWorker(a) PROVE [WRNext]_wrVars
  <2>1. lease[a] = "issued" /\ req[a].n \in Names /\ req[a].obj.phase = "Idle"
    BY <1>4 DEF UpdateWorker, At, RequestInv, HasWorker
  <2>2. EnvAllocate(req[a].n, a)
    BY <1>4, <2>1 DEF UpdateWorker, EnvAllocate, EnvUnchanged, Fresh
  <2> QED
    BY <2>1, <2>2 DEF WRNext, WREnv
<1>5. ASSUME NEW a \in Allocs, CertificateFails(a) PROVE [WRNext]_wrVars
  BY <1>5, FaultIsEnv DEF CertificateFails
<1>6. ASSUME NEW a \in Allocs, ReleaseDelete(a) PROVE [WRNext]_wrVars
  <2>1. req[a].n \in Names
    BY <1>6 DEF ReleaseDelete, At, RequestInv, HasWorker
  <2>2. CASE worker' = Deleted(req[a].n) /\ UNCHANGED faults
    BY <1>6, <2>1, <2>2, DeleteIsEnv DEF ReleaseDelete, EnvUnchanged
  <2>3. CASE UNCHANGED <<worker, faults>>
    BY <1>6, <2>3 DEF ReleaseDelete, wrVars
  <2>4. CASE Fault /\ UNCHANGED worker
    BY <1>6, <2>4, FaultIsEnv DEF ReleaseDelete
  <2> QED
    BY <1>6, <2>2, <2>3, <2>4 DEF ReleaseDelete
<1>7. ASSUME NEW a \in Allocs,
             \/ \E n \in Names : FindIdle(a, n) \/ WaitIdle(a, n)
             \/ FindNone(a) \/ WaitReady(a) \/ Reply(a) \/ ReleaseRevoke(a)
             \/ WaitTimesOut(a) \/ WriteTimeout(a) \/ ClientLeaves(a) \/ DropExpiredToken(a)
      PROVE  UNCHANGED wrVars
  BY <1>7 DEF FindIdle, WaitIdle, FindNone, WaitReady, Reply, ReleaseRevoke, WaitTimesOut,
     WriteTimeout, ClientLeaves, DropExpiredToken
<1>8. CASE WRStep \/ ClusterStep \/ AllocRestart
  BY <1>8 DEF WRNext, AllocRestart
<1>9. ASSUME NEW a \in Allocs, Handle(a) PROVE [WRNext]_wrVars
  BY <1>1, <1>2, <1>3, <1>4, <1>5, <1>7, <1>9 DEF Handle
<1>10. CASE UNCHANGED allocVars
  BY <1>10 DEF allocVars, wrVars
<1> QED
  BY <1>6, <1>7, <1>8, <1>9, <1>10, PoolRefines DEF AllocNext

\* Every step keeps the invariant of the requests.
LEMMA RequestStep ==
  ASSUME RequestInv, WRTypeOK, [AllocNext]_allocVars
  PROVE  RequestInv'
<1>a. /\ req \in [Allocs -> Request] /\ cache \in [Names -> WorkerObject]
      /\ lease \in [Allocs -> {"none", "issued", "spent"}]
  BY DEF RequestInv, WRTypeOK, KubeTypeOK
<1>1. CASE UNCHANGED <<req, lease>>
  BY <1>1 DEF RequestInv
\* A request moves on: the other requests and their leases are as before.
<1>2. ASSUME NEW a \in Allocs, NEW r \in Request, NEW l,
             req' = [req EXCEPT ![a] = r], lease' = [lease EXCEPT ![a] = l],
             r.pc \in Unissued => l = "none",
             r.pc = "update" => l = "issued",
             r.pc \in {"picked", "update"} => r.obj.phase = "Idle",
             r.pc \in HasWorker => r.n \in Names
      PROVE  RequestInv'
  <2>1. req' \in [Allocs -> Request] /\ DOMAIN lease' = Allocs
    BY <1>2, <1>a
  <2>2. \A b \in Allocs : b # a => req'[b] = req[b] /\ lease'[b] = lease[b]
    BY <1>2, <1>a
  <2>3. req'[a] = r /\ lease'[a] = l
    BY <1>2, <1>a
  <2> QED
    BY <1>2, <2>1, <2>2, <2>3 DEF RequestInv
<1>3. ASSUME NEW a \in Allocs, NEW s, Goto(a, s), UNCHANGED lease,
             s \in {"waitIdle", "create", "failed", "lost", "replied", "revoke", "released"},
             s \in {"waitIdle", "create"} => req[a].pc \in Unissued,
             s \in HasWorker => req[a].pc \in HasWorker
      PROVE  RequestInv'
  <2> DEFINE r == [req[a] EXCEPT !.pc = s]
  <2>1. r \in Request /\ r.pc = s /\ r.n = req[a].n
    BY <1>3, <1>a DEF Request
  <2>2. req' = [req EXCEPT ![a] = r] /\ lease' = [lease EXCEPT ![a] = lease[a]]
    BY <1>3, <1>a DEF Goto
  <2>3. /\ r.pc \in Unissued => lease[a] = "none"
        /\ r.pc \notin {"picked", "update"}
        /\ r.pc \in HasWorker => r.n \in Names
    BY <1>3, <2>1 DEF RequestInv, Unissued
  <2> HIDE DEF r
  <2> QED
    BY <1>2, <2>1, <2>2, <2>3
<1>4. ASSUME NEW a \in Allocs, NEW n \in Names, Pick(a, n), UNCHANGED lease,
             req[a].pc \in Unissued, cache[n].phase = "Idle"
      PROVE  RequestInv'
  <2> DEFINE r == [req[a] EXCEPT !.pc = "picked", !.n = n, !.obj = cache[n]]
  <2>1. r \in Request /\ r.pc = "picked" /\ r.n = n /\ r.obj = cache[n]
    BY <1>a DEF Request
  <2>2. req' = [req EXCEPT ![a] = r] /\ lease' = [lease EXCEPT ![a] = lease[a]]
    BY <1>4, <1>a DEF Pick
  <2>3. lease[a] = "none"
    BY <1>4 DEF RequestInv
  <2> HIDE DEF r
  <2> QED
    BY <1>2, <1>4, <2>1, <2>2, <2>3
<1>5. ASSUME NEW a \in Allocs, NEW n \in Names, CreateWorker(a, n) PROVE RequestInv'
  <2> DEFINE r == [req[a] EXCEPT !.pc = "waitReady", !.n = n]
  <2>1. r \in Request /\ r.pc = "waitReady" /\ r.n = n
    BY <1>a DEF Request
  <2>2. req' = [req EXCEPT ![a] = r] /\ lease' = [lease EXCEPT ![a] = lease[a]]
    BY <1>5, <1>a DEF CreateWorker
  <2>3. lease[a] = "none"
    BY <1>5 DEF CreateWorker, At, RequestInv, Unissued
  <2> HIDE DEF r
  <2> QED
    BY <1>2, <2>1, <2>2, <2>3
<1>6. ASSUME NEW a \in Allocs, IssueToken(a) PROVE RequestInv'
  <2> DEFINE r == [req[a] EXCEPT !.pc = "update"]
  <2>1. r \in Request /\ r.pc = "update" /\ r.n = req[a].n /\ r.obj = req[a].obj
    BY <1>a DEF Request
  <2>2. req' = [req EXCEPT ![a] = r] /\ lease' = [lease EXCEPT ![a] = "issued"]
    BY <1>6, <1>a DEF IssueToken, Goto
  <2>3. r.obj.phase = "Idle" /\ r.n \in Names
    BY <1>6, <2>1 DEF IssueToken, At, RequestInv, HasWorker
  <2>4. "update" \notin Unissued
    BY DEF Unissued
  <2> HIDE DEF r
  <2> QED
    BY <1>2, <2>1, <2>2, <2>3, <2>4
<1>7. ASSUME NEW a \in Allocs, UpdateWorker(a) PROVE RequestInv'
  <2> DEFINE r == [req[a] EXCEPT !.pc = "cert"]
  <2>1. r \in Request /\ r.pc = "cert" /\ r.n = req[a].n
    BY <1>a DEF Request
  <2>2. req' = [req EXCEPT ![a] = r] /\ lease' = [lease EXCEPT ![a] = "spent"]
    BY <1>7, <1>a DEF UpdateWorker, Goto
  <2>3. r.n \in Names
    BY <1>7, <2>1 DEF UpdateWorker, At, RequestInv, HasWorker
  <2>4. "cert" \notin Unissued
    BY DEF Unissued
  <2> HIDE DEF r
  <2> QED
    BY <1>2, <2>1, <2>2, <2>3, <2>4
<1>8. ASSUME NEW a \in Allocs,
             \/ FindNone(a) \/ CreateWorkerFails(a) \/ WaitTimesOut(a) \/ ClientLeaves(a)
             \/ Reply(a) \/ CertificateFails(a) \/ ReleaseDelete(a) \/ ReleaseRevoke(a)
      PROVE  RequestInv'
  BY <1>3, <1>8 DEF FindNone, CreateWorkerFails, WaitTimesOut, ClientLeaves, Reply,
     CertificateFails, ReleaseDelete, ReleaseRevoke, Answer, At, Unissued, HasWorker, wrVars
<1>15. ASSUME NEW a \in Allocs, WriteTimeout(a) PROVE RequestInv'
  <2> DEFINE r == [req[a] EXCEPT !.late = TRUE]
  <2>1. r \in Request /\ r.pc = req[a].pc /\ r.n = req[a].n /\ r.obj = req[a].obj
    BY <1>a DEF Request
  <2>2. req' = [req EXCEPT ![a] = r] /\ lease' = [lease EXCEPT ![a] = lease[a]]
    BY <1>15, <1>a DEF WriteTimeout, wrVars
  <2> HIDE DEF r
  <2> QED
    BY <1>2, <2>1, <2>2 DEF RequestInv
<1>9. ASSUME NEW a \in Allocs, NEW n \in Names, FindIdle(a, n) \/ WaitIdle(a, n)
      PROVE  RequestInv'
  BY <1>4, <1>9 DEF FindIdle, WaitIdle, IdleWorkers, InPhase, At, Unissued, wrVars
<1>10. ASSUME NEW a \in Allocs, WaitReady(a) PROVE RequestInv'
  <2>1. req[a].n \in Names
    BY <1>10 DEF WaitReady, At, RequestInv, HasWorker
  <2> QED
    BY <1>3, <1>4, <1>10, <2>1 DEF WaitReady, Answer, At, Unissued, HasWorker, wrVars
<1>11. CASE AllocRestart
  <2>1. lease' = lease
    BY <1>11, OthersLeaveLeases DEF AllocRestart
  <2>2. ASSUME NEW a \in Allocs
        PROVE  /\ req'[a] \in Request /\ req'[a].n = req[a].n
               /\ req'[a] = req[a] \/ req'[a].pc = "failed"
                    \/ (req'[a].pc = "released" /\ req[a].pc = "revoke")
    BY <1>11, <1>a DEF AllocRestart, At, Request
  <2>3. req' \in [Allocs -> Request]
    BY <1>11, <2>2 DEF AllocRestart
  <2> QED
    BY <2>1, <2>2, <2>3 DEF RequestInv, Unissued, HasWorker
<1>12. CASE (PoolStep \/ WRStep \/ ClusterStep) /\ UNCHANGED req
  BY <1>1, <1>12, OthersLeaveLeases
<1>13. ASSUME NEW a \in Allocs, DropExpiredToken(a) PROVE RequestInv'
  BY <1>1, <1>13 DEF DropExpiredToken, wrVars
<1>14. CASE UNCHANGED allocVars
  BY <1>1, <1>14 DEF allocVars
<1> QED
  BY <1>5, <1>6, <1>7, <1>8, <1>9, <1>10, <1>11, <1>12, <1>13, <1>14, <1>15 DEF AllocNext, Handle
-----------------------------------------------------------------------------
\* The controller process implements the worker controller in its assumed
\* environment: the API server and the pool manager never touch a worker
\* in a way that environment does not allow.
THEOREM AllocImplementsWR == AllocSpec => WRSpec
<1>1. AllocInit => RequestInv /\ IInv /\ WRInit
  BY RequestInit, InvInit
<1>2. RequestInv /\ IInv /\ [AllocNext]_allocVars => RequestInv' /\ IInv' /\ [WRNext]_wrVars
  BY StepRefines, RequestStep, InvStep DEF IInv
<1> QED
  BY <1>1, <1>2, PTL DEF AllocSpec, WRSpec

\* In the whole process, too, no pod is created behind a serving worker and
\* no pod exists without the finalizer on its worker.
THEOREM ProcessSafety == AllocSpec => []PodUnderFinalizer /\ ServingPodKept
BY AllocImplementsWR, WRPodUnderFinalizer, WRServingPodKept, PTL
-----------------------------------------------------------------------------
(* The token and the worker it was issued for. *)

\* A request past its Update keeps its worker and its copy.
Settled == {"cert", "replied", "revoke", "released", "failed", "lost"}

\* TokenMatchesWorker, and what keeps it: the worker has been Idle, so that
\* reconcileProvisioning is done with its endpoint, and the request is past its Update.
MatchInv ==
  \A n \in Names, a \in Allocs :
    Live(n) /\ worker[n].alloc = a
      => /\ req[a].n = n /\ req[a].obj.endpoint = worker[n].endpoint
         /\ worker[n].phase \notin Starting
         /\ req[a].pc \in Settled

\* Apart from the Update of a request, no step gives a worker another allocation, and
\* none but reconcileProvisioning another endpoint.
LEMMA AllocationKept ==
  ASSUME IInv, [WRNext]_wrVars, lease' = lease, NEW n \in Names, Live(n)'
  PROVE  \/ worker'[n].alloc = NoAlloc
         \/ /\ Live(n) /\ worker'[n].alloc = worker[n].alloc
            /\ worker'[n].endpoint = worker[n].endpoint \/ worker[n].phase \in Starting
<1>a. /\ worker \in [Names -> WorkerObject] /\ cache[n] \in WorkerObject
      /\ lease \in [Allocs -> {"none", "issued", "spent"}]
      /\ recon.op # "none" => recon.n \in Names
  BY DEF IInv, WRTypeOK, KubeTypeOK
<1> DEFINE Kept == \/ worker'[n].alloc = NoAlloc
                   \/ /\ Live(n) /\ worker'[n].alloc = worker[n].alloc
                      /\ worker'[n].endpoint = worker[n].endpoint \/ worker[n].phase \in Starting
<1>1. CASE worker'[n] = worker[n]
  BY <1>1 DEF Live
<1>d. ASSUME NEW m \in Names, worker' = Deleted(m) PROVE Kept
  BY <1>a, <1>d DEF Deleted, WorkerObject, Blank, Live
<1>2. ASSUME NEW m \in Names, Reconcile(m) PROVE Kept
  <2>1. CASE m # n
    BY <1>1, <1>2, <1>a, <2>1 DEF Reconcile, AddFinalizer, ParentPoolNotFound, CreatePod,
       PodAlreadyExists, CreatePodFails, ProvisioningStep, DeleteExpired, Deleted, RunningStep,
       DeletePod, UpdateStatus
  <2>2. CASE m = n
    <3>1. ASSUME NEW p, UpdateStatus(n, cache[n], [cache[n] EXCEPT !.phase = p]) PROVE Kept
      BY <1>a, <3>1 DEF UpdateStatus, Fresh, WorkerObject
    <3>2. CASE AddFinalizer(n)
      BY <1>a, <3>2 DEF AddFinalizer, Fresh, WorkerObject
    <3>3. CASE ParentPoolNotFound(n) \/ PodAlreadyExists(n) \/ RunningStep(n)
      BY <3>1, <3>3 DEF ParentPoolNotFound, PodAlreadyExists, RunningStep
    <3>4. CASE CreatePod(n) \/ DeletePod(n)
      BY <1>1, <3>4 DEF CreatePod, DeletePod
    <3>5. CASE ProvisioningStep(n)
      <4>1. cache[n].phase \in Starting
        BY <3>5 DEF ProvisioningStep, Starting
      <4>2. CASE UpdateStatus(n, cache[n], [cache[n] EXCEPT !.phase = "Idle", !.endpoint = podSeen[n].inc])
        BY <1>a, <4>1, <4>2 DEF UpdateStatus, Fresh, WorkerObject
      <4> QED
        BY <3>1, <3>5, <4>2 DEF ProvisioningStep
    <3>6. CASE CreatePodFails(n)
      BY <1>a, <3>6 DEF CreatePodFails, Fresh, WorkerObject
    <3>7. CASE DeleteExpired(n)
      BY <1>d, <3>7 DEF DeleteExpired
    <3> QED
      BY <1>2, <2>2, <3>2, <3>3, <3>4, <3>5, <3>6, <3>7 DEF Reconcile
  <2> QED
    BY <2>1, <2>2
<1>3. CASE RecordPod
  <2>1. CASE recon.n = n /\ Fresh(recon.n, recon.obj)
    BY <1>3, <1>a, <2>1 DEF RecordPod, Fresh, WorkerObject
  <2>2. CASE ~(recon.n = n /\ Fresh(recon.n, recon.obj))
    <3>1. worker'[n] = worker[n]
      BY <1>3, <1>a, <2>2 DEF RecordPod
    <3> QED
      BY <1>1, <3>1
  <2> QED
    BY <2>1, <2>2
<1>4. CASE RemoveFinalizer
  BY <1>1, <1>a, <1>4 DEF RemoveFinalizer, FinalizerRemoved, Blank, Live
<1>5. ASSUME NEW m \in Names, EnvCreate(m) PROVE Kept
  BY <1>1, <1>a, <1>5 DEF EnvCreate, Created, Blank
<1>6. ASSUME NEW m \in Names, EnvDelete(m) PROVE Kept
  BY <1>d, <1>6 DEF EnvDelete
<1>7. ASSUME NEW m \in Names, NEW a \in Allocs, EnvAllocate(m, a) PROVE FALSE
  BY <1>a, <1>7 DEF EnvAllocate
<1>8. ASSUME NEW m \in Names, KubeProgress(m) \/ KubeFault(m) PROVE Kept
  BY <1>1, <1>8 DEF KubeProgress, KubeFault, InformerSync, PodInformerSync, TenMinutesPass, PodTo,
     PodScheduled, PodBecomesReady, GarbageCollect, PodUnschedulable, PodLosesReadiness,
     PodFails, PodEvicted
<1>9. CASE WREnv
  BY <1>1, <1>5, <1>6, <1>7, <1>9 DEF WREnv, EnvFault, EnvIssue
<1>10. CASE ClusterStep
  BY <1>1, <1>8, <1>10 DEF ClusterStep, AllocationExpires
<1> QED
  BY <1>1, <1>2, <1>3, <1>4, <1>9, <1>10 DEF WRNext, WRStep, ReconcileAborted, Restart,
     PoolDeleted, wrVars

\* A request past its Update stays there, with its worker and its copy.
LEMMA SettledKept ==
  ASSUME RequestInv, [AllocNext]_allocVars, NEW a \in Allocs, req[a].pc \in Settled
  PROVE  req'[a].pc \in Settled /\ req'[a].n = req[a].n /\ req'[a].obj = req[a].obj
<1>a. req \in [Allocs -> Request]
  BY DEF RequestInv
<1> DEFINE Kept == req'[a].pc \in Settled /\ req'[a].n = req[a].n /\ req'[a].obj = req[a].obj
<1>1. CASE req'[a] = req[a]
  BY <1>1
<1>2. ASSUME NEW b \in Allocs, NEW s \in Settled, Goto(b, s) PROVE Kept
  BY <1>a, <1>2 DEF Goto, Request
<1>3. ASSUME NEW b \in Allocs, b # a, HandlerStep(b)
      PROVE  Kept
  BY Zenon, <1>1, <1>3, <1>a DEF Handle, FindIdle, CreateWorker, WaitIdle, FindNone, CreateWorkerFails, WaitReady,
    IssueToken, UpdateWorker, Reply, CertificateFails, ReleaseRevoke, HandlerStep, WaitTimesOut, WriteTimeout,
    ClientLeaves, DropExpiredToken, ReleaseDelete, Answer, Goto, Pick
<1>4. CASE Handle(a)
  <2>1. CASE Reply(a) \/ CertificateFails(a) \/ ReleaseRevoke(a)
    BY <1>2, <2>1 DEF Reply, CertificateFails, ReleaseRevoke, Answer, Settled
  <2>2. CASE ~(Reply(a) \/ CertificateFails(a) \/ ReleaseRevoke(a))
    BY <1>4, <2>2 DEF Handle, FindIdle, CreateWorker, WaitIdle, FindNone, CreateWorkerFails, WaitReady,
      IssueToken, UpdateWorker, At, Settled
  <2> QED
    BY <2>1, <2>2
<1>5. CASE WaitTimesOut(a) \/ WriteTimeout(a) \/ ClientLeaves(a) \/ DropExpiredToken(a) \/ ReleaseDelete(a)
  BY <1>1, <1>2, <1>5 DEF WaitTimesOut, WriteTimeout, ClientLeaves, Waiting, At, DropExpiredToken,
    ReleaseDelete, Settled
<1>6. CASE AllocRestart
  BY <1>6, <1>a DEF AllocRestart, At, Request, Settled
<1> QED
  BY <1>1, <1>3, <1>4, <1>5, <1>6 DEF AllocNext, HandlerStep, allocVars

\* Every step keeps tokens and workers matched.
LEMMA MatchStep ==
  ASSUME RequestInv, IInv, MatchInv, [AllocNext]_allocVars
  PROVE  MatchInv'
<1> SUFFICES ASSUME NEW n \in Names, NEW a \in Allocs, Live(n)', worker'[n].alloc = a
             PROVE  /\ req'[a].n = n /\ req'[a].obj.endpoint = worker'[n].endpoint
                    /\ worker'[n].phase \notin Starting
                    /\ req'[a].pc \in Settled
  BY DEF MatchInv
<1>w. [WRNext]_wrVars
  BY StepRefines
<1>n. a # NoAlloc
  BY KubeAssumption
<1>1. ASSUME Live(n), worker[n].alloc = a, worker'[n].endpoint = worker[n].endpoint \/ worker[n].phase \in Starting
      PROVE  /\ req'[a].n = n /\ req'[a].obj.endpoint = worker'[n].endpoint
             /\ worker'[n].phase \notin Starting
             /\ req'[a].pc \in Settled
  <2>1. /\ req[a].n = n /\ req[a].obj.endpoint = worker[n].endpoint
        /\ worker[n].phase \notin Starting /\ req[a].pc \in Settled
    BY <1>1 DEF MatchInv
  <2>2. req'[a].pc \in Settled /\ req'[a].n = req[a].n /\ req'[a].obj = req[a].obj
    BY <2>1, SettledKept
  <2>3. worker'[n].phase \notin Starting
    BY <1>1, <1>w, <2>1, PhaseStep
  <2> QED
    BY <1>1, <2>1, <2>2, <2>3
<1>2. CASE lease' = lease
  BY <1>1, <1>2, <1>n, <1>w, AllocationKept
<1>3. CASE worker' = worker
  BY <1>1, <1>3 DEF Live
<1>4. ASSUME NEW b \in Allocs, UpdateWorker(b), worker' # worker
      PROVE  /\ req'[a].n = n /\ req'[a].obj.endpoint = worker'[n].endpoint
             /\ worker'[n].phase \notin Starting
             /\ req'[a].pc \in Settled
  <2> DEFINE m == req[b].n
  <2>1. /\ m \in Names /\ worker[m] = req[b].obj /\ worker[m].phase = "Idle"
        /\ req[b].pc = "update" /\ Live(m)
        /\ worker' = [worker EXCEPT ![m].alloc = b] /\ Goto(b, "cert")
    BY <1>4 DEF UpdateWorker, At, Fresh, RequestInv, HasWorker
  <2>2. worker \in [Names -> WorkerObject] /\ req \in [Allocs -> Request]
    BY DEF IInv, WRTypeOK, KubeTypeOK, RequestInv
  <2> HIDE DEF m
  <2>3. CASE n = m
    <3>1. /\ worker'[n].alloc = b /\ worker'[n].endpoint = worker[n].endpoint
          /\ worker'[n].phase = "Idle"
      BY <2>1, <2>2, <2>3 DEF WorkerObject
    <3>2. a = b
      BY <3>1
    <3>3. req'[a].n = req[a].n /\ req'[a].obj = req[a].obj /\ req'[a].pc = "cert"
      BY <2>1, <2>2, <3>2 DEF Goto, Request
    <3> QED
      BY <2>1, <2>3, <3>1, <3>2, <3>3 DEF m, Starting, Settled
  <2>4. CASE n # m
    <3>1. worker'[n] = worker[n]
      BY <2>1, <2>2, <2>4
    <3> QED
      BY <1>1, <3>1 DEF Live
  <2> QED
    BY <2>3, <2>4
<1>5. \/ lease' = lease \/ worker' = worker
      \/ \E b \in Allocs : UpdateWorker(b)
  <2>1. CASE PoolStep \/ WRStep \/ ClusterStep \/ AllocRestart
    BY <2>1, OthersLeaveLeases DEF AllocRestart
  <2>2. ASSUME NEW b \in Allocs, HandlerStep(b)
        PROVE  lease' = lease \/ worker' = worker \/ UpdateWorker(b)
    BY <2>2 DEF Handle, FindIdle, CreateWorker, WaitIdle, FindNone, CreateWorkerFails, WaitReady,
      IssueToken, Reply, CertificateFails, ReleaseRevoke, HandlerStep, WaitTimesOut, WriteTimeout,
      ClientLeaves, DropExpiredToken, ReleaseDelete, wrVars
  <2> QED
    BY <2>1, <2>2 DEF AllocNext, HandlerStep, allocVars
<1> QED
  BY <1>2, <1>3, <1>4, <1>5

\* handleWorkerAllocate updates a cached copy after it has issued the token, and still the
\* allocation a worker stores is one whose token names that worker and its endpoint.
THEOREM TokensMatchWorkers == AllocSpec => []TokenMatchesWorker
<1>1. AllocInit => RequestInv /\ IInv /\ MatchInv
  <2>1. AllocInit => MatchInv
    <3> SUFFICES ASSUME AllocInit, NEW n \in Names PROVE ~Live(n)
      BY DEF MatchInv
    <3>1. worker[n] = Blank("unused")
      BY DEF AllocInit, PoolInit, WRInit, KubeInit
    <3>2. Blank("unused").st = "unused"
      BY DEF Blank
    <3>3. worker[n].st # "live"
      BY <3>1, <3>2
    <3> QED
      BY <3>3 DEF Live
  <2> QED
    BY <2>1, RequestInit, InvInit
<1>2. RequestInv /\ IInv /\ MatchInv /\ [AllocNext]_allocVars => RequestInv' /\ IInv' /\ MatchInv'
  BY StepRefines, RequestStep, InvStep, MatchStep DEF IInv
<1>3. MatchInv => TokenMatchesWorker
  BY DEF MatchInv, TokenMatchesWorker
<1> QED
  BY <1>1, <1>2, <1>3, PTL DEF AllocSpec
-----------------------------------------------------------------------------
(* Types. *)

\* Every step leaves a plan a plan.
LEMMA PlanStep == PlanTypeOK /\ [AllocNext]_allocVars => PlanTypeOK'
<1> SUFFICES ASSUME PlanTypeOK, [AllocNext]_allocVars PROVE PlanTypeOK'
  OBVIOUS
<1>1. CASE UNCHANGED plan
  BY <1>1 DEF PlanTypeOK
<1>2. CASE plan' = NoPlan
  BY <1>2, NoPlanType DEF PlanTypeOK
<1>6. CASE PoolStep
  BY <1>6, PoolStepPlan
<1>7. ASSUME NEW a \in Allocs, HandlerStep(a)
      PROVE  UNCHANGED plan
  BY <1>7 DEF Handle, FindIdle, CreateWorker, WaitIdle, FindNone, CreateWorkerFails, WaitReady,
    IssueToken, UpdateWorker, Reply, CertificateFails, ReleaseRevoke, HandlerStep, WaitTimesOut, WriteTimeout,
    ClientLeaves, DropExpiredToken, ReleaseDelete
<1> QED
  BY <1>1, <1>2, <1>6, <1>7 DEF AllocNext, HandlerStep, AllocRestart, allocVars

\* Only tokens of requests are ever in the table.
LEMMA TokensStep == tokens \subseteq Allocs /\ [AllocNext]_allocVars => tokens' \subseteq Allocs
<1> SUFFICES ASSUME tokens \subseteq Allocs, [AllocNext]_allocVars PROVE tokens' \subseteq Allocs
  OBVIOUS
<1>1. ASSUME NEW a \in Allocs, HandlerStep(a)
      PROVE  tokens' \subseteq tokens \cup {a}
  BY <1>1 DEF Handle, FindIdle, CreateWorker, WaitIdle, FindNone, CreateWorkerFails, WaitReady,
    IssueToken, UpdateWorker, Reply, CertificateFails, ReleaseRevoke, HandlerStep, WaitTimesOut, WriteTimeout,
    ClientLeaves, DropExpiredToken, ReleaseDelete
<1> QED
  BY <1>1 DEF AllocNext, HandlerStep, AllocRestart, allocVars

\* Type correctness of the whole process: worker objects, requests and tokens, and the
\* worker manager's plans, whose numbers stay between 0 and Min.
THEOREM AllocTypeCorrect == AllocSpec => []AllocTypeOK
<1> DEFINE TInv == RequestInv /\ IInv /\ PlanTypeOK /\ tokens \subseteq Allocs
<1>1. AllocInit => TInv
  <2> SUFFICES ASSUME AllocInit PROVE PlanTypeOK /\ tokens \subseteq Allocs
    BY RequestInit, InvInit
  <2> QED
    BY PoolAssumption DEF AllocInit, PoolInit, PlanTypeOK, NoPlan
<1>2. TInv /\ [AllocNext]_allocVars => TInv'
  BY StepRefines, RequestStep, InvStep, PlanStep, TokensStep DEF IInv
<1>3. TInv => AllocTypeOK
  BY DEF IInv, RequestInv, PlanTypeOK, AllocTypeOK, PoolTypeOK
<1> QED
  BY <1>1, <1>2, <1>3, PTL DEF AllocSpec
=============================================================================
