----------------------------- MODULE Allocation -----------------------------
(***************************************************************************)
(* The API server's worker endpoints, internal/api/server.go:              *)
(* handleWorkerAllocate with findOrCreateWorker, waitForIdleWorker and     *)
(* waitForWorkerReady, handleWorkerLookup and handleWorkerRelease, running *)
(* in the controller process beside the pool's worker manager and the      *)
(* worker controller.  Every request is a goroutine of its own; it reads   *)
(* the informer cache and writes to the API server, one call per action.   *)
(*                                                                         *)
(* An allocation is named by its request: request a issues token a and     *)
(* writes allocation a.  The token table lives in the process's memory.    *)
(***************************************************************************)
EXTENDS PoolScaler

VARIABLES
  req,      \* [Allocs -> Request]
  tokens    \* tokens in the TokenManager's map

allocVars == <<worker, cache, pod, podSeen, aged, lease, expired, poolUp, faults, recon,
               plan, req, tokens>>

\* pc: where the handler stands; n: the worker it works on; obj: its copy of it; late:
\* the server's WriteTimeout is over, so that what the handler writes is "lost".
Request ==
  [pc : {"start", "create", "waitIdle", "waitReady", "picked", "update", "cert",
         "replied", "revoke", "released", "failed", "lost"},
   n : Names \cup {0}, obj : WorkerObject, late : BOOLEAN]

AllocTypeOK ==
  /\ PoolTypeOK
  /\ req \in [Allocs -> Request]
  /\ tokens \subseteq Allocs

AllocInit ==
  /\ PoolInit
  /\ req = [a \in Allocs |-> [pc |-> "start", n |-> 0, obj |-> Blank("unused"), late |-> FALSE]]
  /\ tokens = {}

At(a, s) == req[a].pc = s
Goto(a, s) == req' = [req EXCEPT ![a].pc = s]
Pick(a, n) == req' = [req EXCEPT ![a].pc = "picked", ![a].n = n, ![a].obj = cache[n]]

\* Writing the response.
Answer(a, s) == Goto(a, IF req[a].late THEN "lost" ELSE s)

Waiting(a) == At(a, "waitIdle") \/ At(a, "waitReady")
-----------------------------------------------------------------------------
(* findOrCreateWorker.  The list comes from the cache in no particular      *)
(* order; a worker in phase Idle is taken whatever else is true of it.      *)

FindIdle(a, n) ==
  /\ At(a, "start") /\ n \in IdleWorkers
  /\ Pick(a, n)
  /\ UNCHANGED <<wrVars, plan, tokens>>

FindNone(a) ==
  /\ At(a, "start") /\ IdleWorkers = {}
  /\ Goto(a, IF Cardinality(Listed) >= Max THEN "waitIdle" ELSE "create")
  /\ UNCHANGED <<wrVars, plan, tokens>>

CreateWorker(a, n) ==
  /\ At(a, "create") /\ NextName(n)
  /\ worker' = Created(n)
  /\ req' = [req EXCEPT ![a].pc = "waitReady", ![a].n = n]
  /\ UNCHANGED <<cache, pod, podSeen, aged, lease, expired, poolUp, faults, recon, plan, tokens>>

\* The Create fails; running out of names is the bound's way to fail.
CreateWorkerFails(a) ==
  /\ At(a, "create")
  /\ \/ Fault
     \/ UNCHANGED faults /\ \A n \in Names : worker[n].st # "unused"
  /\ Goto(a, "failed")
  /\ UNCHANGED <<worker, cache, pod, podSeen, aged, lease, expired, poolUp, recon, plan, tokens>>

\* A tick of waitForIdleWorker that finds one.
WaitIdle(a, n) ==
  /\ At(a, "waitIdle") /\ n \in IdleWorkers
  /\ Pick(a, n)
  /\ UNCHANGED <<wrVars, plan, tokens>>

\* Mutant of WaitReady: a worker whose pod is still starting counts as ready.
WaitProvisioned(a) ==
  /\ At(a, "waitReady") /\ cache[req[a].n].st = "live"
  /\ \/ cache[req[a].n].phase \in {"Provisioning", "Idle"} /\ Pick(a, req[a].n)
     \/ cache[req[a].n].phase = "Failed" /\ Answer(a, "failed")
  /\ UNCHANGED <<wrVars, plan, tokens>>

\* A tick of waitForWorkerReady that finds the created worker Idle or Failed.
\* Any other phase, Allocated included, goes on waiting.
WaitReady(a) ==
  /\ At(a, "waitReady") /\ cache[req[a].n].st = "live"
  /\ \/ cache[req[a].n].phase = "Idle" /\ Pick(a, req[a].n)
     \/ cache[req[a].n].phase = "Failed" /\ Answer(a, "failed")
  /\ UNCHANGED <<wrVars, plan, tokens>>

\* Mutant of WaitTimesOut: waitForWorkerReady has no timeout.
OnlyIdleWaitTimesOut(a) ==
  /\ At(a, "waitIdle") /\ req[a].late
  /\ Answer(a, "failed")
  /\ UNCHANGED <<wrVars, plan, tokens>>

\* The two or five minutes are over, which are longer than the WriteTimeout.
WaitTimesOut(a) ==
  /\ Waiting(a) /\ req[a].late
  /\ Answer(a, "failed")
  /\ UNCHANGED <<wrVars, plan, tokens>>

\* The server's WriteTimeout, 15 seconds from when the request was read.  It ends
\* neither the request's context nor the handler.  Calls take far less: only a wait
\* lasts that long.
WriteTimeout(a) ==
  /\ Waiting(a) /\ ~req[a].late
  /\ req' = [req EXCEPT ![a].late = TRUE]
  /\ UNCHANGED <<wrVars, plan, tokens>>

\* The client goes away, which ends the context and the wait.
ClientLeaves(a) ==
  /\ Waiting(a)
  /\ Goto(a, "failed")
  /\ UNCHANGED <<wrVars, plan, tokens>>
-----------------------------------------------------------------------------
(* handleWorkerAllocate, once it has a worker. *)

IssueToken(a) ==
  /\ At(a, "picked")
  /\ lease' = [lease EXCEPT ![a] = "issued"]
  /\ tokens' = tokens \cup {a}
  /\ Goto(a, "update")
  /\ UNCHANGED <<worker, cache, pod, podSeen, aged, expired, poolUp, faults, recon, plan>>

\* Mutant of UpdateWorker: the copy's resourceVersion is not sent.
PatchWorker(a) ==
  /\ At(a, "update")
  /\ lease' = [lease EXCEPT ![a] = "spent"]
  /\ \/ Live(req[a].n) /\ worker' = [worker EXCEPT ![req[a].n].alloc = a]
     \/ UNCHANGED worker
  /\ Goto(a, "cert")
  /\ UNCHANGED <<cache, pod, podSeen, aged, expired, poolUp, faults, recon, plan, tokens>>

\* The Update that stores the allocation.  A conflict or any other error is
\* logged and the request goes on.
UpdateWorker(a) ==
  /\ At(a, "update")
  /\ lease' = [lease EXCEPT ![a] = "spent"]
  /\ \/ /\ Fresh(req[a].n, req[a].obj)
        /\ worker' = [worker EXCEPT ![req[a].n].alloc = a]
     \/ UNCHANGED worker
  /\ Goto(a, "cert")
  /\ UNCHANGED <<cache, pod, podSeen, aged, expired, poolUp, faults, recon, plan, tokens>>

\* IssueCertificate, GetCACertPEM and the response.
Reply(a) ==
  /\ At(a, "cert")
  /\ Answer(a, "replied")
  /\ UNCHANGED <<wrVars, plan, tokens>>

\* ... of which one fails: the token and the allocation stay.
CertificateFails(a) ==
  /\ At(a, "cert")
  /\ Fault
  /\ Answer(a, "failed")
  /\ UNCHANGED <<worker, cache, pod, podSeen, aged, lease, expired, poolUp, recon, plan, tokens>>
-----------------------------------------------------------------------------
\* ValidateToken, called by a lookup or a release, drops an expired token.
DropExpiredToken(a) ==
  /\ a \in tokens \cap expired
  /\ tokens' = tokens \ {a}
  /\ UNCHANGED <<wrVars, plan, req>>

\* handleWorkerRelease: the token is valid and the worker is deleted, unless
\* the Get does not find it or the Delete fails.
ReleaseDelete(a) ==
  /\ At(a, "replied") /\ a \in tokens \ expired
  /\ \/ worker' = (IF cache[req[a].n].st = "live" THEN Deleted(req[a].n) ELSE worker)
        /\ UNCHANGED faults
     \/ Fault /\ UNCHANGED worker
  /\ Goto(a, "revoke")
  /\ UNCHANGED <<cache, pod, podSeen, aged, lease, expired, poolUp, recon, plan, tokens>>

\* handleWorkerRelease: the token is revoked.
ReleaseRevoke(a) ==
  /\ At(a, "revoke")
  /\ tokens' = tokens \ {a}
  /\ Goto(a, "released")
  /\ UNCHANGED <<wrVars, plan>>

\* The process restarts: the token table is lost, requests in flight fail.
AllocRestart ==
  /\ Restart
  /\ plan' = NoPlan
  /\ tokens' = {}
  /\ req' = [a \in Allocs |->
               IF req[a].pc \in {"start", "replied", "released", "failed", "lost"} THEN req[a]
               ELSE IF At(a, "revoke") THEN [req[a] EXCEPT !.pc = "released"]
               ELSE [req[a] EXCEPT !.pc = "failed"]]

Handle(a) ==
  \/ \E n \in Names : FindIdle(a, n) \/ CreateWorker(a, n) \/ WaitIdle(a, n)
  \/ FindNone(a) \/ CreateWorkerFails(a) \/ WaitReady(a)
  \/ IssueToken(a) \/ UpdateWorker(a) \/ Reply(a) \/ CertificateFails(a)
  \/ ReleaseRevoke(a)

AllocNext ==
  \/ \E a \in Allocs :
       \/ Handle(a) \/ WaitTimesOut(a) \/ WriteTimeout(a) \/ ClientLeaves(a)
       \/ DropExpiredToken(a) \/ ReleaseDelete(a)
  \/ PoolStep /\ UNCHANGED <<req, tokens>>
  \/ (WRStep \/ ClusterStep) /\ UNCHANGED <<plan, req, tokens>>
  \/ AllocRestart

AllocSpec == AllocInit /\ [][AllocNext]_allocVars

\* Handlers run on, timers fire and time passes; nobody has to leave or to release.
AllocFairness ==
  /\ PoolFairness
  /\ \A a \in Allocs :
       /\ WF_allocVars(Handle(a))
       /\ WF_allocVars(WaitTimesOut(a)) /\ WF_allocVars(WriteTimeout(a))
       /\ WF_wrVars(AllocationExpires(a) /\ UNCHANGED recon)

AllocFairSpec == AllocSpec /\ AllocFairness
-----------------------------------------------------------------------------
\* The allocation stored in a worker is one whose token names that worker and
\* carries the endpoint the worker publishes, although the request works from
\* a cached copy and the Update comes after the token.
TokenMatchesWorker ==
  \A n \in Names, a \in Allocs :
    Live(n) /\ worker[n].alloc = a
      => req[a].n = n /\ req[a].obj.endpoint = worker[n].endpoint

\* Every allocate handler returns, also when the worker it created fails, is taken,
\* scaled down or deleted before the handler sees it Idle: no goroutine waits for ever.
\* Whether its client is still told is AnswersArrive.
HandlersEnd ==
  \A a \in Allocs : <>(req[a].pc \in {"replied", "revoke", "released", "failed", "lost"})

\* "Long timeout for scaling": bkctl waits five minutes, so a client that stays gets the
\* answer that a worker was allocated to it.
AnswersArrive ==
  \A n \in Names, a \in Allocs : Live(n) /\ worker[n].alloc = a => ~At(a, "lost")

\* No allocation holds a worker for ever, also when the client never releases
\* it, the response comes too late to be sent or the process restarts.
AllocationEnds ==
  \A n \in Names, a \in Allocs :
    (Live(n) /\ worker[n].alloc = a) ~> ~(Live(n) /\ worker[n].alloc = a)

\* A client holds allocation a: it was answered and its token is still valid.
Holds(a) == At(a, "replied") /\ a \in tokens \ expired

\* "Each worker is allocated to a specific build job": no two clients hold
\* the same worker.
NoSharedWorker ==
  \A a, b \in Allocs : Holds(a) /\ Holds(b) /\ req[a].n = req[b].n => a = b

\* "Skipping allocated worker during scale-down": the pool's worker manager
\* never deletes a healthy worker that carries an unexpired allocation.
ScaleDownSparesAllocated ==
  [][\A n \in Names :
       /\ Live(n) /\ worker[n].phase \in Serving /\ pod[n].phase = "ready"
       /\ worker[n].alloc \notin expired \cup {NoAlloc}
       /\ n \in plan.dels /\ n \notin plan'.dels
       => worker'[n] = worker[n]]_allocVars
=============================================================================
