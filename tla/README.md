# Verification of buildkit-controller

TLA+ models of the BuildKit controller, TLC configurations that check them on
small instances, and TLAPS proofs of their main safety properties for every
value of the constants. `PROJECT.json` maps every definition to the lines it
models and lists runs, mutants, findings, hazards and theorems.

## 1. The system

The repository is a Kubernetes operator that runs BuildKit daemons on demand.

| Part | Source | State | Operations |
|---|---|---|---|
| Allocation tokens | `internal/gateway/token.go` | in-memory map of `*TokenData` | issue, validate, revoke, refresh, update endpoint, clean up |
| Worker controller | `internal/controller/worker_controller.go` | `BuildKitWorker` objects (phase, finalizer, pod name, endpoint), pods | one reconciliation per phase, deletion |
| Pool worker manager | `internal/controller/worker/manager.go`, `shared/helpers.go` | none of its own: lists and writes workers | clean-up of failed and stuck workers, scale-down, minimum, schedule |
| API server, workers | `internal/api/server.go` 827-1160 | one goroutine per request, the token map | allocate, lookup, release |
| API server, the rest | `internal/api/server.go`, `rbac.go` | OIDC verifier cache | certificates, authentication, RBAC |
| Pool controller | `pool_controller.go`, `pool/manager.go` | `BuildKitPool`, ConfigMap | defaults, CA, TLS, ConfigMap, gateway, workers, status in that order |
| TLS manager | `internal/controller/tls`, `internal/certs/certificate.go` | certificate secrets | issue and rotate server, client, worker certificates |
| CA manager | `internal/certs/ca.go` | CA secret | ensure, load, store |
| Status updater | `internal/controller/status/updater.go` | pool status | counts, phase, conditions |
| Gateway | `internal/gateway/gateway.go`, `cmd/gateway` | listener, connections | accept, look up, proxy, stop |
| Gateway manager | `internal/controller/gateway/manager.go` | Deployment, Service, routes | create or update |
| bkctl | `cmd/bkctl/main.go` | client process | allocate, build, release, signal handling |

The API server, both controllers and the token map live in one process and
share one client: reads come from informer caches, writes go to the API server.
They have no lock in common. They meet in the `BuildKitWorker` object: the API
server and the pool manager create it, the worker controller moves it through
its phases, the API server stores the allocation in it, and all three delete
it. What makes this hard is

- stale reads: a list or a copy is old when the write based on it is sent;
- conflicts: `Update` fails on an old copy, `Delete` does not;
- two writes in one reconciliation, with a crash or an error in between;
- requests that race for one worker, and wait for states another actor decides;
- the token map, lost in a restart while the allocations in the cluster stay.

The pool controller's pass (CA, TLS, ConfigMap, gateway, workers, status) writes
secrets, objects and status from cached copies and is repeated on every watch
event, error and timer. The gateway and bkctl are processes of their own: a
client allocates through the API server, connects through the gateway, which
looks its token up, and releases at the end, on a signal, or never.

The properties that make it correct: pods do not leak; a serving worker keeps
its pod; a stored allocation agrees with its token; every allocation ends; no
handler waits for ever; the pool gets back to its minimum; no token outlives its
cap; certificates are renewed in time and end up under one CA; objects and
status converge to the spec; connections end with their worker; the client
leaves nothing behind.

## 2. Modules

    KubeWorkers <- WorkerReconciler <- PoolScaler <- Allocation
    GatewayProxy <- BuildSession
    TokenManager (refines TokenLease)    PoolCerts    PoolExposure    ApiRequests

Each arrow is EXTENDS: a layer keeps the actions of the one below and replaces
its assumed environment by real components. `MC*` modules are what TLC runs
(`BuildSession` needs none), `*Proofs` modules hold the theorems.

**TokenManager** (`token.go`). `table` is the set of keys of `tm.tokens`,
`data` the heap objects, which outlive their entry. Operations that hold the
lock throughout are one action; `ValidateToken` is `ValidateFetch`,
`ValidateCheck`, `ValidateRevoke`, since it compares the expiry with no lock
held. Time is an integer; ttls may be zero, negative or above the cap.

**KubeWorkers** (external). `worker` is the API server, `cache` the informer
cache, `pod` and `podSeen` the same for the pod that carries the worker's name.
A resourceVersion is abstracted to the object's contents: an update succeeds iff
the copy it was computed from is the current object (`Fresh`). Pods of one name
are numbered (incarnations), and `podName` and `endpoint` hold the number they
were recorded for, so an address of a pod that is gone can be told from the
current one. `aged` is the latest incarnation older than ten minutes.

**WorkerReconciler** (`worker_controller.go`). One action per branch of
`Reconcile`. A branch with one write is one action, because a stale copy makes
the write conflict and a conflict changes nothing; the two branches with two
writes (`CreatePod`/`RecordPod`, `DeletePod`/`RemoveFinalizer`) are two actions
with the copy held in `recon`, and `ReconcileAborted` and `Restart` may come in
between. The rest of the program is `WREnv`.

**PoolScaler** (`worker/manager.go`). `PoolList` reads the cache and fixes the
calls (`plan`); every `Delete` and `Create` is a step of its own.
`CreationTimestamp` has whole seconds and the sort is unstable:
`DistinctSeconds` says whether ties occur. Whether the schedule is active is a
free choice when `HasSchedule`. `CalmPoolSpec` is the pool in a cluster where
no pod is evicted, fails or comes late; the process may still crash and its
calls fail. Order between the deletions of one pass is free;
the code's order is one of the orders considered.

**Allocation** (`server.go`). Every request is a goroutine with a program
counter: find or create, wait, issue the token, store the allocation, issue the
certificate, reply, release. `WriteTimeout` is the server's 15 seconds: it stops
neither the handler nor its context, so a handler that waited longer goes on, and
what it answers is "lost". `ClientLeaves` ends the context. Only waits are taken to
last that long. The token table is abstracted to the set `tokens`
(the locking of the table is `TokenManager`'s subject). Releases are made by the
client the reply was sent to, at most once.

**TokenLease** is what the token table promises, with no expiry instants,
refreshes or clean-ups: a lease is granted once, ends once, and is used no later
than MaxTTL after the grant. `ImplementsLease` in `TokenManager` is the
refinement: `table` gives the live leases, a validation between its first and
last step is a question being asked.

**PoolCerts** (`certs`, `tls`, `shared.CalculateRequeueInterval`). Secrets in the
API server and in the cache, which gets the writes late and in order. A
certificate has an age, the CA that signed it and the CA in its bundle; CAs are
numbered. Steps of the pass end where the next read or write begins: `StartPass`
(EnsureCA's Get), `StoreCA`, `CheckServer`, `CheckWorker`, `Sign`,
`StoreCertificate`, `SetOwnerReference`. A Get that fails counts as "not there"
in three places of the code (`EnsureCAMisread`, `CheckMisread`). Time is in
status intervals and passes only between passes.

**PoolExposure** (`pool`, `gateway/manager.go`, `resources/gateway.go`,
`status/updater.go`, `utils.CreateOrUpdate`, and `waitForPoolReady`). A pass is
the list of things left to do for the spec it read, `Plan`; an item is one read
and at most one write. Objects carry what the constructors take from the spec.
`WakeTick` is a poll of a request that waits for the pool's status. The
certificates and workers of the pass are calls that may fail here, since their
managers write nothing these read, except the list of workers, which is free.

**GatewayProxy** (`gateway.go`, `cmd/gateway`). Accept loop, `Stop`, one handler
and two copiers per connection. Each end of a connection is open, left by its
peer, or closed. **BuildSession** (`cmd/bkctl` `build`) composes it with the
client: main goroutine, signal handler, docker build, and the controller reduced
to what it does to token and worker. Files, names and output are left out.

**ApiRequests** (`server.go` 94-565, `rbac.go`, `auth`). A request lists the
configurations, then passes over those that are off and for each other reads the
cache, touches, builds or stores a verifier in separate steps, and tries its
token; then the service account check if no configuration took it; then the pools'
rules and the certificate. An issuer may not answer when a verifier is built or when
it has to fetch keys. `CleanupStaleVerifiers`, time and operators' edits run in
between. Tokens are an issuer, an audience, whether they have expired and whether
the service account check can read them; OIDC signatures are the library's. The
service account check asks no configuration and verifies no signature, as its own
comment says (`jwt.go:50-59`), and so does the model: who gets past it is not
claimed to have been configured anywhere. `had` and `failed` are history variables:
the values each configuration has had, and the issuers a request could not reach.

## 3. Runs

Faults (crashes, failed calls, evictions, unschedulable pods, ten-minute delays,
pool deletion, misread secrets, operators' damage) share the budget `MaxFaults`;
`MaxWorkers` bounds the worker objects ever created, `MaxEdits` the edits of a
spec or configuration. Deadlock is not checked where, with all names used and all
faults spent, the system may stop.

| Run | Bounds | Shows |
|---|---|---|
| tokens_safety | 2 tokens, 2 callers, clock 0..4, cap 3 | caps and revocation hold under all interleavings; the table refines `TokenLease` |
| worker | 1 worker, 1 allocation, 2 faults | finalizer before pod, no second pod for a serving worker, no way back to provisioning, deletion completes, expired allocations are reclaimed |
| pool_safety | 3 workers, Min 1, calm, no faults, no ties | scale-down keeps Min ready workers |
| pool_min | 2 workers, Min 1, 1 fault | the pool gets back to Min unless a worker is wedged |
| alloc_safety | 1 worker, 2 requests, 1 fault | allocation and token agree; the process refines `WRSpec` |
| alloc_live | 1 worker, 1 request, 2 faults, schedule | every allocate handler returns, every allocation ends, failed and stuck workers are deleted |
| certs | life 7, window 3, hour 2 intervals, 1 fault | requeue in time, no expiry, only an unused CA is replaced, secrets are restored and end up under the stored CA |
| exposure | 4 specs, 1 edit, 1 worker slot, 1 request, 1 fault | objects and status converge to the spec, routes, Ingress and current Gateway go when not asked for, status writes settle, requests are told published endpoints |
| session | 2 connections, 1 fault | clean exit, signals end the client, connections end with their worker, SIGTERM ends the accept loop and no accept error does |
| api_requests | 2 requests, 3 configurations of 2 issuers, 1 edit, 1 fault | providers side by side: OIDC identifies as configured, configured tokens are found although other providers fail or change, unused verifiers go |

The bounds are the smallest at which the cases meet: one worker object is
enough for the worker controller, whose reconciliations of different workers
share no state but the single `recon`; two requests for one worker give the
race; three workers with Min 1 give a list with two in excess; two faults let a
crash be followed by an eviction. `alloc_safety` has one worker, so a request
that waits and one that finds an idle worker compete for the same one. In
`certs` an hour is two status intervals and a certificate lives seven, of which
three are its renewal window, so the long requeue near renewal, the boundary of
`now.After` and the expiry are all met. The specs of `exposure` are one without
exposure, one with Gateway and route, one with Ingress and no replicas, and one
that the managers refuse half-way, so that edits lead from each to each. Two
connections in `session` let one be routed while another waits in the backlog of
a listener being closed. The configurations of `api_requests` include two of one
issuer, which share a cache entry; a live and an expired token are of the issuer that
comes second, and one is for an audience that only an edit brings; the one
fault is an issuer that does not answer, or a List that fails, at any point. `pool_safety` with a crash or a failed call
(`MaxFaults = 1`) has 9 million states and passes too, in 13 minutes; the
theorem `ScaleDownSafe` covers it. The theorems of section 5 remove the bounds
for the properties they cover.

Runs that find a disagreement (each is a finding in `PROJECT.json`):

| Run | What the code does | What is said of it |
|---|---|---|
| alloc_shared | ignores the conflict of the second request | "Each worker is allocated to a specific build job" |
| alloc_late | lets the server's WriteTimeout of 15 seconds (`server.go:188`) drop the answer of a handler that waits two or five minutes | "Long timeout for scaling" |

Seven further disagreements were found in the same way. The properties are kept in
the modules, next to the lines that say the opposite, and with each a
configuration that makes TLC print the counterexample; they are not among the
runs of `PROJECT.json`:

| Configuration, module | Property | What the code does | What is said of it |
|---|---|---|---|
| WorkerReconcilerEndpoint.cfg, MCWorkerReconciler | EndpointCurrent | publishes the address of a previous pod, for good (`worker_controller.go:138`) | "Endpoint ... for the gateway to reach this worker" |
| PoolScalerTies.cfg, MCPoolScaler | ScaleDownKeepsMin | deletes different workers of one second in two passes (`helpers.go:175`) | Min workers "should always be ready" |
| PoolScalerWedge.cfg, MCPoolScaler | MinReady | a crash leaves a worker in Provisioning with no pod name; it counts for ever (`worker_controller.go:105`) | the same |
| AllocationMax.cfg, MCAllocation | MaxRespected | checks the count, creates later (`server.go:980`) | "respect pool max" |
| AllocationScaleDown.cfg, MCAllocation | ScaleDownSparesAllocated | deletes a worker allocated since the list was read (`worker/manager.go:139`) | "Skipping allocated worker during scale-down" |
| PoolExposureRef.cfg, MCPoolExposure | ReferencedGatewayRouted | with a gatewayRef, panics on a typed nil before the route (`gateway/manager.go:210`) | "will only create route resources" |
| PoolCertsTrust.cfg, MCPoolCerts | TrustConverges | never renews a client secret signed by, or bundled with, another CA, or missing (`tls/manager.go:54`) | "Use a single CA - ensure all components use the same CA" |

## 4. Fairness

- `Reconcile(n)` is strongly fair: every watch event and every `RequeueAfter`
  puts the worker in a first-in-first-out queue served by one goroutine, so a
  worker that keeps having work is not overtaken for ever by others.
- Informers, scheduler, kubelet and garbage collector are weakly fair: that is
  what Kubernetes promises. Pods becoming ready is therefore assumed when
  nothing makes them fail; failures are faults and bounded.
- The pool pass is weakly fair: it is requeued every 30 seconds and on every
  worker event. It is only assumed to act where it would act with the schedule
  active and not (`PoolDue`): that the schedule becomes active is not assumed,
  nor that it ends. Its calls, and the steps of a request, are weakly fair as code
  that runs on.
- Timers fire (`WaitTimesOut`, `WriteTimeout`) and allocations reach their expiry. No client is
  assumed to release.

- `certs`: the queue serves the pool and the pass runs on, the informer delivers,
  time passes. That a pass starts when it is due and takes no time is part of the
  model: a controller that is down for longer than the lead of a renewal lets the
  certificate expire, and no code could prevent it.
- `exposure`: queue, requeue timer and informers run on; the cluster brings
  gateway pods up and takes surplus ones down.
- `session`: the goroutines run on, a token expires, calls to the controller return
  (bkctl's HTTP client has a timeout). That `docker buildx create` and `rm` return is
  an assumption: `setupBuilder` and `removeBuilder` (`bkctl/main.go:553-585`) wait for
  them with no timeout and no context, so a docker that hangs there keeps the client
  after a signal. A handshake ends: the code sets no deadline, so this is an assumption about clients. A
  copier that writes gets on or its connection breaks. No build is assumed to
  end, no signal to come.
- `api_requests`: time passes and the clean-up ticker ticks. Nothing is assumed of
  requests: their calls to an issuer have no deadline (`server.go:511`).

`MinReady` and `MinReadyUnlessWedged` have a disjunct for the case that the
model runs out of names, which the real system does not.

## 5. Proofs

All theorems assume only the ASSUMEs of the modules (`TokenAssumption`,
`KubeAssumption`, `PoolAssumption`, `CertAssumption`, `ExposureAssumption`,
`GatewayAssumption`, `ApiAssumption`), which TLC evaluates. Every safety property
that a passing run checks is also a theorem.

**TokenManagerProofs**. `TypeOK` is inductive. `LifetimeCapped` and
`NoUseAfterCap` are proved together as `CapInv`: a successful validation sets
`lastUse` to `now`, at most the expiry, at most the cap; and a refresh cannot
move the cap, because both caps count from the issue instant.
`RevokedForever` follows since only `IssueToken` adds to the table, and only a
token not issued before. `TokenTableIsLease` is the refinement: with `CapInv` and
`CallInv` (a caller has a token at hand exactly while it validates) every action is
a step of `TokenLease` or a stutter.

**WorkerReconcilerProofs**. `PodUnderFinalizer` is not inductive: the pod is
created from the cached copy, so one needs that a finalizer in the cache is also
in the API server (`CachedFinalizerHolds`; it is only removed together with the
object), and that a name not yet used is blank everywhere (`UnusedIsBlank`).
`ServingPodKept` needs more: the cache never shows a serving worker in a phase
that `reconcilePending` handles (`ServingNotCachedPending`), and the copy held
between its two writes was in such a phase (`HeldCopyPending`), so recording the
pod cannot overwrite a worker that has moved on. Most writes are mild
(`MildWrite`): they end the object, or drop no finalizer and enter no serving
phase, and one lemma covers them all. `IInv` is the conjunction; `WRInvariant` proves it, and `WRTypeCorrect`,
`WRPodUnderFinalizer`, `WRServingPodKept` and `WRNeverReprovisioned` follow.

**PoolScalerProofs**. `PoolImplementsWR`: a step of the pool manager is a step of
`WREnv` or a stutter. `PoolTypeCorrect` needs that a plan never creates a negative
number of workers or more than Min (`CreateBounded`).

`WedgedForGood` turns the counterexample of `PoolScalerWedge.cfg` into a fact: a
worker in Provisioning with no pod name is left in that state by every step. Deletions are the hard part: `PlanNamed` says that the
manager only ever deletes workers that failed or have their pod recorded, which
needs that what the cache says of a deletion, a pod name or a failure is true for
good (`CachedFactsHold`).

`ScaleDownSafe` is about passes that each work from a list of their own age. One
pass keeps the Min youngest idle workers it sees; the danger is that passes with
different lists keep different ones. `YoungerKept` is the heart of `CalmInv`: every
worker given up, or about to be, while the cache may still show it idle, is older
than each of Min ready workers that the list shows idle too and no plan contains. So a
later list that is still wrong about the former is right about the latter, and takes
older ones first. The other conjuncts say how stale a list may be: a worker it shows
Idle is Idle or gone (`ListedIdleHolds`), an idle worker that is being deleted was
listed as idle (`DoomedWereListed`), and a pod that was seen ready stays ready while its
worker does (`PodsFine`, `ReadyStays`, `IdleIsReady`). The theorem takes
`DistinctSeconds`, without which it is false (`PoolScalerTies.cfg`), no schedule, which
may scale to zero, and the calm cluster: an eviction between two passes takes a
ready worker that the last list counted on.

**AllocationProofs**. `RequestInv` says which lease state goes with which program
counter and that the copy a request holds was Idle. With it every step of the
API server and of the pool manager is a step of `WREnv` or a stutter
(`AllocImplementsWR`, the refinement mapping being the identity), so the worker
controller's theorems hold of the whole process (`ProcessSafety`).

`TokensMatchWorkers` needs `MatchInv`: a worker with an allocation is past
provisioning, so nobody writes its endpoint any more, and its request is past
the Update (`Settled`), so its copy does not change either (`AllocationKept`,
`SettledKept`).
`AllocTypeCorrect` includes `PoolTypeOK`, whose step is `CreateBounded` below.

**PoolCertsProofs**. `ServerNeverExpires` is far from inductive. `RotationInv`
adds: a certificate that is not brand new is shown by the cache with its age,
and by every write still under way (`AgeSeen`); a pass that remembers a
certificate has found it not yet due (`ViewSound`); and the timer goes off before
the certificate is too old for one more look (`TimerSound`). The last is where
`CalculateRequeueInterval` and `MinRequeue <= Lead` come in: near the renewal the
pass sleeps an hour, and the lead must be at least that. Certificates
configured to live less than 75 minutes, or renewed less than an hour before
their end, do not meet it and may expire. It is the only assumption about certificate
durations, so the theorem covers short certificates
(`Duration < RenewalWindow`), which the run does not.
`ReplacedCASignedNothing` needs `SignedAfterSeen`: undisturbed, nothing is signed
before the cache shows a CA, and a CA it shows stays.

**BuildSessionProofs**. `SessionTypeOK` is inductive, for any set of connections.
`CleanExit` is strengthened to `ClientInv`, which says where the two goroutines
can be together and what each has done by then. `LoopOutlivesErrors` rests on
`ShutdownInv`: `running` is cleared exactly from Stop's first step on, hence before
the listener is closed, and the loop returns only when it reads it cleared.

**PoolExposureProofs**. `PublishedInv`: in the API server and in the cache, a status
is the empty one or has an endpoint from the history of published ones (`Honest`),
so whatever looks ready has an endpoint. That one write carries both is what makes it inductive.
`ExposureTypeCorrect` is proved from `ExposureInv`, which adds that the generation
counts the edits and that both copies of the pool are whole; a status is only written
over the copy it was computed from, so its condition is of no later generation. The
counts are cardinalities of filtered sets (`CountBounded`), desired and needed keep to
Max (`DesiredBounded`).

**ApiRequestsProofs**. A step writes the record of one request, so the inductive
invariant `ApiInv` is a predicate `Good` on a record, given the values `had` that the
configurations have had. Its parts: `Formed` is its shape, and that a search has a
configuration at hand and a verifier of that configuration's issuer. `Backed`: every
setting in the list is one its configuration has had, and the audience of the verifier
at hand, or of the token that was identified, is one that an enabled configuration of
the issuer has had; the same of the cache is `Stock`. `Hopeful`: of a token whose issuer
was only ever configured for its audience (`Promised`), and that no failure of its own
issuer or of a List has hindered, every configuration that was enabled throughout
(`Always`) is still ahead, in the rest of the list or in the pools' methods still to be
listed; as there is one, the search does not run out. The head that is passed over is
never such a configuration: a disabled one was not enabled throughout; any verifier
of the right issuer has the one audience and would have accepted; and an issuer that did
not answer is another one. `had` only grows, which keeps `Backed` and makes `Promised`
and `Always` smaller, so edits keep all three (`GoodStays`). `ApiTypeCorrect` and
`TokensIdentified` follow. The list is a function of its index, not a recursive
operator, and the search takes its tail, so no induction over data is needed.

Only model-checked: all liveness properties (`DeletionCompletes`,
`ExpiredReclaimed`, `MinReadyUnlessWedged`, `HandlersEnd`, `AllocationEnds`,
`StuckAndFailedReplaced`, `ServerAndWorkerRestored`, `ServingTrustConverges`,
`ExposureConverges`, `StatusConverges`, `StatusSettles`, `InterruptEnds`,
`ConnectionsEnd`, `GatewayStops`, `UnusedVerifiersGo`):
they rest on fairness, hence on ENABLED, which is out of the prover's reach. The
findings are counterexamples, for which TLC is the tool.

## 6. Not modelled

- Contents of objects, names, labels, keys and log lines; HTTP parsing; dev mode,
  in which authentication is skipped.
- `waitForPoolReady`'s scale-up of a Deployment named after the pool: no code
  creates one, the gateway's is `<pool>-gateway`.
- The Gateway API secret's age, and annotations (never written to an object that
  exists).
- The claims of OIDC configurations: like the audience they are fixed when a
  verifier is built; only the audience is in the model.
- Pods disappear at once when deleted. A pool deleted while requests run is only
  in `WorkerReconciler`. A second release with the same token while the first is
  in progress is left out: it repeats a delete of the same name.
- `internal/scale`, `auth.GeneratePKCE`, `RefreshToken` and key parsing have no
  caller; the mock OIDC server is a test aid; `zz_generated.deepcopy.go` is
  generated; metrics, logging, container and volume builders are pure data.
- `bkctl allocate`, `release`, `status` and `oidc-token`: one call each, with no
  state between them.
- The three parts of the pool pass are not composed in one module: they share the
  work queue and nothing else that they read and write, and the product is out of
  TLC's reach.

Five things the models show on inspection and no run states. A Gateway under a
`gatewayName` that the spec has dropped stays for ever, because `cleanupGatewayAPI`
computes the name to delete from the new spec (`gateway/manager.go:244-250`), and so
does the API TLS secret; both are in `PoolExposure`'s store, and `ExposureConverges`
speaks only of the Gateway of the current name. With Min = 0,
`ensureMinimumWorkers` returns first thing and an idle worker stays for ever,
while `docs/ARCHITECTURE.md` speaks of an idle timeout. `ensureMinimumWorkers`
does not read Max and does not count a worker whose phase is still empty, so
the pool manager, too, can exceed Max. `RefreshToken` counts from now, so it may
shorten a token's life, and a refresh that falls between the check and the
clean-up of `ValidateToken` is lost; it has no caller under `src/` yet, nor have
`UpdateWorkerEndpoint` and `CleanupExpired`, so tokens nobody looks up again stay
in the table. And `os.Exit` skips the deferred removal of bkctl's certificate
directory on every path but the successful one.

## 7. Plan

1. `TokenManager` in place of the set `tokens` of `Allocation`, through
   `TokenLease`.
2. `BuildSession` over the real `Allocation` instead of its reduced controller.
3. Rotation seen from the gateway, which reads its certificates once at start
   (`cmd/gateway`), composed with `PoolCerts`.
