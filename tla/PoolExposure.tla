---------------------------- MODULE PoolExposure ----------------------------
(***************************************************************************)
(* How a pool is exposed and what its status says: the ConfigMap manager   *)
(* (internal/controller/pool), the gateway manager with the constructors   *)
(* of internal/resources (internal/controller/gateway), the status updater *)
(* (internal/controller/status), and the API requests that wait for that   *)
(* status (handleWakePool, handleAllocate, waitForPoolReady).              *)
(*                                                                         *)
(* A pool pass is the list of things it still has to do for the spec it    *)
(* read; every item is one read of the informer cache followed by at most  *)
(* one write, and the cache, the operator, the cluster and the requests    *)
(* may move between two items.  Objects are compared by their contents,    *)
(* as in KubeWorkers: a write made from a copy that is not the current one *)
(* is a conflict.  The certificates of the pass are in PoolCerts, its      *)
(* workers in PoolScaler: here they only are calls that may fail.          *)
(*                                                                         *)
(* An object is what the code derives from the spec: ports, replicas and   *)
(* the parent of a route.  Labels, images, resource limits and probes      *)
(* depend on nothing that changes and are left out, and so are             *)
(* annotations: CreateOrUpdate never writes them to an object that exists. *)
(***************************************************************************)
EXTENDS Integers, Sequences, FiniteSets

CONSTANTS
  PoolSpecs,     \* the specs the operator may apply, records of PoolSpec
  OldTCPRoute,   \* a TCPRoute is left from a release that used them
  Allowed,       \* ALLOWED_INGRESS_TYPES, a subset of {"ingress", "gatewayapi"}
  Ports,         \* service ports in use
  DefaultPort,   \* GatewayPort, shared.DefaultGatewayPort
  Unset,         \* a field that is not set
  Min, Max,      \* Spec.Scaling
  Slots,         \* places for a worker in the list of workers
  Requests,      \* API requests that wait for the pool
  WorkerPhases,  \* the phases the list may come to show
  MaxEdits,      \* bound: edits of the spec
  MaxFaults      \* bound: failed calls, restarts, gateways down, changes of the list

\* given: a gateway field besides enabled is set; api: the gatewayAPI section, where
\* "own" asks for a Gateway and "ref" names one; mode: its tls section; gwName: its
\* gatewayName is set; toml: which buildkitConfig.
PoolSpec ==
  [enabled : BOOLEAN, given : BOOLEAN, port : Ports \cup {Unset}, netPort : Ports \cup {Unset},
   replicas : Nat \cup {Unset}, toml : STRING,
   api : {"none", "off", "own", "ref"}, mode : {"none", "passthrough", "terminate"},
   host : BOOLEAN, gwName : BOOLEAN, ingress : BOOLEAN]

ASSUME ExposureAssumption ==
  /\ PoolSpecs \subseteq PoolSpec
  /\ OldTCPRoute \in BOOLEAN
  /\ Allowed \subseteq {"ingress", "gatewayapi"}
  /\ Ports \subseteq Nat /\ DefaultPort \in Ports /\ Unset \notin Nat
  /\ Min \in Nat /\ Max \in Nat \ {0} /\ IsFiniteSet(Slots)
  /\ WorkerPhases \subseteq {"Pending", "Running", "Idle", "Allocated", "Failed"}
  /\ MaxEdits \in Nat /\ MaxFaults \in Nat

VARIABLES
  pool,       \* the BuildKitPool in the API server
  poolSeen,   \* the BuildKitPool in the informer cache
  store,      \* [Objects -> Object]: the API server
  seen,       \* [Objects -> Object]: the informer cache
  fleet,      \* [Slots -> worker phase]: the workers in the informer cache
  pass,       \* the pool pass in progress
  queued,     \* the pool is in the work queue
  wake,       \* [Requests -> the port the request has been told, or Unset]
  published,  \* history: the endpoints the status has shown
  edits, faults

exposureVars ==
  <<pool, poolSeen, store, seen, fleet, pass, queued, wake, published, edits, faults>>

\* "gateway" and "named" are Gateways: <pool>-gateway, and the one gatewayName names.
Objects ==
  {"configmap", "deployment", "service", "apiTLS", "gateway", "named", "route", "tcproute", "ingress"}

\* Owns: a change of one of these queues the pool.
Owned == {"configmap", "deployment", "service", "apiTLS"}

\* Kinds whose stored spec the API server completes with defaults, so that it always
\* differs from the desired one and CreateOrUpdate always sends an Update.
Completed == {"deployment", "service", "gateway", "named", "route"}

\* Kinds that are in the client's scheme (buildScheme): a Get of another kind fails.
Known ==
  Objects \ ((IF "gatewayapi" \in Allowed THEN {} ELSE {"gateway", "named", "route", "tcproute"})
             \cup (IF "ingress" \in Allowed THEN {} ELSE {"ingress"}))

\* up: Status.ReadyReplicas > 0, of the Deployment.
Absent == [here |-> FALSE, val |-> <<>>, up |-> FALSE]
Present(v) == [here |-> TRUE, val |-> v, up |-> FALSE]

Phases == {"none", "Pending", "Running", "Idle", "Allocated", "Failed"}

\* Status.Phase is Running when gateway is "up" and Pending otherwise, and
\* Connections.Active is allocated.  stamp stands for LastActivityTime and
\* LastConnectionTime.
NoWorkers ==
  [total |-> 0, ready |-> 0, idle |-> 0, allocated |-> 0, provisioning |-> 0, failed |-> 0,
   desired |-> 0, needed |-> 0]
NoStatus ==
  [gateway |-> "none", endpoint |-> Unset, cond |-> "none", condGen |-> 0,
   workers |-> NoWorkers, stamp |-> 0]

Resting == [todo |-> <<>>, spec |-> Unset]

WorkerCounts ==
  [DOMAIN NoWorkers -> 0..(IF Cardinality(Slots) > Max THEN Cardinality(Slots) ELSE Max)]

ExposureTypeOK ==
  /\ pool.spec \in PoolSpecs /\ poolSeen.spec \in PoolSpecs
  /\ \A p \in {pool, poolSeen} :
       /\ p.gen \in 0..MaxEdits
       /\ p.status.gateway \in {"none", "down", "up"}
       /\ p.status.endpoint \in Ports \cup {Unset}
       /\ p.status.cond \in {"none", "False", "True"} /\ p.status.condGen \in 0..p.gen
       /\ p.status.workers \in WorkerCounts
  /\ DOMAIN store = Objects /\ DOMAIN seen = Objects
  /\ fleet \in [Slots -> Phases]
  /\ pass.todo # <<>> => pass.spec \in PoolSpecs
  /\ queued \in BOOLEAN
  /\ wake \in [Requests -> Ports \cup {Unset}]
  /\ published \subseteq Ports \cup {Unset}
  /\ edits \in 0..MaxEdits /\ faults \in 0..MaxFaults

\* A new pool.
ExposureInit ==
  /\ \E s \in PoolSpecs : pool = [spec |-> s, gen |-> 0, status |-> NoStatus]
  /\ poolSeen = pool
  /\ store = [[k \in Objects |-> Absent] EXCEPT !["tcproute"] = IF OldTCPRoute THEN Present(<<>>) ELSE Absent]
  /\ seen = store
  /\ fleet = [w \in Slots |-> "none"]
  /\ pass = Resting
  /\ queued = TRUE
  /\ wake = [r \in Requests |-> Unset]
  /\ published = {}
  /\ edits = 0 /\ faults = 0
-----------------------------------------------------------------------------
(* What the spec asks for. *)

Or(x, default) == IF x = Unset THEN default ELSE x

\* setDefaults: without any gateway field the gateway is on.
Enabled(s) == s.enabled \/ ~s.given

Replicas(s) == Or(s.replicas, 1)

\* The port of the Service, the Gateway, the TLSRoute and the Ingress.
Port(s) == Or(s.port, Or(s.netPort, DefaultPort))

GatewayName(s) == IF s.gwName THEN "named" ELSE "gateway"

\* NewGatewayAPITLSRoute: the parent of the route.
Parent(s) == IF s.api = "ref" THEN "ref" ELSE GatewayName(s)

\* The constructors of internal/resources: what they take from the spec.
NewGatewayDeployment(s) == <<Replicas(s)>>
NewGatewayService(s) == <<Port(s)>>
NewGatewayAPIGateway(s) == <<Port(s)>>
NewGatewayAPITLSRoute(s) == <<Parent(s), Port(s)>>
NewIngress(s) == <<Port(s)>>

\* The data of the ConfigMap.
ConfigMapData(s) == <<s.toml>>

Desired(k, s) ==
  CASE k = "configmap" -> ConfigMapData(s)
    [] k = "deployment" -> NewGatewayDeployment(s)
    [] k = "service" -> NewGatewayService(s)
    [] k \in {"gateway", "named"} -> NewGatewayAPIGateway(s)
    [] k = "route" -> NewGatewayAPITLSRoute(s)
    [] k = "ingress" -> NewIngress(s)
    [] OTHER -> <<>>

\* The items of a pass; a run of clean-ups is one item, its objects being different.
Apply(k) == [op |-> "apply", objs |-> {k}]
Clean(K) == [op |-> "clean", objs |-> K]
Generate == [op |-> "generate", objs |-> {"apiTLS"}]
Refuse == [op |-> "refuse", objs |-> {}]
Status == [op |-> "status", objs |-> {}]

\* reconcileGatewayAPITLS.
APITLSPlan(s) ==
  IF ~s.host THEN <<Refuse>>
  ELSE IF s.mode = "terminate" THEN <<Generate>>
  ELSE <<>>

\* reconcileGatewayAPIGateway: with a gatewayRef the constructor returns a nil
\* *Gateway, which is not the nil interface reconcileResource tests for;
\* SetControllerReference dereferences it, and controller-runtime turns the panic
\* into an error of the pass.
APIGatewayPlan(s) == IF s.api = "ref" THEN <<Refuse>> ELSE <<Apply(GatewayName(s))>>

\* reconcileGatewayAPITLSRoute and cleanupOldTCPRoute.
APIRoutePlan(s) ==
  IF s.mode = "terminate" THEN <<Refuse>> ELSE <<Apply("route"), Clean({"tcproute"})>>

\* reconcileGatewayAPIResources, reconcileGatewayAPI and cleanupGatewayAPI.
APIPlan(s) ==
  IF s.api \in {"none", "off"}
    THEN <<Clean({IF s.api = "off" THEN GatewayName(s) ELSE "gateway", "tcproute", "route"})>>
  ELSE IF "gatewayapi" \notin Allowed THEN <<Refuse>>
  ELSE APITLSPlan(s) \o APIGatewayPlan(s) \o APIRoutePlan(s)

\* reconcileIngressResources, reconcileIngress and cleanupIngress.
IngressPlan(s) ==
  IF ~s.ingress THEN <<Clean({"ingress"})>>
  ELSE IF "ingress" \notin Allowed THEN <<Refuse>>
  ELSE <<Apply("ingress")>>

\* reconcileGateway: a gateway that is off is not taken down.
GatewayPlan(s) ==
  IF ~Enabled(s) THEN <<>>
  ELSE <<Apply("deployment"), Apply("service")>> \o APIPlan(s) \o IngressPlan(s)

\* Reconcile.
Plan(s) == <<Apply("configmap")>> \o GatewayPlan(s) \o <<Status>>

\* The managers accept the spec.
Valid(s) == \A i \in DOMAIN Plan(s) : Plan(s)[i] # Refuse
-----------------------------------------------------------------------------
(* The status the updater computes. *)

CountIn(S) == Cardinality({w \in Slots : fleet[w] \in S})

minInt32(a, b) == IF a < b THEN a ELSE b
maxInt32(a, b) == IF a > b THEN a ELSE b

\* Mutant of DesiredWorkers: Max is not looked at.
DesiredUncapped(allocated) == Min + allocated

\* calculateDesiredWorkers.
DesiredWorkers(allocated) == minInt32(Min + allocated, Max)

\* updateWorkerStatus, countWorkersByPhase, updateWorkerScalingMetrics; listed is
\* FALSE when the list of the workers failed.
Workers(listed) ==
  LET n(S) == IF listed THEN CountIn(S) ELSE 0
      ready == n({"Idle", "Running", "Allocated"})
      provisioning == n({"Pending"})
      desired == DesiredWorkers(n({"Allocated"}))
  IN  [total |-> n(Phases \ {"none"}), ready |-> ready, idle |-> n({"Idle"}),
       allocated |-> n({"Allocated"}), provisioning |-> provisioning, failed |-> n({"Failed"}),
       desired |-> desired, needed |-> maxInt32(desired - (ready + provisioning), 0)]

\* Mutant of Endpoint: the port of the gateway section is not looked at.
EndpointNetworking(s) == Or(s.netPort, DefaultPort)

\* updateEndpoint; Networking.External only changes the host in front of the port.
Endpoint(s) == Or(s.port, Or(s.netPort, DefaultPort))

\* initializeStatusFields: a status without workers loses its desired and needed
\* before it is compared.
Initialized(st) ==
  IF st.workers.total = 0 /\ st.workers.ready = 0 THEN [st EXCEPT !.workers = NoWorkers] ELSE st

\* Mutant of NewStatus: the endpoint is published once the gateway is up.
EndpointOfReadyGateway(p, listed) ==
  LET d == seen["deployment"]
      gateway == IF ~d.here THEN "none" ELSE IF d.up THEN "up" ELSE "down"
  IN  [p.status EXCEPT !.gateway = gateway, !.workers = Workers(listed),
                       !.endpoint = IF gateway = "up" THEN Endpoint(p.spec) ELSE @]

\* updateGatewayStatus to updateReadyCondition, on the pool as the cache shows it.
NewStatus(p, listed) ==
  LET d == seen["deployment"]
      gateway == IF ~d.here THEN "none" ELSE IF d.up THEN "up" ELSE "down"
      workers == Workers(listed)
  IN  [gateway |-> gateway, endpoint |-> Endpoint(p.spec),
       cond |-> IF gateway = "up" THEN "True" ELSE "False", condGen |-> p.gen,
       workers |-> workers,
       stamp |-> IF workers.allocated > 0 THEN 1 - p.status.stamp ELSE p.status.stamp]

\* Mutant of statusChanged: the times are compared as well.
ChangedAnyField(old, new) == old # new

\* statusChanged: the times are not compared.
statusChanged(old, new) == [old EXCEPT !.stamp = 0] # [new EXCEPT !.stamp = 0]
-----------------------------------------------------------------------------
(* A pass. *)

Fault == faults < MaxFaults /\ faults' = faults + 1

PassFails == pass' = Resting /\ queued' = TRUE

Done == pass' = [pass EXCEPT !.todo = Tail(@)] /\ UNCHANGED queued

Item(op) == pass.todo # <<>> /\ Head(pass.todo).op = op

StartPass ==
  /\ pass = Resting /\ queued
  /\ queued' = FALSE
  /\ pass' = [todo |-> Plan(poolSeen.spec), spec |-> poolSeen.spec]
  /\ UNCHANGED <<pool, poolSeen, store, seen, fleet, wake, published, edits, faults>>

\* Mutant of CreateOrUpdate: an object the cache shows is taken to be as desired.
CreateOnly(k, v) ==
  IF seen[k].here THEN Done /\ UNCHANGED store
  ELSE IF ~store[k].here THEN Done /\ store' = [store EXCEPT ![k] = Present(v)]
  ELSE PassFails /\ UNCHANGED store

\* utils.CreateOrUpdate: Get, copyDesiredState, and Create, Update or nothing.
CreateOrUpdate(k, v) ==
  IF ~seen[k].here
    THEN IF ~store[k].here
           THEN Done /\ store' = [store EXCEPT ![k] = Present(v)]
           ELSE PassFails /\ UNCHANGED store
  ELSE IF seen[k].val = v /\ k \notin Completed
    THEN Done /\ UNCHANGED store
  ELSE IF store[k] = seen[k]
    THEN Done /\ store' = [store EXCEPT ![k].val = v]
  ELSE PassFails /\ UNCHANGED store

\* reconcileResource, and reconcileConfigMap.
ReconcileResource ==
  /\ Item("apply")
  /\ \E k \in Head(pass.todo).objs : CreateOrUpdate(k, Desired(k, pass.spec))
  /\ UNCHANGED <<pool, poolSeen, seen, fleet, wake, published, edits, faults>>

\* cleanupResource: Delete has no precondition; a failed Get or Delete is passed over.
CleanupResource(failed) ==
  /\ Item("clean")
  /\ IF failed THEN Fault ELSE UNCHANGED faults
  /\ \E K \in IF failed THEN SUBSET Head(pass.todo).objs ELSE {Head(pass.todo).objs} :
       store' = [k \in Objects |-> IF k \in K \cap Known /\ seen[k].here THEN Absent ELSE store[k]]
  /\ Done
  /\ UNCHANGED <<pool, poolSeen, seen, fleet, wake, published, edits>>

\* needsGatewayAPICertificate and issueAndStoreGatewayAPICertificate, where the
\* certificate does not grow old.
GenerateAPITLS ==
  /\ Item("generate")
  /\ IF seen["apiTLS"].here THEN Done /\ UNCHANGED store
     ELSE CreateOrUpdate("apiTLS", <<>>)
  /\ UNCHANGED <<pool, poolSeen, seen, fleet, wake, published, edits, faults>>

\* A manager returns an error of its own.
RefuseSpec ==
  /\ Item("refuse")
  /\ PassFails
  /\ UNCHANGED <<pool, poolSeen, store, seen, fleet, wake, published, edits, faults>>

\* updateStatus reads the pool again, and Reconcile returns with RequeueAfter.
UpdateStatus(listed) ==
  LET old == Initialized(poolSeen.status)
      new == NewStatus([poolSeen EXCEPT !.status = old], listed)
  IN  /\ Item("status")
      /\ listed \/ Fault
      /\ listed => UNCHANGED faults
      /\ IF statusChanged(old, new)
           THEN IF pool = poolSeen
                  THEN /\ pool' = [pool EXCEPT !.status = new]
                       /\ published' = published \cup {new.endpoint}
                       /\ pass' = Resting /\ UNCHANGED queued
                  ELSE PassFails /\ UNCHANGED <<pool, published>>
           ELSE /\ pass' = Resting
                /\ UNCHANGED <<pool, published, queued>>
      /\ UNCHANGED <<poolSeen, store, seen, fleet, wake, edits>>

\* A call fails, of these managers or of those for the certificates and the workers.
CallFails ==
  /\ pass # Resting
  /\ Fault
  /\ PassFails
  /\ UNCHANGED <<pool, poolSeen, store, seen, fleet, wake, published, edits>>

Restart ==
  /\ Fault
  /\ pass' = Resting /\ queued' = TRUE
  /\ poolSeen' = pool /\ seen' = store
  /\ UNCHANGED <<pool, store, fleet, wake, published, edits>>

PassStep ==
  \/ StartPass \/ ReconcileResource \/ CleanupResource(FALSE) \/ GenerateAPITLS
  \/ RefuseSpec \/ UpdateStatus(TRUE)

\* The requeue: a pass that does not fail ends with RequeueAfter, so that a pool that
\* is neither queued nor served has a delayed requeue pending.
TimerFires ==
  /\ pass = Resting /\ ~queued
  /\ queued' = TRUE
  /\ UNCHANGED <<pool, poolSeen, store, seen, fleet, pass, wake, published, edits, faults>>
-----------------------------------------------------------------------------
(* The cluster and the operator. *)

PoolInformer ==
  /\ poolSeen # pool
  /\ poolSeen' = pool /\ queued' = TRUE
  /\ UNCHANGED <<pool, store, seen, fleet, pass, wake, published, edits, faults>>

\* The kinds whose objects only passes write are brought up to date together: a pass
\* treats each of them by itself.
Caches == {{"deployment"}, Objects \ {"deployment"}}

ObjectInformer(K) ==
  /\ \E k \in K : seen[k] # store[k]
  /\ seen' = [k \in Objects |-> IF k \in K THEN store[k] ELSE seen[k]]
  /\ queued' = (queued \/ \E k \in K \cap Owned : seen[k] # store[k])
  /\ UNCHANGED <<pool, poolSeen, store, fleet, pass, wake, published, edits, faults>>

Informer == PoolInformer \/ \E K \in Caches : ObjectInformer(K)

\* The gateway pods come up, or the last one goes.
GatewayIs(up) ==
  /\ store["deployment"].here /\ store["deployment"].up # up
  /\ store' = [store EXCEPT !["deployment"].up = up]
  /\ UNCHANGED <<pool, poolSeen, seen, fleet, pass, queued, wake, published, edits>>

GatewayComesUp == store["deployment"].val # <<0>> /\ GatewayIs(TRUE) /\ UNCHANGED faults
GatewayScaledDown == store["deployment"].val = <<0>> /\ GatewayIs(FALSE) /\ UNCHANGED faults
GatewayGoesDown == GatewayIs(FALSE) /\ Fault

OperatorEdits(s) ==
  /\ edits < MaxEdits /\ s # pool.spec
  /\ pool' = [pool EXCEPT !.spec = s, !.gen = @ + 1]
  /\ edits' = edits + 1
  /\ UNCHANGED <<poolSeen, store, seen, fleet, pass, queued, wake, published, faults>>

\* A worker appears, changes or goes in the informer cache; workerToPoolMapper.
WorkerChanges(w, ph) ==
  /\ ph # fleet[w]
  /\ Fault
  /\ fleet' = [fleet EXCEPT ![w] = ph]
  /\ queued' = TRUE
  /\ UNCHANGED <<pool, poolSeen, store, seen, pass, wake, published, edits>>
-----------------------------------------------------------------------------
(* Requests that wait for the pool. *)

\* What waitForPoolReady takes for readiness.
LooksReady(st) == st.cond = "True" \/ st.gateway = "up" \/ st.workers.ready > 0

\* One tick of waitForPoolReady, in a request of handleWakePool or handleAllocate that
\* has found the pool.  Before it waits, the code would scale up a Deployment with the
\* name of the pool; there is none, since the gateway's is <pool>-gateway.  A request
\* that is never told anything ends after five minutes.
WakeTick(r) ==
  /\ wake[r] = Unset
  /\ LooksReady(poolSeen.status)
  /\ wake' = [wake EXCEPT ![r] =
       Or(poolSeen.status.endpoint, Or(poolSeen.spec.netPort, DefaultPort))]
  /\ UNCHANGED <<pool, poolSeen, store, seen, fleet, pass, queued, published, edits, faults>>

ExposureNext ==
  \/ PassStep \/ TimerFires \/ Informer
  \/ CleanupResource(TRUE) \/ UpdateStatus(FALSE) \/ CallFails \/ Restart
  \/ GatewayComesUp \/ GatewayScaledDown \/ GatewayGoesDown
  \/ \E s \in PoolSpecs : OperatorEdits(s)
  \/ \E w \in Slots, ph \in WorkerPhases \cup {"none"} : WorkerChanges(w, ph)
  \/ \E r \in Requests : WakeTick(r)

ExposureSpec == ExposureInit /\ [][ExposureNext]_exposureVars

\* The work queue, the requeue timer and the informers of the process run on; the
\* cluster brings gateway pods up and takes surplus ones down.
ExposureFairSpec ==
  /\ ExposureSpec
  /\ WF_exposureVars(PassStep) /\ WF_exposureVars(TimerFires)
  /\ WF_exposureVars(PoolInformer) /\ \A K \in Caches : WF_exposureVars(ObjectInformer(K))
  /\ WF_exposureVars(GatewayComesUp) /\ WF_exposureVars(GatewayScaledDown)
-----------------------------------------------------------------------------
\* No request is ever told the fallback port of waitForPoolReady, which leaves out
\* Gateway.Port: readiness and endpoint reach the status in one write, so what a
\* client is told has been the published endpoint.
OnlyPublishedEndpoints ==
  \A r \in Requests : wake[r] \in published \cup {Unset}

Exposes(s) ==
  /\ store["configmap"].val = <<s.toml>>
  /\ store["deployment"].val = <<Replicas(s)>>
  /\ store["service"].val = <<Port(s)>>
  /\ ~store["tcproute"].here
  /\ s.api = "own" =>
       store[GatewayName(s)].val = <<Port(s)>> /\ store["route"].val = <<GatewayName(s), Port(s)>>
  /\ s.api \in {"none", "off"} => ~store["route"].here
  /\ s.api = "none" => ~store["gateway"].here
  /\ s.api = "off" => ~store[GatewayName(s)].here
  /\ IF s.ingress THEN store["ingress"].val = <<Port(s)>> ELSE ~store["ingress"].here

\* Whatever the order of edits, stale reads, conflicts, failures and restarts: once they
\* stop, a spec the managers accept is what the cluster has, its routes lead to the
\* port of its Service, and the routes, the Ingress and the Gateway of the name the spec
\* has now are gone when it no longer asks for them.  A Gateway under a gatewayName the
\* spec has dropped (cleanupGatewayAPI computes the name anew) and the API TLS secret
\* stay, and nothing is said of them.
ExposureConverges ==
  <>[](Valid(pool.spec) /\ Enabled(pool.spec) => Exposes(pool.spec))

\* Once nothing changes, the status shows the readiness of the gateway and the workers
\* there are, and the published endpoint has the port of the Service, although the
\* updater compares with, and writes from, a cached copy that may be old.
StatusConverges ==
  <>[](Valid(pool.spec) /\ Enabled(pool.spec) =>
         /\ pool.status.cond = (IF store["deployment"].up THEN "True" ELSE "False")
         /\ pool.status.condGen = pool.gen
         /\ pool.status.workers = Workers(TRUE)
         /\ <<pool.status.endpoint>> = store["service"].val)

\* The status write of a pass queues the pool again; still the passes come to rest
\* instead of feeding each other with the times they write.
StatusSettles == <>[][pool'.status = pool.status]_exposureVars

\* api/v1alpha1/buildkitpool_types.go: "When GatewayRef is specified, the controller
\* will not create Gateway resources and will only create route resources".
ReferencedGatewayRouted ==
  <>[](pool.spec.api = "ref" /\ pool.spec.host => store["route"].here)
=============================================================================
