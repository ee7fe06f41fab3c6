-------------------------- MODULE PoolExposureProofs --------------------------
(***************************************************************************)
(* What the waiting requests are told, proved for any specs, ports and     *)
(* numbers of requests, edits and faults.                                  *)
(***************************************************************************)
EXTENDS PoolExposure, FiniteSetTheorems, TLAPS

\* A pool has a status.
IsPool(p) == "status" \in DOMAIN p

\* A status is the one of a new pool, or carries an endpoint that has been published.
Honest(st, shown) == st = NoStatus \/ st.endpoint \in shown \ {Unset}

\* Both copies of the pool are honest, so whatever makes a status look ready came with an
\* endpoint.
PublishedInv ==
  /\ IsPool(pool) /\ IsPool(poolSeen)
  /\ Honest(pool.status, published) /\ Honest(poolSeen.status, published)
  /\ DOMAIN wake = Requests
  /\ OnlyPublishedEndpoints

\* updateEndpoint always finds a port.
LEMMA EndpointSet == \A s : Endpoint(s) # Unset
BY ExposureAssumption DEF Endpoint, Or

\* The status of a new pool looks ready to nobody.
LEMMA NewNotReady == ~LooksReady(NoStatus)
<1>1. /\ NoStatus.cond = "none" /\ NoStatus.gateway = "none"
      /\ NoStatus.workers = NoWorkers /\ NoWorkers.ready = 0
  BY DEF NoStatus, NoWorkers
<1> QED
  BY <1>1 DEF LooksReady

\* Edits and status writes leave a pool a pool.
LEMMA PoolForms ==
  ASSUME NEW p, IsPool(p), NEW s, NEW g, NEW st
  PROVE  /\ IsPool([p EXCEPT !.status = st]) /\ [p EXCEPT !.status = st].status = st
         /\ IsPool([p EXCEPT !.spec = s, !.gen = g])
         /\ [p EXCEPT !.spec = s, !.gen = g].status = p.status
BY DEF IsPool

\* Every step keeps the copies honest and the requests told the truth.
LEMMA PublishedStep ==
  ASSUME PublishedInv, [ExposureNext]_exposureVars PROVE PublishedInv'
<1>1. CASE UNCHANGED <<pool, poolSeen, published, wake>>
  BY <1>1 DEF PublishedInv, IsPool, Honest, OnlyPublishedEndpoints
<1>2. ASSUME NEW listed \in BOOLEAN, UpdateStatus(listed) PROVE PublishedInv'
  <2> DEFINE old == Initialized(poolSeen.status)
             new == NewStatus([poolSeen EXCEPT !.status = old], listed)
  <2>1. CASE UNCHANGED <<pool, published>>
    BY <1>1, <1>2, <2>1 DEF UpdateStatus
  <2>2. CASE /\ pool' = [pool EXCEPT !.status = new]
             /\ published' = published \cup {new.endpoint}
    <3>1. new.endpoint # Unset
      BY EndpointSet DEF NewStatus
    <3> HIDE DEF new
    <3>2. IsPool(pool)' /\ pool'.status = new
      BY <2>2, PoolForms DEF PublishedInv, IsPool
    <3>3. UNCHANGED <<poolSeen, wake>>
      BY <1>2 DEF UpdateStatus
    <3>4. Honest(pool.status, published)' /\ Honest(poolSeen.status, published)'
      BY <2>2, <3>1, <3>2, <3>3 DEF PublishedInv, Honest
    <3> QED
      BY <2>2, <3>2, <3>3, <3>4 DEF PublishedInv, IsPool, OnlyPublishedEndpoints
  <2> QED
    BY <1>2, <2>1, <2>2 DEF UpdateStatus
<1>3. CASE PoolInformer \/ Restart
  <2>1. poolSeen' = pool /\ UNCHANGED <<pool, published, wake>>
    BY <1>3 DEF PoolInformer, Restart
  <2> QED
    BY <2>1 DEF PublishedInv, IsPool, Honest, OnlyPublishedEndpoints
<1>4. ASSUME NEW s, OperatorEdits(s) PROVE PublishedInv'
  <2>1. pool' = [pool EXCEPT !.spec = s, !.gen = @ + 1] /\ UNCHANGED <<poolSeen, published, wake>>
    BY <1>4 DEF OperatorEdits
  <2>2. IsPool(pool)' /\ pool'.status = pool.status
    BY <2>1, PoolForms DEF PublishedInv, IsPool
  <2> QED
    BY <2>1, <2>2 DEF PublishedInv, IsPool, Honest, OnlyPublishedEndpoints
<1>5. ASSUME NEW r \in Requests, WakeTick(r) PROVE PublishedInv'
  <2>1. poolSeen.status.endpoint \in published /\ poolSeen.status.endpoint # Unset
    BY <1>5, NewNotReady DEF WakeTick, PublishedInv, Honest
  <2>2. wake' = [wake EXCEPT ![r] = poolSeen.status.endpoint] /\ UNCHANGED <<pool, poolSeen, published>>
    BY <1>5, <2>1 DEF WakeTick, Or
  <2> QED
    BY <2>1, <2>2 DEF PublishedInv, IsPool, Honest, OnlyPublishedEndpoints
<1>6. CASE StartPass \/ ReconcileResource \/ GenerateAPITLS \/ RefuseSpec \/ CallFails \/ TimerFires
           \/ GatewayComesUp \/ GatewayScaledDown \/ GatewayGoesDown \/ UNCHANGED exposureVars
  BY <1>1, <1>6 DEF StartPass, ReconcileResource, GenerateAPITLS, RefuseSpec, CallFails, TimerFires,
    GatewayComesUp, GatewayScaledDown, GatewayGoesDown, GatewayIs, exposureVars
<1>7. ASSUME NEW failed \in BOOLEAN, CleanupResource(failed) PROVE PublishedInv'
  BY <1>1, <1>7 DEF CleanupResource
<1>8. ASSUME NEW K, ObjectInformer(K) PROVE PublishedInv'
  BY <1>1, <1>8 DEF ObjectInformer
<1>9. ASSUME NEW w, NEW ph, WorkerChanges(w, ph) PROVE PublishedInv'
  BY <1>1, <1>9 DEF WorkerChanges
<1> QED
  BY <1>2, <1>3, <1>4, <1>5, <1>6, <1>7, <1>8, <1>9 DEF ExposureNext, PassStep, Informer

\* waitForPoolReady looks for readiness in three places of the status and has a fallback for
\* the endpoint that leaves out Gateway.Port: the fallback is never used, whatever the specs.
THEOREM RequestsToldPublished == ExposureSpec => []OnlyPublishedEndpoints
<1>1. ExposureInit => PublishedInv
  <2> SUFFICES ASSUME ExposureInit PROVE PublishedInv
    OBVIOUS
  <2>1. PICK s \in PoolSpecs : pool = [spec |-> s, gen |-> 0, status |-> NoStatus]
    BY DEF ExposureInit
  <2>2. IsPool(pool) /\ pool.status = NoStatus /\ poolSeen = pool
    BY <2>1 DEF ExposureInit, IsPool
  <2> QED
    BY <2>2 DEF ExposureInit, PublishedInv, Honest, OnlyPublishedEndpoints
<1>2. PublishedInv => OnlyPublishedEndpoints
  BY DEF PublishedInv
<1> QED
  BY <1>1, <1>2, PublishedStep, PTL DEF ExposureSpec
-----------------------------------------------------------------------------
(* The types, with the bounds on what the status counts. *)

\* The largest number a status may show.
Most == IF Cardinality(Slots) > Max THEN Cardinality(Slots) ELSE Max

Statuses ==
  [gateway : {"none", "down", "up"}, endpoint : Ports \cup {Unset},
   cond : {"none", "False", "True"}, condGen : 0..MaxEdits, workers : WorkerCounts, stamp : {0, 1}]

PoolObjects == {p \in [spec : PoolSpecs, gen : 0..MaxEdits, status : Statuses] : p.status.condGen <= p.gen}

\* The generation counts the edits, so that it stays within their bound; a pass in
\* progress works for a spec; records keep their fields.
ExposureInv ==
  /\ pool \in PoolObjects /\ poolSeen \in PoolObjects /\ pool.gen = edits
  /\ DOMAIN store = Objects /\ DOMAIN seen = Objects
  /\ fleet \in [Slots -> Phases]
  /\ DOMAIN pass = {"todo", "spec"} /\ (pass.todo # <<>> => pass.spec \in PoolSpecs)
  /\ queued \in BOOLEAN
  /\ wake \in [Requests -> Ports \cup {Unset}]
  /\ published \subseteq Ports \cup {Unset}
  /\ edits \in 0..MaxEdits /\ faults \in 0..MaxFaults

\* A count of workers is at most the number of places for them.
LEMMA CountBounded == \A S : CountIn(S) \in 0..Cardinality(Slots) /\ Cardinality(Slots) \in Nat
<1> SUFFICES ASSUME NEW S PROVE CountIn(S) \in 0..Cardinality(Slots) /\ Cardinality(Slots) \in Nat
  OBVIOUS
<1> DEFINE T == {w \in Slots : fleet[w] \in S}
<1>1. IsFiniteSet(Slots) /\ T \subseteq Slots
  BY ExposureAssumption
<1>2. IsFiniteSet(T) /\ Cardinality(T) <= Cardinality(Slots)
  BY <1>1, FS_Subset
<1>3. Cardinality(T) \in Nat /\ Cardinality(Slots) \in Nat
  BY <1>1, <1>2, FS_CardinalityType
<1> HIDE DEF T
<1>4. Cardinality(T) \in 0..Cardinality(Slots)
  BY <1>2, <1>3
<1> QED
  BY <1>3, <1>4 DEF CountIn, T

\* calculateDesiredWorkers keeps to Max, and the workers needed to the desired ones.
LEMMA DesiredBounded ==
  ASSUME NEW a \in Nat, NEW x \in Nat
  PROVE  /\ DesiredWorkers(a) \in 0..Max
         /\ maxInt32(DesiredWorkers(a) - x, 0) \in 0..Max
<1>1. Min \in Nat /\ Max \in Nat
  BY ExposureAssumption
<1>2. DesiredWorkers(a) \in 0..Max
  BY <1>1 DEF DesiredWorkers, minInt32
<1> QED
  BY <1>1, <1>2 DEF maxInt32

\* updateWorkerStatus counts within the bounds, listed or not.
LEMMA WorkersCounted ==
  ASSUME NEW listed \in BOOLEAN
  PROVE  Workers(listed) \in WorkerCounts
<1> DEFINE n(S) == IF listed THEN CountIn(S) ELSE 0
           W == [total |-> n(Phases \ {"none"}), ready |-> n({"Idle", "Running", "Allocated"}),
                 idle |-> n({"Idle"}), allocated |-> n({"Allocated"}),
                 provisioning |-> n({"Pending"}), failed |-> n({"Failed"}),
                 desired |-> DesiredWorkers(n({"Allocated"})),
                 needed |-> maxInt32(DesiredWorkers(n({"Allocated"}))
                              - (n({"Idle", "Running", "Allocated"}) + n({"Pending"})), 0)]
<1>1. Workers(listed) = W
  BY DEF Workers
<1>2. Most \in Nat /\ Max <= Most /\ Cardinality(Slots) <= Most /\ Cardinality(Slots) \in Nat /\ Max \in Nat
  BY CountBounded, ExposureAssumption DEF Most
<1>3. \A S : n(S) \in 0..Most /\ n(S) \in Nat
  <2>1. \A S : CountIn(S) \in 0..Most /\ CountIn(S) \in Nat
    BY <1>2, CountBounded
  <2> QED
    BY <1>2, <2>1
<1> HIDE DEF n
<1>4. /\ DesiredWorkers(n({"Allocated"})) \in 0..Most
      /\ maxInt32(DesiredWorkers(n({"Allocated"}))
                    - (n({"Idle", "Running", "Allocated"}) + n({"Pending"})), 0) \in 0..Most
  <2>1. n({"Allocated"}) \in Nat /\ n({"Idle", "Running", "Allocated"}) + n({"Pending"}) \in Nat
    BY <1>3
  <2>2. \A x \in 0..Max : x \in 0..Most
    BY <1>2
  <2> QED
    BY <2>1, <2>2, DesiredBounded
<1>5. DOMAIN W = DOMAIN NoWorkers
  BY DEF NoWorkers
<1>6. \A f \in DOMAIN W : W[f] \in 0..Most
  BY <1>3, <1>4
<1>7. W = [f \in DOMAIN W |-> W[f]]
  OBVIOUS
<1> HIDE DEF W
<1>8. W \in [DOMAIN NoWorkers -> 0..Most]
  BY <1>5, <1>6, <1>7
<1> QED
  BY <1>1, <1>8 DEF WorkerCounts, Most

\* Every spec has a port to publish and one to fall back on.
LEMMA PortsFound ==
  ASSUME NEW s \in PoolSpecs
  PROVE  Endpoint(s) \in Ports /\ Or(s.netPort, DefaultPort) \in Ports
<1>1. s.port \in Ports \cup {Unset} /\ s.netPort \in Ports \cup {Unset}
  BY ExposureAssumption DEF PoolSpec
<1> QED
  BY <1>1, ExposureAssumption DEF Endpoint, Or

\* The counts of a new pool.
LEMMA NoWorkersCounted == NoWorkers \in WorkerCounts
<1>1. Most \in Nat
  BY CountBounded, ExposureAssumption DEF Most
<1>2. 0 \in 0..Most
  BY <1>1
<1>3. \A f \in DOMAIN NoWorkers : NoWorkers[f] = 0
  BY DEF NoWorkers
<1>4. NoWorkers = [f \in DOMAIN NoWorkers |-> NoWorkers[f]]
  BY DEF NoWorkers
<1>5. NoWorkers \in [DOMAIN NoWorkers -> 0..Most]
  BY <1>2, <1>3, <1>4
<1> QED
  BY <1>5 DEF WorkerCounts, Most

\* The status of a new pool.
LEMMA NoStatusFormed == NoStatus \in Statuses /\ NoStatus.condGen = 0
  BY NoWorkersCounted, ExposureAssumption DEF NoStatus, Statuses

\* initializeStatusFields leaves a status a status.
LEMMA InitializedFormed ==
  ASSUME NEW st \in Statuses
  PROVE  Initialized(st) \in Statuses
  BY NoWorkersCounted DEF Initialized, Statuses

\* What updateStatus writes, of the pool p as the cache shows it.
LEMMA NewStatusFormed ==
  ASSUME NEW p \in PoolObjects, NEW listed \in BOOLEAN
  PROVE  LET new == NewStatus([p EXCEPT !.status = Initialized(p.status)], listed)
         IN  new \in Statuses /\ new.condGen = p.gen /\ new.endpoint \in Ports
<1> DEFINE q == [p EXCEPT !.status = Initialized(p.status)]
<1>1. p.spec \in PoolSpecs /\ p.gen \in 0..MaxEdits /\ p.status \in Statuses
  BY DEF PoolObjects
<1>2. q.spec = p.spec /\ q.gen = p.gen /\ q.status = Initialized(p.status)
  BY DEF PoolObjects
<1> HIDE DEF q
<1>3. q.spec \in PoolSpecs /\ q.gen \in 0..MaxEdits /\ q.status \in Statuses
  BY <1>1, <1>2, InitializedFormed
<1>4. q.status.stamp \in {0, 1}
  BY <1>3 DEF Statuses
<1> DEFINE gw == IF ~seen["deployment"].here THEN "none" ELSE IF seen["deployment"].up THEN "up" ELSE "down"
           cd == IF gw = "up" THEN "True" ELSE "False"
           sp == IF Workers(listed).allocated > 0 THEN 1 - q.status.stamp ELSE q.status.stamp
           new == [gateway |-> gw, endpoint |-> Endpoint(q.spec), cond |-> cd, condGen |-> q.gen,
                   workers |-> Workers(listed), stamp |-> sp]
<1>5. NewStatus(q, listed) = new
  BY DEF NewStatus
<1>6. gw \in {"none", "down", "up"} /\ cd \in {"none", "False", "True"} /\ sp \in {0, 1}
  BY <1>4
<1>7. Endpoint(q.spec) \in Ports /\ Workers(listed) \in WorkerCounts
  BY <1>3, PortsFound, WorkersCounted
<1> HIDE DEF gw, cd, sp
<1>8. new \in Statuses /\ new.condGen = q.gen /\ new.endpoint \in Ports
  BY <1>3, <1>6, <1>7 DEF Statuses
<1> QED
  BY <1>2, <1>5, <1>8 DEF q

\* The pool object under a status write, and under an edit.
LEMMA PoolUpdates ==
  ASSUME NEW p \in PoolObjects
  PROVE  /\ \A st \in Statuses : st.condGen = p.gen =>
              [p EXCEPT !.status = st] \in PoolObjects /\ [p EXCEPT !.status = st].gen = p.gen
         /\ \A s \in PoolSpecs : p.gen < MaxEdits =>
              /\ [p EXCEPT !.spec = s, !.gen = @ + 1] \in PoolObjects
              /\ [p EXCEPT !.spec = s, !.gen = @ + 1].gen = p.gen + 1
<1>1. /\ p \in [spec : PoolSpecs, gen : 0..MaxEdits, status : Statuses]
      /\ p.gen \in 0..MaxEdits /\ p.status \in Statuses /\ p.status.condGen <= p.gen
  BY DEF PoolObjects
<1>2. \A st \in Statuses : st.condGen \in 0..MaxEdits
  BY DEF Statuses
<1>3. MaxEdits \in Nat
  BY ExposureAssumption
<1>4. ASSUME NEW st \in Statuses, st.condGen = p.gen
      PROVE  [p EXCEPT !.status = st] \in PoolObjects /\ [p EXCEPT !.status = st].gen = p.gen
  BY <1>1, <1>2, <1>3, <1>4 DEF PoolObjects
<1>5. ASSUME NEW s \in PoolSpecs, p.gen < MaxEdits
      PROVE  /\ [p EXCEPT !.spec = s, !.gen = @ + 1] \in PoolObjects
             /\ [p EXCEPT !.spec = s, !.gen = @ + 1].gen = p.gen + 1
  <2>1. p.gen + 1 \in 0..MaxEdits /\ p.status.condGen <= p.gen + 1
    BY <1>1, <1>2, <1>3, <1>5
  <2> DEFINE u == [p EXCEPT !.spec = s, !.gen = @ + 1]
  <2>2. u \in [spec : PoolSpecs, gen : 0..MaxEdits, status : Statuses]
    BY <1>1, <2>1
  <2>3. u.gen = p.gen + 1 /\ u.status = p.status
    BY <1>1
  <2> QED
    BY <2>1, <2>2, <2>3 DEF PoolObjects
<1> QED
  BY Zenon, <1>4, <1>5

\* The parts of the invariant that a write of an object, or the end or the progress of a
\* pass, leaves as they should be.
LEMMA PassMoves ==
  ASSUME ExposureInv, \/ pass' = pass
                      \/ pass' = Resting
                      \/ pass.todo # <<>> /\ pass' = [pass EXCEPT !.todo = Tail(@)]
                      \/ pass' = [todo |-> Plan(poolSeen.spec), spec |-> poolSeen.spec]
  PROVE  DOMAIN pass' = {"todo", "spec"} /\ (pass'.todo # <<>> => pass'.spec \in PoolSpecs)
<1>1. DOMAIN pass = {"todo", "spec"} /\ (pass.todo # <<>> => pass.spec \in PoolSpecs)
  BY DEF ExposureInv
<1>2. CASE pass' = pass
  BY <1>1, <1>2
<1>3. CASE pass' = Resting
  BY <1>3 DEF Resting
<1>4. CASE pass.todo # <<>> /\ pass' = [pass EXCEPT !.todo = Tail(@)]
  BY <1>1, <1>4
<1>5. CASE pass' = [todo |-> Plan(poolSeen.spec), spec |-> poolSeen.spec]
  <2>1. poolSeen.spec \in PoolSpecs
    BY DEF ExposureInv, PoolObjects
  <2> QED
    BY <1>5, <2>1
<1> QED
  BY <1>2, <1>3, <1>4, <1>5

\* Faults keep to their bound.
LEMMA FaultCounted ==
  ASSUME ExposureInv, Fault \/ UNCHANGED faults
  PROVE  faults' \in 0..MaxFaults
  BY ExposureAssumption DEF ExposureInv, Fault

\* Steps that change neither copy of the pool: what else they do to the types.
LEMMA ObjectSteps ==
  ASSUME ExposureInv, UNCHANGED <<pool, poolSeen, wake, published, edits>>,
         Fault \/ UNCHANGED faults,
         DOMAIN store' = Objects, DOMAIN seen' = Objects, fleet' \in [Slots -> Phases],
         queued' \in BOOLEAN,
         DOMAIN pass' = {"todo", "spec"}, pass'.todo # <<>> => pass'.spec \in PoolSpecs
  PROVE  ExposureInv'
<1>1. faults' \in 0..MaxFaults
  BY FaultCounted
<1> QED
  BY <1>1 DEF ExposureInv

\* CreateOrUpdate adds or changes one object and moves the pass on, or ends it.
LEMMA CreateOrUpdateStep ==
  ASSUME ExposureInv, pass.todo # <<>>, NEW k, NEW v, CreateOrUpdate(k, v)
  PROVE  /\ DOMAIN store' = Objects /\ queued' \in BOOLEAN
         /\ DOMAIN pass' = {"todo", "spec"} /\ (pass'.todo # <<>> => pass'.spec \in PoolSpecs)
<1>1. DOMAIN store' = Objects
  BY DEF ExposureInv, CreateOrUpdate, Done, PassFails
<1>2. Done \/ PassFails
  BY DEF CreateOrUpdate
<1>3. queued' = queued \/ queued' = TRUE
  BY <1>2 DEF Done, PassFails
<1>4. queued' \in BOOLEAN
  BY <1>3 DEF ExposureInv
<1>5. pass' = Resting \/ pass' = [pass EXCEPT !.todo = Tail(@)]
  BY <1>2 DEF Done, PassFails
<1> QED
  BY <1>1, <1>4, <1>5, PassMoves

\* updateStatus writes over the copy it was computed from, or not at all.
LEMMA UpdateStatusStep ==
  ASSUME ExposureInv, NEW listed \in BOOLEAN, UpdateStatus(listed)
  PROVE  ExposureInv'
<1> DEFINE old == Initialized(poolSeen.status)
           new == NewStatus([poolSeen EXCEPT !.status = old], listed)
<1>1. /\ UNCHANGED <<poolSeen, store, seen, fleet, wake, edits>>
      /\ Fault \/ UNCHANGED faults
      /\ pass' = Resting /\ (queued' = queued \/ queued' = TRUE)
      /\ \/ UNCHANGED <<pool, published>>
         \/ /\ pool = poolSeen /\ pool' = [pool EXCEPT !.status = new]
            /\ published' = published \cup {new.endpoint}
  BY DEF UpdateStatus, PassFails
<1>2. new \in Statuses /\ new.condGen = poolSeen.gen /\ new.endpoint \in Ports
  BY NewStatusFormed DEF ExposureInv
<1> HIDE DEF new
<1>3. pool' \in PoolObjects /\ pool'.gen = edits /\ published' \subseteq Ports \cup {Unset}
  <2>1. pool \in PoolObjects /\ pool.gen = edits /\ published \subseteq Ports \cup {Unset}
    BY DEF ExposureInv
  <2> QED
    BY Zenon, <1>1, <1>2, <2>1, PoolUpdates
<1>4. DOMAIN pass' = {"todo", "spec"} /\ (pass'.todo # <<>> => pass'.spec \in PoolSpecs)
  BY <1>1, PassMoves
<1>5. queued' \in BOOLEAN
  BY <1>1 DEF ExposureInv
<1>6. faults' \in 0..MaxFaults
  BY <1>1, FaultCounted
<1> QED
  BY <1>1, <1>3, <1>4, <1>5, <1>6 DEF ExposureInv

\* Every step keeps the types.
LEMMA ExposureStep ==
  ASSUME ExposureInv, [ExposureNext]_exposureVars
  PROVE  ExposureInv'
<1>0. /\ pool \in PoolObjects /\ poolSeen \in PoolObjects /\ pool.gen = edits
      /\ DOMAIN store = Objects /\ DOMAIN seen = Objects /\ fleet \in [Slots -> Phases]
      /\ queued \in BOOLEAN /\ DOMAIN pass = {"todo", "spec"}
      /\ pass.todo # <<>> => pass.spec \in PoolSpecs
      /\ edits \in 0..MaxEdits /\ MaxEdits \in Nat
  BY ExposureAssumption DEF ExposureInv
<1>1. CASE StartPass
  <2>1. pass' = [todo |-> Plan(poolSeen.spec), spec |-> poolSeen.spec]
    BY <1>1 DEF StartPass
  <2>2. DOMAIN pass' = {"todo", "spec"} /\ (pass'.todo # <<>> => pass'.spec \in PoolSpecs)
    BY <2>1, PassMoves
  <2>3. /\ UNCHANGED <<pool, poolSeen, wake, published, edits, faults>>
        /\ UNCHANGED <<store, seen, fleet>> /\ queued' = FALSE
    BY <1>1 DEF StartPass
  <2> QED
    BY <1>0, <2>2, <2>3, ObjectSteps
<1>2. CASE ReconcileResource
  <2>1. PICK k \in Head(pass.todo).objs : CreateOrUpdate(k, Desired(k, pass.spec))
    BY <1>2 DEF ReconcileResource
  <2>2. pass.todo # <<>> /\ UNCHANGED <<pool, poolSeen, seen, fleet, wake, published, edits, faults>>
    BY <1>2 DEF ReconcileResource, Item
  <2>3. /\ DOMAIN store' = Objects /\ queued' \in BOOLEAN
        /\ DOMAIN pass' = {"todo", "spec"} /\ (pass'.todo # <<>> => pass'.spec \in PoolSpecs)
    BY <2>1, <2>2, CreateOrUpdateStep
  <2> QED
    BY <1>0, <2>2, <2>3, ObjectSteps
<1>3. ASSUME NEW failed \in BOOLEAN, CleanupResource(failed) PROVE ExposureInv'
  <2>1. /\ pass.todo # <<>> /\ pass' = [pass EXCEPT !.todo = Tail(@)] /\ UNCHANGED queued
        /\ Fault \/ UNCHANGED faults
        /\ UNCHANGED <<pool, poolSeen, seen, fleet, wake, published, edits>>
    BY <1>3 DEF CleanupResource, Item, Done
  <2>2. DOMAIN store' = Objects
    BY <1>3 DEF CleanupResource
  <2>3. DOMAIN pass' = {"todo", "spec"} /\ (pass'.todo # <<>> => pass'.spec \in PoolSpecs)
    BY <2>1, PassMoves
  <2> QED
    BY <1>0, <2>1, <2>2, <2>3, ObjectSteps
<1>4. CASE GenerateAPITLS
  <2>1. pass.todo # <<>> /\ UNCHANGED <<pool, poolSeen, seen, fleet, wake, published, edits, faults>>
    BY <1>4 DEF GenerateAPITLS, Item
  <2>2. CASE CreateOrUpdate("apiTLS", <<>>)
    <3>1. /\ DOMAIN store' = Objects /\ queued' \in BOOLEAN
          /\ DOMAIN pass' = {"todo", "spec"} /\ (pass'.todo # <<>> => pass'.spec \in PoolSpecs)
      BY <2>1, <2>2, CreateOrUpdateStep
    <3> QED
      BY <1>0, <2>1, <3>1, ObjectSteps
  <2>3. CASE Done /\ UNCHANGED store
    <3>1. pass' = [pass EXCEPT !.todo = Tail(@)] /\ UNCHANGED queued
      BY <2>3 DEF Done
    <3>2. DOMAIN pass' = {"todo", "spec"} /\ (pass'.todo # <<>> => pass'.spec \in PoolSpecs)
      BY <2>1, <3>1, PassMoves
    <3> QED
      BY <1>0, <2>1, <2>3, <3>1, <3>2, ObjectSteps
  <2> QED
    BY <1>4, <2>2, <2>3 DEF GenerateAPITLS
<1>5. CASE RefuseSpec \/ CallFails
  <2>1. /\ pass' = Resting /\ queued' = TRUE /\ (Fault \/ UNCHANGED faults)
        /\ UNCHANGED <<pool, poolSeen, store, seen, fleet, wake, published, edits>>
    BY <1>5 DEF RefuseSpec, CallFails, PassFails
  <2>2. DOMAIN pass' = {"todo", "spec"} /\ (pass'.todo # <<>> => pass'.spec \in PoolSpecs)
    BY <2>1, PassMoves
  <2> QED
    BY <1>0, <2>1, <2>2, ObjectSteps
<1>6. ASSUME NEW listed \in BOOLEAN, UpdateStatus(listed) PROVE ExposureInv'
  BY <1>6, UpdateStatusStep
<1>7. CASE TimerFires
  BY <1>0, <1>7, ObjectSteps DEF TimerFires
<1>8. CASE PoolInformer
  <2>1. /\ poolSeen' = pool /\ queued' = TRUE
        /\ UNCHANGED <<pool, store, seen, fleet, pass, wake, published, edits, faults>>
    BY <1>8 DEF PoolInformer
  <2> QED
    BY <2>1 DEF ExposureInv
<1>9. CASE Restart
  <2>1. /\ poolSeen' = pool /\ seen' = store /\ queued' = TRUE /\ pass' = Resting /\ Fault
        /\ UNCHANGED <<pool, store, fleet, wake, published, edits>>
    BY <1>9 DEF Restart
  <2>2. DOMAIN pass' = {"todo", "spec"} /\ (pass'.todo # <<>> => pass'.spec \in PoolSpecs)
    BY <2>1, PassMoves
  <2>3. faults' \in 0..MaxFaults
    BY <2>1, FaultCounted
  <2> QED
    BY <2>1, <2>2, <2>3 DEF ExposureInv
<1>10. ASSUME NEW K \in Caches, ObjectInformer(K) PROVE ExposureInv'
  <2>1. /\ DOMAIN seen' = Objects
        /\ UNCHANGED <<pool, poolSeen, store, fleet, pass, wake, published, edits, faults>>
    BY <1>10 DEF ObjectInformer
  <2>2. queued' \in BOOLEAN
    BY <1>10, Zenon DEF ObjectInformer
  <2> QED
    BY <1>0, <2>1, <2>2, ObjectSteps
<1>11. CASE GatewayComesUp \/ GatewayScaledDown \/ GatewayGoesDown
  <2>1. /\ store' = [store EXCEPT !["deployment"].up = FALSE] \/ store' = [store EXCEPT !["deployment"].up = TRUE]
        /\ UNCHANGED <<pool, poolSeen, seen, fleet, pass, queued, wake, published, edits>>
        /\ Fault \/ UNCHANGED faults
    BY <1>11 DEF GatewayComesUp, GatewayScaledDown, GatewayGoesDown, GatewayIs
  <2>2. DOMAIN store' = Objects
    BY <1>0, <2>1
  <2> QED
    BY <1>0, <2>1, <2>2, ObjectSteps
<1>12. ASSUME NEW s \in PoolSpecs, OperatorEdits(s) PROVE ExposureInv'
  <2>1. /\ edits < MaxEdits /\ edits' = edits + 1
        /\ pool' = [pool EXCEPT !.spec = s, !.gen = @ + 1]
        /\ UNCHANGED <<poolSeen, store, seen, fleet, pass, queued, wake, published, faults>>
    BY <1>12 DEF OperatorEdits
  <2>2. pool' \in PoolObjects /\ pool'.gen = edits'
    BY Zenon, <1>0, <2>1, PoolUpdates
  <2>3. edits' \in 0..MaxEdits
    BY <1>0, <2>1
  <2> QED
    BY <2>1, <2>2, <2>3 DEF ExposureInv
<1>13. ASSUME NEW w \in Slots, NEW ph \in WorkerPhases \cup {"none"}, WorkerChanges(w, ph) PROVE ExposureInv'
  <2>1. ph \in Phases
    BY ExposureAssumption DEF Phases
  <2>2. /\ fleet' = [fleet EXCEPT ![w] = ph] /\ queued' = TRUE /\ Fault
        /\ UNCHANGED <<pool, poolSeen, store, seen, pass, wake, published, edits>>
    BY <1>13 DEF WorkerChanges
  <2>3. fleet' \in [Slots -> Phases]
    BY <1>0, <2>1, <2>2
  <2> QED
    BY <1>0, <2>2, <2>3, ObjectSteps
<1>14. ASSUME NEW r \in Requests, WakeTick(r) PROVE ExposureInv'
  <2> DEFINE x == Or(poolSeen.status.endpoint, Or(poolSeen.spec.netPort, DefaultPort))
  <2>1. /\ wake' = [wake EXCEPT ![r] = x]
        /\ UNCHANGED <<pool, poolSeen, store, seen, fleet, pass, queued, published, edits, faults>>
    BY <1>14 DEF WakeTick
  <2>2. x \in Ports
    <3>1. poolSeen.spec \in PoolSpecs /\ poolSeen.status.endpoint \in Ports \cup {Unset}
      BY <1>0 DEF PoolObjects, Statuses
    <3> QED
      BY <3>1, PortsFound DEF Or
  <2> HIDE DEF x
  <2>3. wake' \in [Requests -> Ports \cup {Unset}]
    BY <2>1, <2>2 DEF ExposureInv
  <2> QED
    BY <2>1, <2>3 DEF ExposureInv
<1>15. CASE UNCHANGED exposureVars
  BY <1>15 DEF exposureVars, ExposureInv
<1> QED
  BY <1>1, <1>2, <1>3, <1>4, <1>5, <1>6, <1>7, <1>8, <1>9, <1>10, <1>11, <1>12, <1>13, <1>14, <1>15
     DEF ExposureNext, PassStep, Informer

\* Every variable keeps its type, whatever the specs and the number of workers: the counts
\* of the status stay within the workers there are, desired and needed within Max
\* (calculateDesiredWorkers), and the condition is never of a generation that is yet to come.
THEOREM ExposureTypeCorrect == ExposureSpec => []ExposureTypeOK
<1>1. ExposureInit => ExposureInv
  <2> SUFFICES ASSUME ExposureInit PROVE ExposureInv
    OBVIOUS
  <2>1. PICK s \in PoolSpecs : pool = [spec |-> s, gen |-> 0, status |-> NoStatus]
    BY DEF ExposureInit
  <2>2. pool \in PoolObjects /\ poolSeen = pool /\ pool.gen = 0
    <3>1. 0 \in 0..MaxEdits
      BY ExposureAssumption
    <3> QED
      BY <2>1, <3>1, NoStatusFormed DEF ExposureInit, PoolObjects
  <2>3. DOMAIN store = Objects /\ DOMAIN seen = Objects /\ fleet \in [Slots -> Phases]
    BY DEF ExposureInit, Phases
  <2>4. /\ DOMAIN pass = {"todo", "spec"} /\ pass.todo = <<>>
    BY DEF ExposureInit, Resting
  <2>5. /\ queued \in BOOLEAN /\ wake \in [Requests -> Ports \cup {Unset}] /\ published = {}
        /\ edits = 0 /\ faults = 0 /\ edits \in 0..MaxEdits /\ faults \in 0..MaxFaults
    BY ExposureAssumption DEF ExposureInit
  <2> QED
    BY <2>2, <2>3, <2>4, <2>5 DEF ExposureInv
<1>2. ExposureInv /\ [ExposureNext]_exposureVars => ExposureInv'
  BY ExposureStep
<1>3. ExposureInv => ExposureTypeOK
  <2> SUFFICES ASSUME ExposureInv PROVE ExposureTypeOK
    OBVIOUS
  <2>1. ASSUME NEW p \in PoolObjects
        PROVE  /\ p.spec \in PoolSpecs /\ p.gen \in 0..MaxEdits
               /\ p.status.gateway \in {"none", "down", "up"}
               /\ p.status.endpoint \in Ports \cup {Unset}
               /\ p.status.cond \in {"none", "False", "True"} /\ p.status.condGen \in 0..p.gen
               /\ p.status.workers \in WorkerCounts
    BY DEF PoolObjects, Statuses
  <2> QED
    BY <2>1 DEF ExposureInv, ExposureTypeOK
<1> QED
  BY <1>1, <1>2, <1>3, PTL DEF ExposureSpec
=============================================================================
