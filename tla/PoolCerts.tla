----------------------------- MODULE PoolCerts ------------------------------
(***************************************************************************)
(* The certificates of one pool: the CA secret (internal/certs/ca.go), the *)
(* server, client and worker secrets (internal/certs/certificate.go), and  *)
(* the part of a pool pass that looks after them (pool_controller.go,      *)
(* internal/controller/tls, shared.CalculateRequeueInterval).              *)
(*                                                                         *)
(* Every Get reads the informer cache, which receives the writes to        *)
(* secrets late but in order.  Create fails when the secret exists, Update *)
(* when the copy it was made from is not the current one.  A step of the   *)
(* pass ends where the next read or write begins, so that the cache may    *)
(* move, a call may fail or the process may die in between.                *)
(*                                                                         *)
(* Time is counted in StatusUpdateIntervals and kept relative: a           *)
(* certificate has an age, the requeue timer a remaining wait.  A pass     *)
(* takes no time, it starts when it is due, and an informer lags by less   *)
(* than an interval.                                                       *)
(*                                                                         *)
(* The pass writes its TLS status to a copy of the pool that is never      *)
(* stored, so every pass starts with TLSSecretName and ServerCert empty.   *)
(***************************************************************************)
EXTENDS Integers, Sequences

CONSTANTS
  Duration,      \* lifetime of a certificate, tls.GetCertDuration
  RenewalWindow, \* config.DefaultRenewalTime
  StatusInterval, MinRequeue, MaxRequeue,   \* shared/constants.go
  MaxFaults      \* bound: failed calls, misread secrets, restarts, operator's edits, events

\* How long before its end a certificate is renewed: the window, or 80% of the
\* life of a certificate that is shorter than the window.
Lead == IF Duration < RenewalWindow THEN (Duration * 80) \div 100 ELSE RenewalWindow

\* Age at which RenewalTime lies.
RenewalAge == Duration - Lead

ASSUME CertAssumption ==
  /\ Duration \in Nat \ {0}
  /\ RenewalWindow \in Nat
  /\ StatusInterval \in Nat \ {0} /\ MinRequeue \in Nat /\ MaxRequeue \in Nat
  /\ StatusInterval <= MinRequeue /\ MinRequeue <= MaxRequeue
  /\ MinRequeue <= Lead
  /\ MaxFaults \in Nat

Kinds == {"server", "client", "worker"}
Secrets == Kinds \cup {"ca"}

VARIABLES
  store,    \* [Secrets -> Secret]: the API server
  seen,     \* [Secrets -> Secret]: the informer cache
  events,   \* writes the cache has not received yet
  cas,      \* how many CAs have been stored so far: they are numbered
  pass,     \* the pass in progress
  queued,   \* the pool is in the work queue
  wait,     \* time until the delayed requeue, or NoTimer
  faults,   \* faults so far
  disturbed \* the operator has edited the CA secret, or a Get has misread a secret

certVars == <<store, seen, events, cas, pass, queued, wait, faults, disturbed>>

NoTimer == -1
NoCert == -1

\* st: whether the secret is missing, is there but does not parse (parseCAFromSecret,
\* ParseCertificateFromSecret), or parses; by: the CA that signed the certificate (the CA itself in the CA secret); bundle:
\* the CA in ca.crt; ver: the resourceVersion, which starts again whenever the
\* cache is up to date and time passes.
Secret ==
  [st : {"none", "bad", "ok"}, by : Nat, bundle : Nat, age : Nat, owned : BOOLEAN, ver : Nat]
Absent == [st |-> "none", by |-> 0, bundle |-> 0, age |-> 0, owned |-> FALSE, ver |-> 0]

\* kind: the certificate being issued; signer: the CA it was signed with; view: the
\* age of the certificate Status.ServerCert of the pass's copy describes, or NoCert.
Pass ==
  [pc : {"idle", "storeCA", "check", "checkWorker", "sign", "store", "owner"},
   kind : Kinds, signer : Nat, view : NoCert..(Duration + 1)]
Resting == [pc |-> "idle", kind |-> "server", signer |-> 0, view |-> NoCert]

CertsTypeOK ==
  /\ store \in [Secrets -> Secret]
  /\ seen \in [Secrets -> Secret]
  /\ events \in Seq([name : Secrets, obj : Secret])
  /\ cas \in Nat
  /\ pass \in Pass
  /\ queued \in BOOLEAN /\ disturbed \in BOOLEAN
  /\ wait \in NoTimer..MinRequeue
  /\ faults \in 0..MaxFaults

\* The pool has just been created.
CertsInit ==
  /\ store = [k \in Secrets |-> Absent]
  /\ seen = [k \in Secrets |-> Absent]
  /\ events = <<>>
  /\ cas = 0
  /\ pass = Resting
  /\ queued = TRUE
  /\ wait = NoTimer
  /\ faults = 0
  /\ disturbed = FALSE
-----------------------------------------------------------------------------
(* Operators of certs and shared. *)

\* Mutant of ShouldRotate: the certificate is kept until it has expired.
RotateAtExpiry(s) == s.age > Duration

\* ShouldRotateCertificate: RenewalTime is always set, so RotateBeforeExpiry is
\* not looked at; now.After is strict.
ShouldRotate(s) == s.age > RenewalAge

\* Mutant of NeedsRotation: a secret that is there is taken to be good.
RotateIfPresent(s) == s.st = "none" \/ ShouldRotate(s)

\* CheckCertificateRotation and CheckWorkerCertificateRotation: a secret that is
\* missing or does not parse counts as due, Status.ServerCert being empty.
NeedsRotation(s) == s.st # "ok" \/ ShouldRotate(s)

minDuration(a, b) == IF a < b THEN a ELSE b

\* Mutant of CalculateRequeueInterval: sleep until the renewal is due.
RequeueAtRenewal(view) ==
  IF view = NoCert THEN StatusInterval ELSE RenewalAge - view + 1

CalculateRequeueInterval(view) ==
  LET untilRenewal == RenewalAge - view
  IN  IF view = NoCert THEN StatusInterval
      ELSE IF untilRenewal > MaxRequeue THEN minDuration(StatusInterval, MaxRequeue)
      ELSE IF untilRenewal > MinRequeue THEN minDuration(StatusInterval, untilRenewal - MinRequeue)
      ELSE MinRequeue

\* Mutant of GetCA: the CA is read past the cache.
GetCAUncached == store["ca"]

\* GetCA and GetCACertPEM.
GetCA == seen["ca"]
-----------------------------------------------------------------------------
(* Writes to the API server. *)

Write(k, obj) ==
  LET o == [obj EXCEPT !.ver = store[k].ver + 1]
  IN  /\ store' = [store EXCEPT ![k] = o]
      /\ events' = Append(events, [name |-> k, obj |-> o])

\* A Create or Update made from the cached copy is accepted: an absent secret is
\* absent still, a present one has the version that was read.
Current(k) ==
  IF seen[k].st = "none" THEN store[k].st = "none" ELSE store[k] = seen[k]
-----------------------------------------------------------------------------
(* How a pass moves and ends. *)

Goto(pc) == pass' = [pass EXCEPT !.pc = pc] /\ UNCHANGED <<queued, wait>>
Issue(kind) == pass' = [pass EXCEPT !.pc = "sign", !.kind = kind] /\ UNCHANGED <<queued, wait>>

\* Reconcile returns an error: the queue's rate limiter puts the pool back.
PassFails == pass' = Resting /\ queued' = TRUE /\ UNCHANGED wait

\* The rest of the pass, and RequeueAfter: of two delayed requeues the queue
\* keeps the earlier.
PassEnds(view) ==
  LET rq == CalculateRequeueInterval(view)
  IN  /\ pass' = Resting
      /\ wait' = IF wait = NoTimer THEN rq ELSE minDuration(wait, rq)
      /\ UNCHANGED queued

Fault == faults < MaxFaults /\ faults' = faults + 1

\* Reconcile is called, and EnsureCA makes its first Get: a CA that parses is used,
\* anything else replaced.
StartPass ==
  /\ pass.pc = "idle"
  /\ queued \/ wait = 0
  /\ pass' = [Resting EXCEPT !.pc = IF seen["ca"].st = "ok" THEN "check" ELSE "storeCA"]
  /\ queued' = FALSE
  /\ wait' = IF wait = 0 THEN NoTimer ELSE wait
  /\ UNCHANGED <<store, seen, events, cas, faults, disturbed>>

\* That Get failed for another reason than NotFound: EnsureCA does not ask which.
EnsureCAMisread ==
  /\ pass.pc = "check"
  /\ Fault
  /\ disturbed' = TRUE
  /\ Goto("storeCA")
  /\ UNCHANGED <<store, seen, events, cas>>

\* generateCA and storeCA, whose second Get decides between Create and Update.
StoreCA ==
  /\ pass.pc = "storeCA"
  /\ IF Current("ca")
       THEN /\ Write("ca", [Absent EXCEPT !.st = "ok", !.by = cas + 1])
            /\ cas' = cas + 1
            /\ Goto("check")
       ELSE PassFails /\ UNCHANGED <<store, events, cas>>
  /\ UNCHANGED <<seen, faults, disturbed>>

\* CheckCertificateRotation and, if nothing is due, updateStatusFromExistingCert.
CheckServer ==
  /\ pass.pc = "check"
  /\ IF NeedsRotation(seen["server"])
       THEN Issue("server")
       ELSE /\ pass' = [pass EXCEPT !.pc = "checkWorker", !.view = seen["server"].age]
            /\ UNCHANGED <<queued, wait>>
  /\ UNCHANGED <<store, seen, events, cas, faults, disturbed>>

CheckWorker ==
  /\ pass.pc = "checkWorker"
  /\ IF NeedsRotation(seen["worker"]) THEN Issue("worker") ELSE PassEnds(pass.view)
  /\ UNCHANGED <<store, seen, events, cas, faults, disturbed>>

\* ParseCertificateFromSecret fails on the Get: the certificate counts as due.
CheckMisread ==
  /\ pass.pc \in {"check", "checkWorker"}
  /\ Fault
  /\ disturbed' = TRUE
  /\ Issue(IF pass.pc = "check" THEN "server" ELSE "worker")
  /\ UNCHANGED <<store, seen, events, cas>>

\* IssueCertificate.
Sign ==
  /\ pass.pc = "sign"
  /\ IF GetCA.st = "ok"
       THEN /\ pass' = [pass EXCEPT !.pc = "store", !.signer = GetCA.by]
            /\ UNCHANGED <<queued, wait>>
       ELSE PassFails
  /\ UNCHANGED <<store, seen, events, cas, faults, disturbed>>

\* Mutant of StoreCertificate: an existing secret keeps its ca.crt.
StoreKeepsBundle ==
  LET k == pass.kind
  IN  /\ pass.pc = "store"
      /\ IF GetCA.st = "ok" /\ Current(k)
           THEN /\ Write(k, [store[k] EXCEPT !.st = "ok", !.by = pass.signer, !.age = 0,
                                !.bundle = IF store[k].st = "none" THEN GetCA.by ELSE @])
                /\ pass' = [pass EXCEPT !.pc = "owner", !.signer = 0]
                /\ UNCHANGED <<queued, wait>>
           ELSE PassFails /\ UNCHANGED <<store, events>>
      /\ UNCHANGED <<seen, cas, faults, disturbed>>

\* storeCertificateWithCA, storeClientCertificateWithCA: the CA is read again for
\* the bundle, then the secret is created or updated.  A new key pair always
\* differs from the stored one, so the update is never skipped.
StoreCertificate ==
  LET k == pass.kind
  IN  /\ pass.pc = "store"
      /\ IF GetCA.st = "ok" /\ Current(k)
           THEN /\ Write(k, [store[k] EXCEPT !.st = "ok", !.by = pass.signer,
                                             !.bundle = GetCA.by, !.age = 0])
                /\ pass' = [pass EXCEPT !.pc = "owner", !.signer = 0]
                /\ UNCHANGED <<queued, wait>>
           ELSE PassFails /\ UNCHANGED <<store, events>>
      /\ UNCHANGED <<seen, cas, faults, disturbed>>

\* issueServerCertificate sets the status and is followed by
\* issueClientCertificate; after the two others the pass is done with certificates.
AfterIssue(k) ==
  IF k = "server"
    THEN /\ pass' = [pass EXCEPT !.pc = "sign", !.kind = "client", !.view = 0]
         /\ UNCHANGED <<queued, wait>>
    ELSE PassEnds(pass.view)

\* setOwnerReference: a secret the cache does not show yet is passed over, one
\* that has an owner is left alone.
SetOwnerReference ==
  LET k == pass.kind
  IN  /\ pass.pc = "owner"
      /\ IF seen[k].st = "none" \/ seen[k].owned
           THEN AfterIssue(k) /\ UNCHANGED <<store, events>>
         ELSE IF store[k] = seen[k]
           THEN AfterIssue(k) /\ Write(k, [store[k] EXCEPT !.owned = TRUE])
         ELSE PassFails /\ UNCHANGED <<store, events>>
      /\ UNCHANGED <<seen, cas, faults, disturbed>>

\* A call of the pass fails, or is answered too late.
CallFails ==
  /\ pass.pc # "idle"
  /\ Fault
  /\ PassFails
  /\ UNCHANGED <<store, seen, events, cas, disturbed>>

\* The process dies and comes back: timers and caches start afresh.
Restart ==
  /\ Fault
  /\ pass' = Resting /\ queued' = TRUE /\ wait' = NoTimer
  /\ seen' = store /\ events' = <<>>
  /\ UNCHANGED <<store, cas, disturbed>>

PassStep ==
  \/ StartPass \/ StoreCA \/ CheckServer \/ CheckWorker
  \/ Sign \/ StoreCertificate \/ SetOwnerReference
-----------------------------------------------------------------------------
(* Around the pass. *)

\* The informer delivers a write; the pool is queued for a secret it owns.
Deliver ==
  /\ events # <<>>
  /\ LET e == Head(events)
     IN  /\ queued' = (queued \/ seen[e.name].owned \/ e.obj.owned)
         /\ seen' = [seen EXCEPT ![e.name] = e.obj]
  /\ events' = Tail(events)
  /\ UNCHANGED <<store, cas, pass, wait, faults, disturbed>>

\* Another object of the pool changes: the watches on Deployments, Services,
\* ConfigMaps and workers queue the pool.
OtherEvent ==
  /\ ~queued
  /\ Fault
  /\ queued' = TRUE
  /\ UNCHANGED <<store, seen, events, cas, pass, wait, disturbed>>

\* kubectl delete, or an edit that leaves no certificate behind.
OperatorEdits(k) ==
  /\ store[k].st = "ok"
  /\ Fault
  /\ \/ Write(k, Absent)
     \/ Write(k, [Absent EXCEPT !.st = "bad", !.owned = store[k].owned])
  /\ disturbed' = (disturbed \/ k = "ca")
  /\ UNCHANGED <<seen, cas, pass, queued, wait>>

\* An expired certificate does not get any older, since nothing depends on by how
\* much; nor do the client certificate and the CA, whose dates no code reads.
Older(k) ==
  [store[k] EXCEPT !.ver = 0,
                   !.age = IF store[k].st = "ok" /\ k \in {"server", "worker"} /\ @ <= Duration
                             THEN @ + 1 ELSE @]

Tick ==
  /\ pass.pc = "idle" /\ ~queued /\ wait > 0
  /\ events = <<>>
  /\ wait' = wait - 1
  /\ store' = [k \in Secrets |-> Older(k)]
  /\ seen' = [k \in Secrets |-> Older(k)]
  /\ UNCHANGED <<events, cas, pass, queued, faults, disturbed>>

CertsNext ==
  \/ PassStep
  \/ EnsureCAMisread \/ CheckMisread \/ CallFails \/ Restart
  \/ Deliver \/ OtherEvent \/ \E k \in Secrets : OperatorEdits(k)
  \/ Tick

CertsSpec == CertsInit /\ [][CertsNext]_certVars

\* The queue serves the pool and the pass runs on, the informer delivers, time passes.
CertsFairSpec ==
  CertsSpec /\ WF_certVars(PassStep) /\ WF_certVars(Deliver) /\ WF_certVars(Tick)
-----------------------------------------------------------------------------
\* EnsureCA replaces a CA that an old cache does not show; as long as the operator
\* leaves the CA alone and no Get misreads a secret, it has signed nothing yet.
ReplacedCASignedNothing ==
  pass.pc = "storeCA" /\ ~disturbed => \A k \in Kinds : store[k].by = 0

\* The requeue interval is short enough, the hour slept near the renewal included,
\* and the cache is read closely enough: no server certificate expires in its secret,
\* however often passes fail, are repeated or see an old certificate.
ServerNeverExpires == store["server"].st = "ok" => store["server"].age <= Duration

\* docs/TLS_TROUBLESHOOTING.md: "Delete the gateway TLS secret ... The controller
\* will automatically regenerate it".  The same holds of the workers' secret.
ServerAndWorkerRestored ==
  \A k \in {"server", "worker"} : store[k].st # "ok" ~> store[k].st = "ok"

Trusted(k) ==
  store[k].st = "ok" /\ {store[k].by, store[k].bundle} = {store["ca"].by}

\* Whatever was lost, damaged or half done, and whichever CA signed it: once nothing
\* goes wrong any more, rotation leaves the secrets of the gateway and the workers
\* signed by, and bundled with, the CA that is stored.
ServingTrustConverges == <>[](Trusted("server") /\ Trusted("worker"))

\* docs/TLS_TROUBLESHOOTING.md: "Use a single CA - ensure all components use the same
\* CA from `buildkit-ca` secret".  The controller brings this about for the client
\* secret, the gateway's credential towards the workers, as well.
TrustConverges == <>[](\A k \in Kinds : Trusted(k))
=============================================================================
