--------------------------- MODULE PoolCertsProofs ---------------------------
(***************************************************************************)
(* Proofs about a pool's certificates for every lifetime, renewal window   *)
(* and set of requeue intervals CertAssumption allows, and for any number  *)
(* of faults.                                                              *)
(***************************************************************************)
EXTENDS PoolCerts, TLAPS

\* Latest age at which a pass is sure to look at a server certificate.
LastLook == RenewalAge + MinRequeue

\* A certificate that has an age is one the cache shows with that age: time passes only
\* when the cache is up to date, and every new certificate starts at age 0.
AgeSeen ==
  store["server"].age # 0 =>
    /\ store["server"].st = "ok"
    /\ seen["server"].st = "ok" /\ seen["server"].age = store["server"].age
    /\ \A i \in 1..Len(events) : events[i].name = "server" =>
         events[i].obj.st = "ok" /\ events[i].obj.age = store["server"].age

\* What the pass knows: a view is that of a certificate not due, and whoever ends the
\* pass has a view.
ViewSound ==
  /\ pass.pc = "idle" => pass.view = NoCert
  /\ pass.view # NoCert => store["server"].age <= RenewalAge
  /\ pass.pc = "checkWorker" => pass.view # NoCert
  /\ pass.pc \in {"sign", "store", "owner"} /\ pass.kind # "server" => pass.view # NoCert
  /\ pass.pc = "owner" /\ pass.kind = "server" => store["server"].age = 0

\* The timer goes off before the certificate is older than LastLook.
TimerSound ==
  store["server"].st = "ok" =>
    /\ store["server"].age <= LastLook
    /\ wait # NoTimer => store["server"].age + wait <= LastLook

RotationInv == CertsTypeOK /\ AgeSeen /\ ViewSound /\ TimerSound

\* As long as nobody disturbs the CA: what the cache will ever show of it is sound, and
\* nothing is signed before the cache shows a CA.
SignedAfterSeen ==
  ~disturbed =>
    /\ \A i \in 1..Len(events) : events[i].name = "ca" =>
         events[i].obj.st = "ok" /\ store["ca"].st = "ok"
    /\ seen["ca"].st = "ok" => store["ca"].st = "ok"
    /\ seen["ca"].st # "ok" => pass.pc # "store" /\ \A k \in Kinds : store[k].by = 0
    /\ pass.pc = "storeCA" => \A k \in Kinds : store[k].by = 0

CAInv == CertsTypeOK /\ SignedAfterSeen
-----------------------------------------------------------------------------
(* The operators. *)

\* certificate.go renews within the certificate's life, and an hour slept past the
\* renewal instant still ends within it.
LEMMA RenewalWithinLife ==
  RenewalAge \in Nat /\ RenewalAge <= Duration /\ LastLook \in Nat /\ LastLook <= Duration
<1>1. Lead \in Nat /\ Lead <= Duration
  <2>1. CASE Duration < RenewalWindow
    <3>1. Duration \in Nat /\ (Duration * 80) \div 100 \in Nat /\ (Duration * 80) \div 100 <= Duration
      BY CertAssumption
    <3> QED
      BY <2>1, <3>1 DEF Lead
  <2>2. CASE ~(Duration < RenewalWindow)
    BY <2>2, CertAssumption DEF Lead
  <2> QED
    BY <2>1, <2>2
<1> QED
  BY <1>1, CertAssumption DEF RenewalAge, LastLook

\* CalculateRequeueInterval never asks for more than the minimum interval near the
\* renewal, nor for a negative one, whatever certificate the status shows.
LEMMA RequeueBounded ==
  ASSUME NEW view \in NoCert..(Duration + 1)
  PROVE  CalculateRequeueInterval(view) \in 0..MinRequeue
BY CertAssumption, RenewalWithinLife DEF CalculateRequeueInterval, minDuration, NoCert

\* The next write to be delivered, and the ones behind it.
LEMMA NextDelivery ==
  ASSUME NEW S, NEW q \in Seq(S), q # <<>>
  PROVE  /\ Head(q) = q[1] /\ q[1] \in S /\ 1 \in 1..Len(q)
         /\ Tail(q) \in Seq(S)
         /\ \A i \in 1..Len(Tail(q)) : Tail(q)[i] = q[i + 1] /\ i + 1 \in 1..Len(q)
OBVIOUS

\* What a write to a secret does to the API server and to the writes under way.
LEMMA WriteEffect ==
  ASSUME CertsTypeOK, NEW k \in Secrets, NEW obj \in Secret, Write(k, obj)
  PROVE  /\ store' \in [Secrets -> Secret]
         /\ events' \in Seq([name : Secrets, obj : Secret])
         /\ \A j \in Secrets : j # k => store'[j] = store[j]
         /\ store'[k].st = obj.st /\ store'[k].by = obj.by /\ store'[k].age = obj.age
         /\ Len(events') = Len(events) + 1 /\ Len(events) \in Nat
         /\ \A i \in 1..Len(events) : events'[i] = events[i]
         /\ events'[Len(events) + 1] = [name |-> k, obj |-> store'[k]]
<1> DEFINE o == [obj EXCEPT !.ver = store[k].ver + 1]
<1>1. o \in Secret /\ o.st = obj.st /\ o.by = obj.by /\ o.age = obj.age
  <2>1. store[k] \in Secret
    BY DEF CertsTypeOK
  <2>2. store[k].ver \in Nat
    BY <2>1 DEF Secret
  <2>3. store[k].ver + 1 \in Nat
    BY <2>2
  <2> QED
    BY <2>3 DEF Secret
<1>2. store' = [store EXCEPT ![k] = o] /\ events' = Append(events, [name |-> k, obj |-> o])
  BY DEF Write
<1> HIDE DEF o
<1>3. store'[k] = o /\ store' \in [Secrets -> Secret] /\ \A j \in Secrets : j # k => store'[j] = store[j]
  BY <1>1, <1>2 DEF CertsTypeOK
<1>4. [name |-> k, obj |-> o] \in [name : Secrets, obj : Secret]
  BY <1>1
<1> HIDE DEF Secret
<1> QED
  BY <1>1, <1>2, <1>3, <1>4 DEF CertsTypeOK

\* The secrets that are written are well formed.
LEMMA WrittenSecrets ==
  ASSUME CertsTypeOK, NEW k \in Secrets
  PROVE  /\ Absent \in Secret
         /\ [Absent EXCEPT !.st = "ok", !.by = cas + 1] \in Secret
         /\ [Absent EXCEPT !.st = "bad", !.owned = store[k].owned] \in Secret
         /\ [store[k] EXCEPT !.owned = TRUE] \in Secret
         /\ [store[k] EXCEPT !.st = "ok", !.by = pass.signer, !.bundle = GetCA.by, !.age = 0] \in Secret
         /\ Older(k) \in Secret
<1>1. store[k] \in Secret /\ seen["ca"] \in Secret /\ cas \in Nat /\ pass.signer \in Nat /\ "ca" \in Secrets
  BY DEF CertsTypeOK, Pass, Secrets
<1>2. Absent \in Secret
  BY DEF Absent, Secret
<1>3. /\ store[k].owned \in BOOLEAN /\ store[k].age \in Nat
      /\ seen["ca"].by \in Nat /\ cas + 1 \in Nat /\ store[k].age + 1 \in Nat
  BY <1>1 DEF Secret
<1>4. [Absent EXCEPT !.st = "ok", !.by = cas + 1] \in Secret
  BY <1>2, <1>3 DEF Secret
<1>5. [Absent EXCEPT !.st = "bad", !.owned = store[k].owned] \in Secret
  BY <1>2, <1>3, Zenon DEF Secret
<1>6. [store[k] EXCEPT !.owned = TRUE] \in Secret
  BY <1>1, Zenon DEF Secret
<1>7. [store[k] EXCEPT !.st = "ok", !.by = pass.signer, !.bundle = GetCA.by, !.age = 0] \in Secret
  BY <1>1, <1>3 DEF Secret, GetCA
<1>8. Older(k) \in Secret
  BY <1>1, <1>3 DEF Secret, Older
<1> QED
  BY <1>2, <1>4, <1>5, <1>6, <1>7, <1>8
-----------------------------------------------------------------------------
(* Types. *)

\* How a pass may end, and what it leaves in the queue.
LEMMA PassEndType ==
  ASSUME CertsTypeOK,
         PassFails \/ PassEnds(pass.view) \/ (\E pc \in {"check", "storeCA"} : Goto(pc))
         \/ (\E kind \in Kinds : Issue(kind))
  PROVE  pass' \in Pass /\ queued' \in BOOLEAN /\ wait' \in NoTimer..MinRequeue
<1>1. pass \in Pass /\ Resting \in Pass /\ wait \in NoTimer..MinRequeue
  BY CertAssumption DEF CertsTypeOK, Pass, Resting, Kinds, NoCert
<1>2. CASE PassFails
  BY <1>1, <1>2 DEF PassFails, CertsTypeOK
<1>3. CASE PassEnds(pass.view)
  <2>1. pass.view \in NoCert..(Duration + 1)
    BY <1>1 DEF Pass
  <2>2. CalculateRequeueInterval(pass.view) \in 0..MinRequeue
    BY <2>1, RequeueBounded
  <2> QED
    BY <1>1, <1>3, <2>2, CertAssumption DEF PassEnds, minDuration, NoTimer, CertsTypeOK
<1>4. ASSUME NEW pc \in {"check", "storeCA"}, Goto(pc)
      PROVE  pass' \in Pass /\ queued' = queued /\ wait' = wait
  BY <1>1, <1>4 DEF Goto, Pass
<1>5. ASSUME NEW kind \in Kinds, Issue(kind)
      PROVE  pass' \in Pass /\ queued' = queued /\ wait' = wait
  BY <1>1, <1>5 DEF Issue, Pass
<1> QED
  BY <1>1, <1>2, <1>3, <1>4, <1>5 DEF CertsTypeOK

\* Every step of the pass, of the informer, of the operator and of time keeps the types.
LEMMA CertsTypeStep == CertsTypeOK /\ [CertsNext]_certVars => CertsTypeOK'
<1> SUFFICES ASSUME CertsTypeOK, [CertsNext]_certVars PROVE CertsTypeOK'
  OBVIOUS
<1>t. /\ store \in [Secrets -> Secret] /\ seen \in [Secrets -> Secret] /\ cas \in Nat
      /\ events \in Seq([name : Secrets, obj : Secret]) /\ pass \in Pass
      /\ queued \in BOOLEAN /\ disturbed \in BOOLEAN
      /\ wait \in NoTimer..MinRequeue /\ faults \in 0..MaxFaults
  BY DEF CertsTypeOK
<1>k. /\ pass.kind \in Kinds /\ Kinds \subseteq Secrets /\ "ca" \in Secrets /\ "server" \in Secrets
      /\ pass.kind \in Secrets /\ Resting \in Pass /\ NoTimer \in NoTimer..MinRequeue
  BY <1>t, CertAssumption DEF Pass, Resting, Secrets, Kinds, NoCert, NoTimer
<1>f. Fault => faults' \in 0..MaxFaults
  BY <1>t, CertAssumption DEF Fault
<1> USE DEF CertsTypeOK
<1>1. CASE StartPass
  <2>1. pass' \in Pass
    BY <1>1, <1>k DEF StartPass, Pass
  <2> QED
    BY <1>1, <1>t, <1>k, <2>1 DEF StartPass
<1>2. CASE StoreCA
  <2>1. CASE Current("ca")
    <3>1. store' \in [Secrets -> Secret] /\ events' \in Seq([name : Secrets, obj : Secret])
      BY Zenon, <1>2, <1>k, <2>1, WrittenSecrets, WriteEffect DEF StoreCA
    <3>2. pass' \in Pass /\ queued' \in BOOLEAN /\ wait' \in NoTimer..MinRequeue
      BY <1>2, <2>1, PassEndType DEF StoreCA
    <3> QED
      BY <1>2, <1>t, <2>1, <3>1, <3>2 DEF StoreCA
  <2>2. CASE ~Current("ca")
    BY <1>2, <1>t, <2>2, PassEndType DEF StoreCA
  <2> QED
    BY <2>1, <2>2
<1>3. CASE CheckServer
  <2>1. CASE NeedsRotation(seen["server"])
    BY <1>3, <1>t, <2>1, PassEndType DEF CheckServer, Kinds
  <2>2. CASE ~NeedsRotation(seen["server"])
    <3>1. seen["server"] \in Secret
      BY <1>t, <1>k
    <3>2. seen["server"].age \in Nat
      BY <3>1 DEF Secret
    <3>3. seen["server"].age \in NoCert..(Duration + 1)
      BY <2>2, <3>2, RenewalWithinLife, CertAssumption DEF NeedsRotation, ShouldRotate, NoCert
    <3>4. pass' \in Pass
      BY <1>3, <1>t, <2>2, <3>3 DEF CheckServer, Pass
    <3> QED
      BY <1>3, <1>t, <2>2, <3>4 DEF CheckServer
  <2> QED
    BY <2>1, <2>2
<1>4. CASE CheckWorker
  <2>1. "worker" \in Kinds
    BY DEF Kinds
  <2> QED
    BY <1>4, <1>t, <2>1, PassEndType DEF CheckWorker
<1>5. CASE Sign
  <2>1. CASE GetCA.st = "ok"
    <3>1. seen["ca"] \in Secret
      BY <1>t, <1>k
    <3>2. GetCA.by \in Nat
      BY <3>1 DEF GetCA, Secret
    <3>3. pass' \in Pass
      BY <1>5, <1>t, <2>1, <3>2 DEF Sign, Pass
    <3> QED
      BY <1>5, <1>t, <2>1, <3>3 DEF Sign
  <2>2. CASE GetCA.st # "ok"
    BY <1>5, <1>t, <2>2, PassEndType DEF Sign
  <2> QED
    BY <2>1, <2>2
<1>6. CASE StoreCertificate
  <2>1. CASE GetCA.st = "ok" /\ Current(pass.kind)
    <3>1. store' \in [Secrets -> Secret] /\ events' \in Seq([name : Secrets, obj : Secret])
      BY Zenon, <1>6, <1>k, <2>1, WrittenSecrets, WriteEffect DEF StoreCertificate
    <3>2. pass' \in Pass
      <4>1. pass' = [pass EXCEPT !.pc = "owner", !.signer = 0]
        BY <1>6, <2>1 DEF StoreCertificate
      <4> QED
        BY <1>t, <4>1 DEF Pass
    <3> QED
      BY <1>6, <1>t, <2>1, <3>1, <3>2 DEF StoreCertificate
  <2>2. CASE ~(GetCA.st = "ok" /\ Current(pass.kind))
    BY <1>6, <1>t, <2>2, PassEndType DEF StoreCertificate
  <2> QED
    BY <2>1, <2>2
<1>7. CASE SetOwnerReference
  <2>1. ASSUME AfterIssue(pass.kind)
        PROVE  pass' \in Pass /\ queued' \in BOOLEAN /\ wait' \in NoTimer..MinRequeue
    <3>1. CASE pass.kind = "server"
      <4>0. 0 \in NoCert..(Duration + 1) /\ "client" \in Kinds
        BY CertAssumption DEF Kinds, NoCert
      <4>1. pass' \in Pass
        BY <1>t, <2>1, <3>1, <4>0 DEF AfterIssue, Pass
      <4> QED
        BY <1>t, <2>1, <3>1, <4>1 DEF AfterIssue
    <3>2. CASE pass.kind # "server"
      BY <2>1, <3>2, PassEndType DEF AfterIssue
    <3> QED
      BY <3>1, <3>2
  <2>2. CASE seen[pass.kind].st = "none" \/ seen[pass.kind].owned
    BY <1>7, <1>t, <2>1, <2>2 DEF SetOwnerReference
  <2>3. CASE ~(seen[pass.kind].st = "none" \/ seen[pass.kind].owned) /\ store[pass.kind] = seen[pass.kind]
    <3>1. Write(pass.kind, [store[pass.kind] EXCEPT !.owned = TRUE]) /\ AfterIssue(pass.kind)
      BY <1>7, <2>3 DEF SetOwnerReference
    <3>2. store' \in [Secrets -> Secret] /\ events' \in Seq([name : Secrets, obj : Secret])
      BY Zenon, <1>k, <3>1, WrittenSecrets, WriteEffect
    <3> QED
      BY <1>7, <1>t, <2>1, <3>1, <3>2 DEF SetOwnerReference
  <2>4. CASE ~(seen[pass.kind].st = "none" \/ seen[pass.kind].owned) /\ store[pass.kind] # seen[pass.kind]
    BY <1>7, <1>t, <2>4, PassEndType DEF SetOwnerReference
  <2> QED
    BY <2>2, <2>3, <2>4
<1>8. CASE EnsureCAMisread
  BY <1>8, <1>t, <1>f, PassEndType DEF EnsureCAMisread
<1>9. CASE CheckMisread
  <2>1. pass' \in Pass /\ queued' \in BOOLEAN /\ wait' \in NoTimer..MinRequeue
    BY <1>9, PassEndType DEF CheckMisread, Kinds
  <2> QED
    BY <1>9, <1>t, <1>f, <2>1 DEF CheckMisread
<1>10. CASE CallFails
  BY <1>10, <1>t, <1>f, PassEndType DEF CallFails
<1>11. CASE Restart
  <2>1. <<>> \in Seq([name : Secrets, obj : Secret])
    OBVIOUS
  <2> QED
    BY <1>11, <1>t, <1>k, <1>f, <2>1 DEF Restart
<1>12. CASE Deliver
  <2>1. Head(events) \in [name : Secrets, obj : Secret] /\ Tail(events) \in Seq([name : Secrets, obj : Secret])
    BY <1>12, <1>t, NextDelivery DEF Deliver
  <2>2. Head(events).name \in Secrets /\ Head(events).obj \in Secret
    BY <2>1
  <2>3. seen' \in [Secrets -> Secret]
    BY <1>12, <1>t, <2>2 DEF Deliver
  <2>4. seen[Head(events).name].owned \in BOOLEAN /\ Head(events).obj.owned \in BOOLEAN
    <3>1. seen[Head(events).name] \in Secret
      BY <1>t, <2>2
    <3> QED
      BY <2>2, <3>1 DEF Secret
  <2>5. queued' \in BOOLEAN
    BY <1>12, <1>t, <2>4, Zenon DEF Deliver
  <2> QED
    BY <1>12, <1>t, <2>1, <2>3, <2>5 DEF Deliver
<1>13. CASE OtherEvent
  BY <1>13, <1>t, <1>f DEF OtherEvent
<1>14. ASSUME NEW k \in Secrets, OperatorEdits(k)
       PROVE  CertsTypeOK'
  <2>1. store' \in [Secrets -> Secret] /\ events' \in Seq([name : Secrets, obj : Secret])
    BY Zenon, <1>14, WrittenSecrets, WriteEffect DEF OperatorEdits
  <2>2. disturbed' \in BOOLEAN
    BY <1>14, <1>t, Zenon DEF OperatorEdits
  <2> QED
    BY <1>14, <1>t, <1>f, <2>1, <2>2 DEF OperatorEdits
<1>15. CASE Tick
  <2>1. \A k \in Secrets : Older(k) \in Secret
    BY Zenon, WrittenSecrets
  <2>2. store' \in [Secrets -> Secret] /\ seen' \in [Secrets -> Secret]
    BY <1>15, <2>1 DEF Tick
  <2>3. wait' \in NoTimer..MinRequeue
    BY <1>15, <1>t, CertAssumption DEF Tick, NoTimer
  <2> QED
    BY <1>15, <1>t, <2>2, <2>3 DEF Tick
<1>16. CASE UNCHANGED certVars
  BY <1>16, <1>t DEF certVars
<1> QED
  BY <1>1, <1>2, <1>3, <1>4, <1>5, <1>6, <1>7, <1>8, <1>9, <1>10, <1>11, <1>12, <1>13, <1>14, <1>15, <1>16
     DEF CertsNext, PassStep

\* A new pool's certificates are well typed.
LEMMA CertsTypeInit == CertsInit => CertsTypeOK
<1> SUFFICES ASSUME CertsInit PROVE CertsTypeOK
  OBVIOUS
<1>1. Absent \in Secret
  BY DEF Absent, Secret
<1>2. Resting \in Pass
  BY CertAssumption DEF Resting, Pass, Kinds, NoCert
<1>3. NoTimer \in NoTimer..MinRequeue /\ 0 \in 0..MaxFaults
  BY CertAssumption DEF NoTimer
<1>4. <<>> \in Seq([name : Secrets, obj : Secret])
  OBVIOUS
<1> QED
  BY <1>1, <1>2, <1>3, <1>4 DEF CertsInit, CertsTypeOK

\* The state is always well typed; in particular the delay of a requeue stays within
\* the minimum interval and the view within the life of a certificate.
THEOREM CertsTypeCorrect == CertsSpec => []CertsTypeOK
BY CertsTypeInit, CertsTypeStep, PTL DEF CertsSpec
-----------------------------------------------------------------------------
(* The server certificate. *)

\* A step other than the passing of time leaves the server certificate's age and
\* condition alone or leaves one of age 0.
ServerKept ==
  \/ store'["server"].age = 0
  \/ store'["server"].st = store["server"].st /\ store'["server"].age = store["server"].age

\* What the writes of the pass and of the operator put into a secret.
LEMMA WrittenFields ==
  ASSUME CertsTypeOK, NEW k \in Secrets
  PROVE  /\ Absent.age = 0 /\ Absent.by = 0
         /\ [Absent EXCEPT !.st = "ok", !.by = cas + 1].st = "ok"
         /\ [Absent EXCEPT !.st = "bad", !.owned = store[k].owned].age = 0
         /\ [Absent EXCEPT !.st = "bad", !.owned = store[k].owned].by = 0
         /\ [store[k] EXCEPT !.owned = TRUE].st = store[k].st
         /\ [store[k] EXCEPT !.owned = TRUE].age = store[k].age
         /\ [store[k] EXCEPT !.owned = TRUE].by = store[k].by
         /\ [store[k] EXCEPT !.st = "ok", !.by = pass.signer, !.bundle = GetCA.by, !.age = 0].age = 0
<1>1. store[k] \in Secret
  BY DEF CertsTypeOK
<1>2. Absent \in Secret
  BY Zenon, WrittenSecrets
<1>3. Absent.age = 0 /\ Absent.by = 0
  BY DEF Absent
<1> QED
  BY <1>1, <1>2, <1>3 DEF Secret

\* A write keeps AgeSeen when it starts the server certificate afresh, or leaves its
\* age and condition as they are.
LEMMA AgeSeenWrite ==
  ASSUME CertsTypeOK, AgeSeen, NEW k \in Secrets, NEW obj \in Secret, Write(k, obj), seen' = seen,
         k = "server" => obj.age = 0 \/ (obj.st = store[k].st /\ obj.age = store[k].age)
  PROVE  AgeSeen' /\ ServerKept
<1>w. /\ \A j \in Secrets : j # k => store'[j] = store[j]
      /\ store'[k].st = obj.st /\ store'[k].age = obj.age
      /\ Len(events') = Len(events) + 1 /\ Len(events) \in Nat
      /\ \A i \in 1..Len(events) : events'[i] = events[i]
      /\ events'[Len(events) + 1] = [name |-> k, obj |-> store'[k]]
  BY WriteEffect
<1>s. "server" \in Secrets
  BY DEF Secrets, Kinds
<1>1. ServerKept
  BY <1>w, <1>s DEF ServerKept
<1>2. ASSUME store'["server"].age # 0 PROVE AgeSeen'
  <2>1. /\ store'["server"].st = store["server"].st /\ store'["server"].age = store["server"].age
        /\ store["server"].age # 0
    BY <1>1, <1>2 DEF ServerKept
  <2>2. ASSUME NEW i \in 1..Len(events'), events'[i].name = "server"
        PROVE  events'[i].obj.st = "ok" /\ events'[i].obj.age = store'["server"].age
    <3>1. CASE i \in 1..Len(events)
      BY <1>w, <2>1, <2>2, <3>1 DEF AgeSeen
    <3>2. CASE i = Len(events) + 1
      <4>1. k = "server" /\ events'[i].obj = store'["server"]
        BY <1>w, <2>2, <3>2
      <4> QED
        BY <2>1, <4>1 DEF AgeSeen
    <3> QED
      BY <1>w, <3>1, <3>2
  <2> QED
    BY <2>1, <2>2 DEF AgeSeen
<1> QED
  BY <1>1, <1>2 DEF AgeSeen

\* Nobody but time makes a certificate older, and the cache keeps up with it.
LEMMA AgeSeenStep ==
  CertsTypeOK /\ AgeSeen /\ [CertsNext]_certVars => AgeSeen' /\ (Tick \/ ServerKept)
<1> SUFFICES ASSUME CertsTypeOK, AgeSeen, [CertsNext]_certVars PROVE AgeSeen' /\ (Tick \/ ServerKept)
  OBVIOUS
<1>k. /\ "ca" \in Secrets /\ "server" \in Secrets /\ "ca" # "server" /\ pass.kind \in Secrets
  BY DEF CertsTypeOK, Pass, Secrets, Kinds
<1>1. CASE UNCHANGED <<store, seen, events>>
  BY <1>1 DEF AgeSeen, ServerKept
<1>2. CASE StoreCA
  BY Zenon, <1>1, <1>2, <1>k, WrittenSecrets, AgeSeenWrite DEF StoreCA
<1>3. CASE StoreCertificate
  BY Zenon, <1>1, <1>3, <1>k, WrittenSecrets, WrittenFields, AgeSeenWrite DEF StoreCertificate
<1>4. CASE SetOwnerReference
  BY Zenon, <1>1, <1>4, <1>k, WrittenSecrets, WrittenFields, AgeSeenWrite DEF SetOwnerReference
<1>5. ASSUME NEW k \in Secrets, OperatorEdits(k)
      PROVE  AgeSeen' /\ ServerKept
  BY Zenon, <1>5, WrittenSecrets, WrittenFields, AgeSeenWrite DEF OperatorEdits
<1>6. CASE Restart
  BY <1>6 DEF Restart, AgeSeen, ServerKept
<1>7. CASE Deliver
  <2>1. events \in Seq([name : Secrets, obj : Secret]) /\ events # <<>> /\ seen \in [Secrets -> Secret]
    BY <1>7 DEF Deliver, CertsTypeOK
  <2>2. /\ Head(events) = events[1] /\ 1 \in 1..Len(events) /\ events[1].name \in Secrets
        /\ \A i \in 1..Len(Tail(events)) : Tail(events)[i] = events[i + 1] /\ i + 1 \in 1..Len(events)
    <3> DEFINE S == [name : Secrets, obj : Secret]
    <3>1. events \in Seq(S) /\ events # <<>>
      BY <2>1
    <3> HIDE DEF S
    <3>2. /\ Head(events) = events[1] /\ 1 \in 1..Len(events) /\ events[1] \in S
          /\ \A i \in 1..Len(Tail(events)) : Tail(events)[i] = events[i + 1] /\ i + 1 \in 1..Len(events)
      BY <3>1, NextDelivery
    <3>3. events[1].name \in Secrets
      BY <3>2 DEF S
    <3> QED
      BY <3>2, <3>3
  <2>3. store' = store /\ events' = Tail(events) /\ seen' = [seen EXCEPT ![events[1].name] = events[1].obj]
    BY <1>7, <2>2 DEF Deliver
  <2>4. seen'["server"] = IF events[1].name = "server" THEN events[1].obj ELSE seen["server"]
    BY <1>k, <2>1, <2>2, <2>3
  <2> QED
    BY <2>2, <2>3, <2>4 DEF AgeSeen, ServerKept
<1>8. CASE Tick
  <2>1. /\ store'["server"] = Older("server") /\ seen'["server"] = Older("server")
        /\ events' = events /\ Len(events) = 0
    BY <1>8, <1>k DEF Tick
  <2>2. store["server"] \in Secret
    BY <1>k DEF CertsTypeOK
  <2>3. /\ Older("server").st = store["server"].st
        /\ Older("server").age # store["server"].age => store["server"].st = "ok"
    <3> DEFINE older == IF store["server"].st = "ok" /\ "server" \in {"server", "worker"} /\ store["server"].age <= Duration
                          THEN store["server"].age + 1 ELSE store["server"].age
    <3>1. Older("server") = [store["server"] EXCEPT !.ver = 0, !.age = older]
      BY DEF Older
    <3>2. older # store["server"].age => store["server"].st = "ok"
      OBVIOUS
    <3> HIDE DEF older
    <3> QED
      BY <2>2, <3>1, <3>2 DEF Secret
  <2> QED
    BY <1>8, <2>1, <2>3 DEF AgeSeen
<1> QED
  BY <1>1, <1>2, <1>3, <1>4, <1>5, <1>6, <1>7, <1>8
     DEF CertsNext, PassStep, StartPass, CheckServer, CheckWorker, Sign, EnsureCAMisread, CheckMisread,
         CallFails, OtherEvent, certVars

\* Every step but the passing of time keeps what the pass knows true, and only a pass
\* with a view of the certificate sets the timer.
LEMMA ViewStep ==
  CertsTypeOK /\ AgeSeen /\ ViewSound /\ [CertsNext]_certVars /\ ServerKept /\ ~Tick
    => ViewSound' /\ (wait' \in {wait, NoTimer} \/ pass.view # NoCert)
<1> SUFFICES ASSUME CertsTypeOK, AgeSeen, ViewSound, [CertsNext]_certVars, ServerKept, ~Tick
             PROVE  ViewSound' /\ (wait' \in {wait, NoTimer} \/ pass.view # NoCert)
  OBVIOUS
<1> DEFINE Goal == ViewSound' /\ (wait' \in {wait, NoTimer} \/ pass.view # NoCert)
<1>t. /\ pass \in Pass /\ store["server"].age \in Nat /\ seen["server"].age \in Nat
  <2>1. "server" \in Secrets
    BY DEF Secrets, Kinds
  <2>2. store["server"] \in Secret /\ seen["server"] \in Secret /\ pass \in Pass
    BY <2>1 DEF CertsTypeOK
  <2> QED
    BY <2>2 DEF Secret
<1>a. /\ store'["server"].age = 0 \/ store'["server"].age = store["server"].age
      /\ RenewalAge \in Nat /\ 0 <= RenewalAge
  BY RenewalWithinLife DEF ServerKept
<1>r. ASSUME pass' = Resting PROVE ViewSound'
  BY <1>r DEF Resting, ViewSound, NoCert
<1>s. ASSUME pass' = pass PROVE ViewSound'
  BY <1>a, <1>s DEF ViewSound
<1>f. ASSUME PassFails PROVE Goal
  BY <1>r, <1>f DEF PassFails
<1>e. ASSUME PassEnds(pass.view), pass.view # NoCert PROVE Goal
  BY <1>r, <1>e DEF PassEnds
<1>1. CASE StartPass
  <2>1. pass'.view = NoCert /\ pass'.pc \in {"check", "storeCA"}
    BY <1>1 DEF StartPass, Resting
  <2> QED
    BY <1>1, <2>1 DEF StartPass, ViewSound
<1>g. ASSUME NEW pc \in {"check", "storeCA"}, Goto(pc) PROVE Goal
  <2>1. pass'.view = pass.view /\ pass'.pc = pc
    BY <1>t, <1>g DEF Goto, Pass
  <2> QED
    BY <1>a, <1>g, <2>1 DEF Goto, ViewSound
<1>i. ASSUME NEW kind \in Kinds, Issue(kind), kind = "server" \/ pass.view # NoCert PROVE Goal
  <2>1. pass'.view = pass.view /\ pass'.pc = "sign" /\ pass'.kind = kind
    BY <1>t, <1>i DEF Issue, Pass
  <2> QED
    BY <1>a, <1>i, <2>1 DEF Issue, ViewSound
<1>2. CASE StoreCA
  BY <1>2, <1>f, <1>g DEF StoreCA
<1>3. CASE CheckServer
  <2>1. CASE NeedsRotation(seen["server"])
    BY <1>3, <1>i, <2>1 DEF CheckServer, Kinds
  <2>2. CASE ~NeedsRotation(seen["server"])
    <3>1. pass'.view = seen["server"].age /\ pass'.pc = "checkWorker"
      BY <1>3, <1>t, <2>2 DEF CheckServer, Pass
    <3>2. seen["server"].age <= RenewalAge
      BY <1>t, <1>a, <2>2 DEF NeedsRotation, ShouldRotate
    <3>3. store'["server"].age <= RenewalAge /\ pass'.view # NoCert
      BY <1>t, <1>a, <3>1, <3>2 DEF AgeSeen, NoCert
    <3> QED
      BY <1>3, <2>2, <3>1, <3>3 DEF CheckServer, ViewSound
  <2> QED
    BY <2>1, <2>2
<1>4. CASE CheckWorker
  <2>1. pass.view # NoCert /\ "worker" \in Kinds
    BY <1>4 DEF CheckWorker, ViewSound, Kinds
  <2> QED
    BY <1>4, <1>e, <1>i, <2>1 DEF CheckWorker
<1>5. CASE Sign
  <2>1. CASE GetCA.st = "ok"
    <3>1. pass'.view = pass.view /\ pass'.pc = "store" /\ pass'.kind = pass.kind
      BY <1>5, <1>t, <2>1 DEF Sign, Pass
    <3> QED
      BY <1>5, <1>a, <2>1, <3>1 DEF Sign, ViewSound
  <2>2. CASE GetCA.st # "ok"
    BY <1>5, <1>f, <2>2 DEF Sign
  <2> QED
    BY <2>1, <2>2
<1>6. CASE StoreCertificate
  <2>1. CASE GetCA.st = "ok" /\ Current(pass.kind)
    <3>1. pass'.view = pass.view /\ pass'.pc = "owner" /\ pass'.kind = pass.kind
      <4>1. pass' = [pass EXCEPT !.pc = "owner", !.signer = 0]
        BY <1>6, <2>1 DEF StoreCertificate
      <4> QED
        BY <1>t, <4>1 DEF Pass
    <3>2. pass.kind = "server" => store'["server"].age = 0
      <4>1. pass.kind \in Secrets
        BY <1>t DEF Pass, Secrets
      <4> DEFINE obj == [store[pass.kind] EXCEPT !.st = "ok", !.by = pass.signer,
                                                 !.bundle = GetCA.by, !.age = 0]
      <4>2. Write(pass.kind, obj)
        BY <1>6, <2>1 DEF StoreCertificate
      <4>3. obj \in Secret /\ obj.age = 0
        BY Zenon, <4>1, WrittenSecrets, WrittenFields
      <4> HIDE DEF obj
      <4>4. store'[pass.kind].age = 0
        BY <4>1, <4>2, <4>3, WriteEffect
      <4> QED
        BY <4>4
    <3>3. pass.pc = "store" /\ UNCHANGED wait
      BY <1>6, <2>1 DEF StoreCertificate
    <3> QED
      BY <1>a, <3>1, <3>2, <3>3 DEF ViewSound
  <2>2. CASE ~(GetCA.st = "ok" /\ Current(pass.kind))
    BY <1>6, <1>f, <2>2 DEF StoreCertificate
  <2> QED
    BY <2>1, <2>2
<1>7. CASE SetOwnerReference
  <2>1. ASSUME AfterIssue(pass.kind) PROVE Goal
    <3>1. CASE pass.kind = "server"
      <4>1. pass' = [pass EXCEPT !.pc = "sign", !.kind = "client", !.view = 0] /\ UNCHANGED wait
        BY <2>1, <3>1 DEF AfterIssue
      <4>2. pass'.view = 0 /\ pass'.pc = "sign"
        BY <1>t, <4>1 DEF Pass
      <4>3. store'["server"].age = 0
        BY <1>7, <1>a, <3>1 DEF SetOwnerReference, ViewSound
      <4> QED
        BY <1>a, <4>1, <4>2, <4>3 DEF ViewSound, NoCert
    <3>2. CASE pass.kind # "server"
      <4>1. pass.view # NoCert
        BY <1>7, <3>2 DEF SetOwnerReference, ViewSound
      <4> QED
        BY <1>e, <2>1, <3>2, <4>1 DEF AfterIssue
    <3> QED
      BY <3>1, <3>2
  <2> QED
    BY <1>7, <1>f, <2>1 DEF SetOwnerReference
<1>8. CASE EnsureCAMisread
  BY <1>8, <1>g DEF EnsureCAMisread
<1>9. CASE CheckMisread
  <2>1. CASE pass.pc = "check"
    BY <1>9, <1>i, <2>1 DEF CheckMisread, Kinds
  <2>2. CASE pass.pc = "checkWorker"
    <3>1. pass.view # NoCert /\ "worker" \in Kinds /\ Issue("worker")
      BY <1>9, <2>2 DEF CheckMisread, ViewSound, Kinds
    <3> QED
      BY <1>i, <3>1
  <2> QED
    BY <1>9, <2>1, <2>2 DEF CheckMisread
<1>10. CASE CallFails
  BY <1>10, <1>f DEF CallFails
<1>11. CASE Restart
  BY <1>11, <1>r DEF Restart
<1>12. CASE Deliver \/ OtherEvent \/ UNCHANGED certVars \/ \E k \in Secrets : OperatorEdits(k)
  BY Zenon, <1>12, <1>s DEF Deliver, OtherEvent, certVars, OperatorEdits
<1> QED
  BY <1>1, <1>2, <1>3, <1>4, <1>5, <1>6, <1>7, <1>8, <1>9, <1>10, <1>11, <1>12 DEF CertsNext, PassStep

\* A pass takes no time, so its timer, at most the minimum interval, counts from an age
\* at which nothing was due; time counts both.
LEMMA RotationStep == RotationInv /\ [CertsNext]_certVars => RotationInv'
<1> SUFFICES ASSUME RotationInv, [CertsNext]_certVars PROVE RotationInv'
  OBVIOUS
<1>1. /\ CertsTypeOK /\ AgeSeen /\ ViewSound /\ TimerSound
      /\ CertsTypeOK' /\ AgeSeen' /\ (Tick \/ ServerKept)
  BY CertsTypeStep, AgeSeenStep DEF RotationInv
<1>n. /\ store["server"].age \in Nat /\ store'["server"].age \in Nat
      /\ wait \in NoTimer..MinRequeue /\ wait' \in NoTimer..MinRequeue
  <2>1. "server" \in Secrets
    BY DEF Secrets, Kinds
  <2>2. store["server"] \in Secret /\ store'["server"] \in Secret
    BY <1>1, <2>1 DEF CertsTypeOK
  <2> QED
    BY <1>1, <2>2 DEF Secret, CertsTypeOK
<1>2. CASE Tick
  <2>1. ViewSound'
    <3>1. pass' = pass /\ pass.pc = "idle" /\ pass.view = NoCert
      BY <1>1, <1>2 DEF Tick, ViewSound
    <3> QED
      BY <3>1 DEF ViewSound
  <2>2. TimerSound'
    <3>1. "server" \in Secrets
      BY DEF Secrets, Kinds
    <3>2. store["server"] \in Secret
      BY <1>1, <3>1 DEF CertsTypeOK
    <3>3. store'["server"] = Older("server") /\ wait' = wait - 1 /\ wait > 0
      BY <1>2, <3>1 DEF Tick
    <3>4. /\ Older("server").st = store["server"].st
          /\ Older("server").age \in {store["server"].age, store["server"].age + 1}
      BY <3>2 DEF Older, Secret
    <3>5. store'["server"].st = store["server"].st
          /\ store'["server"].age \in {store["server"].age, store["server"].age + 1}
      BY <3>3, <3>4
    <3>6. wait # NoTimer
      BY <1>n, <3>3, CertAssumption DEF NoTimer
    <3> QED
      BY <1>1, <1>n, <3>3, <3>5, <3>6, RenewalWithinLife, CertAssumption DEF TimerSound, NoTimer
  <2> QED
    BY <1>1, <2>1, <2>2 DEF RotationInv
<1>3. CASE ~Tick
  <2>1. ServerKept /\ ViewSound' /\ (wait' \in {wait, NoTimer} \/ pass.view # NoCert)
    BY <1>1, <1>3, ViewStep
  <2>2. TimerSound'
    <3>1. CASE store'["server"].age = 0
      <4>1. LastLook \in Nat /\ MinRequeue \in Nat /\ MinRequeue <= LastLook
        BY RenewalWithinLife, CertAssumption DEF LastLook
      <4>2. wait' \in Int /\ wait' <= MinRequeue
        BY <1>n, <4>1 DEF NoTimer
      <4>3. \A w \in Int, m, l \in Nat : w <= m /\ m <= l => 0 <= l /\ 0 + w <= l
        OBVIOUS
      <4>4. 0 <= LastLook /\ 0 + wait' <= LastLook
        BY <4>1, <4>2, <4>3
      <4> QED
        BY <3>1, <4>4 DEF TimerSound, LastLook, RenewalAge, Lead
    <3>2. CASE store'["server"].age # 0
      <4>1. store'["server"].st = store["server"].st /\ store'["server"].age = store["server"].age
        BY <2>1, <3>2 DEF ServerKept
      <4>2. CASE wait' \in {wait, NoTimer}
        BY <1>1, <4>1, <4>2 DEF TimerSound
      <4>3. CASE pass.view # NoCert
        <5>1. store["server"].age <= RenewalAge
          BY <1>1, <4>3 DEF ViewSound
        <5> QED
          BY <1>n, <4>1, <5>1, RenewalWithinLife, CertAssumption DEF TimerSound, LastLook, NoTimer
      <4> QED
        BY <2>1, <4>2, <4>3
    <3> QED
      BY <3>1, <3>2
  <2> QED
    BY <1>1, <2>1, <2>2 DEF RotationInv
<1> QED
  BY <1>2, <1>3

\* Whatever the lifetime and the intervals, however often passes fail, are repeated, or
\* are made from an old cache, the controller rotates a server certificate before it
\* expires (CheckCertificateRotation, CalculateRequeueInterval).
THEOREM ServerCertificateNeverExpires == CertsSpec => []ServerNeverExpires
<1>1. CertsInit => RotationInv
  <2> SUFFICES ASSUME CertsInit PROVE RotationInv
    OBVIOUS
  <2>1. CertsTypeOK
    BY CertsTypeInit
  <2>2. store["server"].age = 0 /\ store["server"].st = "none" /\ pass.pc = "idle" /\ pass.view = NoCert
    BY DEF CertsInit, Secrets, Kinds, Absent, Resting
  <2> QED
    BY <2>1, <2>2 DEF RotationInv, AgeSeen, ViewSound, TimerSound
<1>2. RotationInv => ServerNeverExpires
  <2> SUFFICES ASSUME RotationInv, store["server"].st = "ok" PROVE store["server"].age <= Duration
    BY DEF ServerNeverExpires
  <2>1. store["server"].age <= LastLook
    BY DEF RotationInv, TimerSound
  <2>2. store["server"].age \in Nat
    <3>1. store["server"] \in Secret
      BY DEF RotationInv, CertsTypeOK, Secrets, Kinds
    <3> QED
      BY <3>1 DEF Secret
  <2> QED
    BY <2>1, <2>2, RenewalWithinLife, CertAssumption
<1> QED
  BY <1>1, <1>2, RotationStep, PTL DEF CertsSpec
-----------------------------------------------------------------------------
(* The CA. *)

EventsOfCA ==
  \A i \in 1..Len(events) : events[i].name = "ca" => events[i].obj.st = "ok" /\ store["ca"].st = "ok"

\* A write that leaves no CA secret without a CA keeps what the cache will show of it.
LEMMA CAWrite ==
  ASSUME CertsTypeOK, EventsOfCA, NEW k \in Secrets, NEW obj \in Secret, Write(k, obj),
         k = "ca" => obj.st = "ok"
  PROVE  /\ EventsOfCA'
         /\ store["ca"].st = "ok" => store'["ca"].st = "ok"
         /\ \A j \in Kinds : store'[j].by = IF j = k THEN obj.by ELSE store[j].by
<1>1. /\ \A j \in Secrets : j # k => store'[j] = store[j]
      /\ store'[k].st = obj.st /\ store'[k].by = obj.by
      /\ Len(events') = Len(events) + 1 /\ Len(events) \in Nat
      /\ \A i \in 1..Len(events) : events'[i] = events[i]
      /\ events'[Len(events) + 1] = [name |-> k, obj |-> store'[k]]
  BY WriteEffect
<1>2. "ca" \in Secrets /\ Kinds \subseteq Secrets
  BY DEF Secrets
<1>3. (store["ca"].st = "ok" \/ k = "ca") => store'["ca"].st = "ok"
  BY <1>1, <1>2
<1>4. EventsOfCA'
  <2> SUFFICES ASSUME NEW i \in 1..Len(events'), events'[i].name = "ca"
               PROVE  events'[i].obj.st = "ok" /\ store'["ca"].st = "ok"
    BY DEF EventsOfCA
  <2>1. CASE i \in 1..Len(events)
    BY <1>1, <1>3, <2>1 DEF EventsOfCA
  <2>2. CASE i = Len(events) + 1
    BY <1>1, <1>3, <2>2
  <2> QED
    BY <1>1, <2>1, <2>2
<1> QED
  BY <1>1, <1>2, <1>3, <1>4

\* Every step keeps the order: first the CA is stored, then the cache shows it, then it signs.
LEMMA CAStep == CAInv /\ [CertsNext]_certVars => CAInv'
<1> SUFFICES ASSUME CAInv, [CertsNext]_certVars PROVE CAInv'
  OBVIOUS
<1>0. CertsTypeOK /\ CertsTypeOK' /\ SignedAfterSeen
  BY CertsTypeStep DEF CAInv
<1> SUFFICES ASSUME ~disturbed' PROVE SignedAfterSeen'
  BY <1>0 DEF CAInv, SignedAfterSeen
<1>d. ~disturbed
  BY Zenon DEF CertsNext, PassStep, StartPass, StoreCA, CheckServer, CheckWorker, Sign, StoreCertificate,
    SetOwnerReference, EnsureCAMisread, CheckMisread, CallFails, Restart, Deliver, OtherEvent,
    OperatorEdits, Tick, certVars
<1>i. /\ EventsOfCA
      /\ seen["ca"].st = "ok" => store["ca"].st = "ok"
      /\ seen["ca"].st # "ok" => pass.pc # "store" /\ \A k \in Kinds : store[k].by = 0
      /\ pass.pc = "storeCA" => \A k \in Kinds : store[k].by = 0
  BY <1>0, <1>d DEF SignedAfterSeen, EventsOfCA
<1>k. "ca" \in Secrets /\ Kinds \subseteq Secrets /\ "ca" \notin Kinds /\ pass.kind \in Kinds
  BY <1>0 DEF Secrets, Kinds, CertsTypeOK, Pass
<1>t. pass \in Pass
  BY <1>0 DEF CertsTypeOK
<1>p. /\ Resting.pc = "idle"
      /\ \A pc : Goto(pc) => pass'.pc = pc
      /\ \A kind : Issue(kind) => pass'.pc = "sign"
  BY Zenon, <1>t DEF Resting, Goto, Issue, Pass
<1>e. /\ PassFails => pass'.pc = "idle"
      /\ \A view : PassEnds(view) => pass'.pc = "idle"
  BY <1>p DEF PassFails, PassEnds
<1>a. \A k : AfterIssue(k) => pass'.pc \in {"idle", "sign"}
  BY <1>t, <1>e DEF AfterIssue, Pass
<1>u. ASSUME UNCHANGED <<store, seen, events>>, pass'.pc \notin {"store", "storeCA"}
      PROVE  SignedAfterSeen'
  BY <1>i, <1>u DEF SignedAfterSeen, EventsOfCA
<1>w. ASSUME NEW k \in Secrets, NEW obj \in Secret, Write(k, obj), UNCHANGED seen,
             k = "ca" => obj.st = "ok", pass'.pc \notin {"store", "storeCA"} \/ pass' = pass,
             k \in Kinds => obj.by \in {0, store[k].by} \/ (seen["ca"].st = "ok" /\ pass.pc # "storeCA")
      PROVE  SignedAfterSeen'
  <2>1. /\ EventsOfCA'
        /\ store["ca"].st = "ok" => store'["ca"].st = "ok"
        /\ \A j \in Kinds : store'[j].by = IF j = k THEN obj.by ELSE store[j].by
    BY <1>0, <1>i, <1>w, CAWrite
  <2>2. /\ seen["ca"].st # "ok" => \A j \in Kinds : store'[j].by = 0
        /\ pass.pc = "storeCA" => \A j \in Kinds : store'[j].by = 0
    BY <1>i, <1>w, <2>1
  <2> QED
    BY <1>i, <1>w, <2>1, <2>2 DEF SignedAfterSeen, EventsOfCA
<1>1. CASE StartPass
  <2>1. pass'.pc = (IF seen["ca"].st = "ok" THEN "check" ELSE "storeCA") /\ UNCHANGED <<store, seen, events>>
    BY <1>1 DEF StartPass, Resting
  <2> QED
    BY <1>i, <2>1 DEF SignedAfterSeen, EventsOfCA
<1>2. CASE StoreCA
  <2>1. CASE Current("ca")
    <3> DEFINE obj == [Absent EXCEPT !.st = "ok", !.by = cas + 1]
    <3>1. obj \in Secret /\ obj.st = "ok"
      BY Zenon, <1>0, <1>k, WrittenSecrets, WrittenFields
    <3>2. Write("ca", obj) /\ Goto("check") /\ UNCHANGED seen
      BY <1>2, <2>1 DEF StoreCA
    <3> HIDE DEF obj
    <3> QED
      BY <1>k, <1>p, <1>w, <3>1, <3>2
  <2>2. CASE ~Current("ca")
    BY <1>2, <1>e, <1>u, <2>2 DEF StoreCA
  <2> QED
    BY <2>1, <2>2
<1>3. CASE CheckServer
  <2>1. pass'.pc \in {"sign", "checkWorker"}
    BY <1>3, <1>p, <1>t DEF CheckServer, Pass
  <2> QED
    BY <1>3, <1>u, <2>1 DEF CheckServer
<1>4. CASE CheckWorker
  BY <1>4, <1>e, <1>p, <1>u DEF CheckWorker
<1>5. CASE Sign
  <2>1. CASE GetCA.st = "ok"
    <3>1. pass'.pc = "store" /\ UNCHANGED <<store, seen, events>> /\ seen["ca"].st = "ok"
      BY <1>5, <1>t, <2>1 DEF Sign, Pass, GetCA
    <3> QED
      BY <1>i, <3>1 DEF SignedAfterSeen, EventsOfCA
  <2>2. CASE GetCA.st # "ok"
    BY <1>5, <1>e, <1>u, <2>2 DEF Sign
  <2> QED
    BY <2>1, <2>2
<1>6. CASE StoreCertificate
  <2>1. CASE GetCA.st = "ok" /\ Current(pass.kind)
    <3> DEFINE obj == [store[pass.kind] EXCEPT !.st = "ok", !.by = pass.signer,
                                               !.bundle = GetCA.by, !.age = 0]
    <3>1. obj \in Secret
      BY Zenon, <1>0, <1>k, WrittenSecrets
    <3>2. /\ Write(pass.kind, obj) /\ UNCHANGED seen /\ pass.pc = "store"
          /\ pass' = [pass EXCEPT !.pc = "owner", !.signer = 0]
      BY <1>6, <2>1 DEF StoreCertificate
    <3> HIDE DEF obj
    <3>3. pass'.pc = "owner"
      BY <1>t, <3>2 DEF Pass
    <3> QED
      BY <1>k, <1>w, <2>1, <3>1, <3>2, <3>3 DEF GetCA
  <2>2. CASE ~(GetCA.st = "ok" /\ Current(pass.kind))
    BY <1>6, <1>e, <1>u, <2>2 DEF StoreCertificate
  <2> QED
    BY <2>1, <2>2
<1>7. CASE SetOwnerReference
  <2> DEFINE obj == [store[pass.kind] EXCEPT !.owned = TRUE]
  <2>1. obj \in Secret /\ obj.by = store[pass.kind].by
    BY Zenon, <1>0, <1>k, WrittenSecrets, WrittenFields
  <2>2. /\ pass'.pc \in {"idle", "sign"} /\ UNCHANGED seen
        /\ UNCHANGED <<store, events>> \/ Write(pass.kind, obj)
    BY <1>7, <1>a, <1>e DEF SetOwnerReference
  <2> HIDE DEF obj
  <2> QED
    BY <1>k, <1>u, <1>w, <2>1, <2>2
<1>8. CASE EnsureCAMisread \/ CheckMisread
  BY <1>8 DEF EnsureCAMisread, CheckMisread
<1>9. CASE CallFails
  BY <1>9, <1>e, <1>u DEF CallFails
<1>10. CASE Restart
  <2>1. pass'.pc = "idle" /\ store' = store /\ seen' = store /\ events' = <<>>
    BY <1>10, <1>p DEF Restart
  <2> QED
    BY <1>i, <2>1 DEF SignedAfterSeen
<1>11. CASE Deliver
  <2>1. events \in Seq([name : Secrets, obj : Secret]) /\ events # <<>> /\ seen \in [Secrets -> Secret]
    BY <1>0, <1>11 DEF Deliver, CertsTypeOK
  <2>2. /\ Head(events) = events[1] /\ 1 \in 1..Len(events) /\ events[1].name \in Secrets
        /\ \A i \in 1..Len(Tail(events)) : Tail(events)[i] = events[i + 1] /\ i + 1 \in 1..Len(events)
    <3> DEFINE S == [name : Secrets, obj : Secret]
    <3>1. events \in Seq(S) /\ events # <<>>
      BY <2>1
    <3> HIDE DEF S
    <3>2. /\ Head(events) = events[1] /\ 1 \in 1..Len(events) /\ events[1] \in S
          /\ \A i \in 1..Len(Tail(events)) : Tail(events)[i] = events[i + 1] /\ i + 1 \in 1..Len(events)
      BY <3>1, NextDelivery
    <3>3. events[1].name \in Secrets
      BY <3>2 DEF S
    <3> QED
      BY <3>2, <3>3
  <2>3. /\ store' = store /\ events' = Tail(events) /\ pass' = pass
        /\ seen' = [seen EXCEPT ![events[1].name] = events[1].obj]
    BY <1>11, <2>2 DEF Deliver
  <2>4. seen'["ca"] = IF events[1].name = "ca" THEN events[1].obj ELSE seen["ca"]
    BY <1>k, <2>1, <2>2, <2>3
  <2>5. EventsOfCA'
    BY <1>i, <2>2, <2>3 DEF EventsOfCA
  <2>6. seen'["ca"].st = "ok" => store["ca"].st = "ok"
    BY <1>i, <2>2, <2>4 DEF EventsOfCA
  <2>7. seen'["ca"].st # "ok" => seen["ca"].st # "ok"
    BY <1>i, <2>2, <2>4 DEF EventsOfCA
  <2> QED
    BY <1>i, <2>3, <2>5, <2>6, <2>7 DEF SignedAfterSeen, EventsOfCA
<1>12. CASE OtherEvent \/ UNCHANGED certVars
  <2>1. UNCHANGED <<store, seen, events, pass>>
    BY <1>12 DEF OtherEvent, certVars
  <2> QED
    BY <1>i, <2>1 DEF SignedAfterSeen, EventsOfCA
<1>13. ASSUME NEW k \in Secrets, OperatorEdits(k) PROVE SignedAfterSeen'
  <2> DEFINE bad == [Absent EXCEPT !.st = "bad", !.owned = store[k].owned]
  <2>1. Absent \in Secret /\ bad \in Secret /\ Absent.by = 0 /\ bad.by = 0
    BY Zenon, <1>0, WrittenSecrets, WrittenFields
  <2>2. (Write(k, Absent) \/ Write(k, bad)) /\ UNCHANGED <<seen, pass>> /\ k # "ca"
    BY <1>13 DEF OperatorEdits
  <2> HIDE DEF bad
  <2> QED
    BY <1>w, <2>1, <2>2
<1>14. CASE Tick
  <2>1. \A k \in Secrets : Older(k).st = store[k].st /\ Older(k).by = store[k].by
    <3> SUFFICES ASSUME NEW k \in Secrets PROVE Older(k).st = store[k].st /\ Older(k).by = store[k].by
      OBVIOUS
    <3>1. store[k] \in Secret
      BY <1>0 DEF CertsTypeOK
    <3> QED
      BY <3>1 DEF Older, Secret
  <2>2. /\ pass' = pass /\ pass.pc = "idle" /\ events' = events /\ events = <<>>
        /\ \A k \in Secrets : store'[k] = Older(k) /\ seen'[k] = Older(k)
    BY <1>14 DEF Tick
  <2>3. /\ \A k \in Kinds : store'[k].by = store[k].by
        /\ store'["ca"].st = store["ca"].st /\ seen'["ca"].st = store["ca"].st
    BY <1>k, <2>1, <2>2
  <2> QED
    BY <1>i, <2>2, <2>3 DEF SignedAfterSeen
<1> QED
  BY <1>1, <1>2, <1>3, <1>4, <1>5, <1>6, <1>7, <1>8, <1>9, <1>10, <1>11, <1>12, <1>13, <1>14
  DEF CertsNext, PassStep

\* For any cache lag, any failures and any restarts: EnsureCA overwrites a CA only before
\* that CA has signed a certificate, unless the operator damaged it or a Get misread it.
THEOREM OnlyUnusedCAReplaced == CertsSpec => []ReplacedCASignedNothing
<1>1. CertsInit => CAInv
  <2> SUFFICES ASSUME CertsInit PROVE CAInv
    OBVIOUS
  <2>1. CertsTypeOK
    BY CertsTypeInit
  <2>2. /\ seen["ca"].st = "none" /\ events = <<>> /\ pass.pc = "idle"
        /\ \A k \in Kinds : store[k].by = 0
    BY DEF CertsInit, Secrets, Absent, Resting
  <2> QED
    BY <2>1, <2>2 DEF CAInv, SignedAfterSeen
<1>2. CAInv => ReplacedCASignedNothing
  BY DEF CAInv, SignedAfterSeen, ReplacedCASignedNothing
<1> QED
  BY <1>1, <1>2, CAStep, PTL DEF CertsSpec
=============================================================================
