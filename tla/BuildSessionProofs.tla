-------------------------- MODULE BuildSessionProofs --------------------------
(***************************************************************************)
(* Proofs about bkctl build and the gateway for any number of connections  *)
(* and of faults.                                                          *)
(***************************************************************************)
EXTENDS BuildSession, TLAPS

\* What a connection may look like: copiers only run under proxy.
Sound == {r \in Connection : r.up \/ r.down => r.pc = "proxy"}

\* The part of SessionTypeOK that is not about connections.
ProcessTypes ==
  /\ running \in BOOLEAN
  /\ listener \in {"open", "closed"}
  /\ acceptor \in {"accept", "check", "returned"}
  /\ stopper \in {"idle", "cancelled", "flagged", "stopped"}
  /\ token \in {"none", "valid", "gone"}
  /\ workerUp \in BOOLEAN
  /\ faults \in 0..MaxFaults
  /\ main \in MainSteps
  /\ handler \in HandlerSteps
  /\ signal \in {"none", "pending", "taken"}
  /\ installed \in BOOLEAN /\ builder \in BOOLEAN /\ released \in BOOLEAN
  /\ build \in {"none", "running", "ok", "failed"}

\* The two parts make up the type invariant.
LEMMA TypeParts == SessionTypeOK <=> ProcessTypes /\ conn \in [Conns -> Sound]
<1>1. SessionTypeOK => ProcessTypes /\ conn \in [Conns -> Sound]
  <2> SUFFICES ASSUME SessionTypeOK PROVE ProcessTypes /\ conn \in [Conns -> Sound]
    OBVIOUS
  <2>1. ProcessTypes
    BY Zenon DEF SessionTypeOK, GatewayTypeOK, ProcessTypes
  <2>2. conn \in [Conns -> Connection] /\ \A c \in Conns : conn[c].up \/ conn[c].down => conn[c].pc = "proxy"
    BY Zenon DEF SessionTypeOK, GatewayTypeOK
  <2>3. \A c \in Conns : conn[c] \in Sound
    BY <2>2 DEF Sound
  <2> QED
    BY <2>1, <2>2, <2>3
<1>2. ProcessTypes /\ conn \in [Conns -> Sound] => SessionTypeOK
  <2> SUFFICES ASSUME ProcessTypes, conn \in [Conns -> Sound] PROVE SessionTypeOK
    OBVIOUS
  <2>1. conn \in [Conns -> Connection]
    BY DEF Sound
  <2>2. \A c \in Conns : conn[c] \in Sound
    OBVIOUS
  <2>3. \A c \in Conns : conn[c].up \/ conn[c].down => conn[c].pc = "proxy"
    BY <2>2 DEF Sound
  <2> QED
    BY <2>1, <2>3, Zenon DEF SessionTypeOK, GatewayTypeOK, ProcessTypes
<1> QED
  BY <1>1, <1>2

\* The forms a connection takes from one step to the next.
LEMMA ConnectionForms ==
  ASSUME NEW r \in Sound
  PROVE  /\ r \in Connection /\ (r.up \/ r.down => r.pc = "proxy")
         /\ \A p \in {"backlog", "handshake", "lookup", "dial", "done"} :
              r.pc # "proxy" => [r EXCEPT !.pc = p] \in Sound
         /\ r.pc # "proxy" => [r EXCEPT !.pc = "backlog", !.client = "open"] \in Sound
         /\ [r EXCEPT !.pc = "proxy", !.worker = "open", !.up = TRUE, !.down = TRUE] \in Sound
         /\ [r EXCEPT !.up = FALSE, !.worker = "closed"] \in Sound
         /\ [r EXCEPT !.down = FALSE, !.client = "closed"] \in Sound
         /\ [r EXCEPT !.client = "left"] \in Sound
         /\ [r EXCEPT !.worker = "left"] \in Sound
<1>1. r \in Connection /\ (r.up \/ r.down => r.pc = "proxy")
  BY DEF Sound
<1> QED
  BY <1>1 DEF Sound, Connection, Ends

\* The deferred calls of a handler whose copiers have ended, and the end of the process.
LEMMA ClosedForms ==
  ASSUME conn \in [Conns -> Sound], NEW c \in Conns
  PROVE  /\ ~conn[c].up /\ ~conn[c].down => Finished(c) \in Sound
         /\ Killed(c) \in Sound
<1>1. conn[c] \in Connection
  BY DEF Sound
<1>2. Shut(conn[c].client) \in Ends /\ Shut(conn[c].worker) \in Ends
  BY <1>1 DEF Shut, Ends, Connection
<1>3. Finished(c) \in Connection /\ Finished(c).up = conn[c].up /\ Finished(c).down = conn[c].down
  BY <1>1, <1>2 DEF Finished, Connection
<1>4. Killed(c) \in Connection /\ ~Killed(c).up /\ ~Killed(c).down
  BY <1>3 DEF Killed, Connection
<1> QED
  BY <1>3, <1>4 DEF Sound

\* A step of one connection.
LEMMA SetSound ==
  ASSUME conn \in [Conns -> Sound], NEW c \in Conns, NEW r \in Sound, Set(c, r)
  PROVE  conn' \in [Conns -> Sound]
BY DEF Set

\* The client goes away.
LEMMA LeftSound == ASSUME conn \in [Conns -> Sound] PROVE ClientsLeft \in [Conns -> Sound]
<1>1. \A c \in Conns : conn[c] \in Sound /\ [conn[c] EXCEPT !.client = "left"] \in Sound
  BY Zenon, ConnectionForms
<1> QED
  BY <1>1 DEF ClientsLeft

\* Every step of the gateway leaves its connections sound: a handler ends only after its
\* copiers have (wg.Wait), or with the process.
LEMMA GatewaySound ==
  ASSUME conn \in [Conns -> Sound], GatewayStep \/ WorkerGoes PROVE conn' \in [Conns -> Sound]
<1>c. \A c \in Conns : conn[c] \in Sound
  OBVIOUS
<1>f. ASSUME NEW c \in Conns, conn[c].pc # "proxy" PROVE Finished(c) \in Sound
  BY Zenon, <1>c, <1>f, ConnectionForms, ClosedForms
<1>1. CASE AcceptError \/ TransientAcceptError \/ StopFlags \/ GatewayTerminated
  BY <1>1 DEF AcceptError, TransientAcceptError, StopFlags, GatewayTerminated
<1>2. CASE CheckRunning
  BY <1>2, <1>c, ClosedForms DEF CheckRunning
<1>3. CASE StopCloses
  BY <1>3, <1>c, <1>f DEF StopCloses
<1>4. ASSUME NEW c \in Conns, Accept(c) PROVE conn' \in [Conns -> Sound]
  <2>1. [conn[c] EXCEPT !.pc = "handshake"] \in Sound
    BY Zenon, <1>4, <1>c, ConnectionForms DEF Accept
  <2> QED
    BY <1>4, <2>1, SetSound DEF Accept
<1>5. ASSUME NEW c \in Conns, NEW ok \in BOOLEAN, Handshake(c, ok) PROVE conn' \in [Conns -> Sound]
  <2>1. [conn[c] EXCEPT !.pc = "lookup"] \in Sound /\ Finished(c) \in Sound
    BY Zenon, <1>5, <1>c, <1>f, ConnectionForms DEF Handshake
  <2> QED
    BY <1>5, <2>1, SetSound DEF Handshake
<1>6. ASSUME NEW c \in Conns, NEW ok \in BOOLEAN, Lookup(c, ok) PROVE conn' \in [Conns -> Sound]
  <2>1. [conn[c] EXCEPT !.pc = "dial"] \in Sound /\ Finished(c) \in Sound
    BY Zenon, <1>6, <1>c, <1>f, ConnectionForms DEF Lookup
  <2> QED
    BY <1>6, <2>1, SetSound DEF Lookup
<1>7. ASSUME NEW c \in Conns, NEW ok \in BOOLEAN, Dial(c, ok) PROVE conn' \in [Conns -> Sound]
  <2>1. /\ [conn[c] EXCEPT !.pc = "proxy", !.worker = "open", !.up = TRUE, !.down = TRUE] \in Sound
        /\ Finished(c) \in Sound
    BY Zenon, <1>7, <1>c, <1>f, ConnectionForms DEF Dial
  <2> QED
    BY <1>7, <2>1, SetSound DEF Dial
<1>8. ASSUME NEW c \in Conns, ProxyEnds(c) PROVE conn' \in [Conns -> Sound]
  <2>1. Finished(c) \in Sound
    BY <1>8, ClosedForms DEF ProxyEnds
  <2> QED
    BY <1>8, <2>1, SetSound DEF ProxyEnds
<1>9. ASSUME NEW c \in Conns, CopyUpEnds(c) \/ CopyDownEnds(c) PROVE conn' \in [Conns -> Sound]
  <2>1. /\ [conn[c] EXCEPT !.up = FALSE, !.worker = "closed"] \in Sound
        /\ [conn[c] EXCEPT !.down = FALSE, !.client = "closed"] \in Sound
    BY Zenon, <1>c, ConnectionForms
  <2> QED
    BY <1>9, <2>1, SetSound DEF CopyUpEnds, CopyDownEnds
<1>10. CASE WorkerGoes
  <2>1. \A c \in Conns : [conn[c] EXCEPT !.worker = "left"] \in Sound
    BY <1>c, ConnectionForms
  <2> QED
    BY <1>10, <1>c, <2>1 DEF WorkerGoes
<1> QED
  BY <1>1, <1>2, <1>3, <1>4, <1>5, <1>6, <1>7, <1>8, <1>9, <1>10 DEF GatewayStep, HandlerStep

\* Every step of the session leaves the gateway's connections sound.
LEMMA ConnectionsSound ==
  ASSUME conn \in [Conns -> Sound], [SessionNext]_sessionVars PROVE conn' \in [Conns -> Sound]
<1>1. CASE (GatewayStep \/ WorkerGoes) /\ UNCHANGED clientVars
  BY <1>1, GatewaySound
<1>2. ASSUME NEW c \in Conns, BuildConnects(c) PROVE conn' \in [Conns -> Sound]
  <2>1. conn[c] \in Sound /\ ClientConnects(c)
    BY <1>2 DEF BuildConnects
  <2>2. [conn[c] EXCEPT !.pc = "backlog", !.client = "open"] \in Sound
    BY Zenon, <2>1, ConnectionForms DEF ClientConnects
  <2> QED
    BY <2>1, <2>2, SetSound DEF ClientConnects
<1>3. ASSUME conn' = ClientsLeft \/ conn' = conn PROVE conn' \in [Conns -> Sound]
  BY <1>3, LeftSound
<1>4. ASSUME NEW ok \in BOOLEAN, HandlerReleases(ok) PROVE conn' \in [Conns -> Sound]
  BY <1>3, <1>4 DEF HandlerReleases
<1>5. ASSUME NEW result, BuildEnds(result) PROVE conn' \in [Conns -> Sound]
  BY <1>3, <1>5 DEF BuildEnds
<1>6. ASSUME NEW ok \in BOOLEAN, MainStep(ok) \/ HandlerRemoves(ok) PROVE conn' = conn
  BY <1>6 DEF MainStep, WriteCerts, SetupBuilder, GiveUp, MainRemoves, MainReleases, HandlerRemoves,
    gatewayRest
<1>7. ASSUME NEW outcome, AllocateWorker(outcome) PROVE conn' = conn
  BY <1>7 DEF AllocateWorker
<1>8. CASE InstallHandler \/ BuildReturns \/ Interrupt \/ TakeSignal \/ TokenExpires \/ UNCHANGED sessionVars
  <2>1. conn' = conn
    BY <1>8 DEF InstallHandler, BuildReturns, Interrupt, TakeSignal, TokenExpires, sessionVars, gatewayVars
  <2> QED
    BY <2>1
<1> QED
  BY <1>1, <1>2, <1>3, <1>4, <1>5, <1>6, <1>7, <1>8 DEF SessionNext
-----------------------------------------------------------------------------
(* The goroutines of bkctl. *)

\* Where main and the handler are: the handler is there from InstallHandler on, after
\* which main has no exit but the one that releases; either gets to its release by way
\* of removeBuilder; and os.Exit takes both.
ClientInv ==
  /\ installed => main \in {"build", "remove", "release", "exited"}
  /\ ~installed => handler = "off"
  /\ handler = "exited" => main = "exited"
  /\ main = "release" \/ handler = "release" => (builder => faults > 0)
  /\ installed /\ main = "exited" => released /\ (builder => faults > 0)

\* A fault is counted, and none is forgotten.
LEMMA FaultCounted ==
  ASSUME faults \in 0..MaxFaults
  PROVE  /\ faults \in Nat
         /\ Fault => faults' \in 0..MaxFaults /\ faults' > 0
         /\ \A ok \in BOOLEAN : Tried(ok) =>
              faults' \in 0..MaxFaults /\ (~ok => faults' > 0) /\ (faults > 0 => faults' > 0)
         /\ UNCHANGED faults => faults' \in 0..MaxFaults
BY GatewayAssumption DEF Fault, Tried

\* Every step keeps the types of what is not a connection.
LEMMA ProcessTypeStep ==
  ASSUME ProcessTypes, [SessionNext]_sessionVars PROVE ProcessTypes'
<1>f. /\ Fault => faults' \in 0..MaxFaults
      /\ \A ok \in BOOLEAN : Tried(ok) => faults' \in 0..MaxFaults
      /\ UNCHANGED faults => faults' \in 0..MaxFaults
  BY FaultCounted DEF ProcessTypes
<1>x. Exit => main' \in MainSteps /\ handler' \in HandlerSteps
  BY DEF Exit, MainSteps, HandlerSteps
<1>r. ASSUME NEW ok \in BOOLEAN, ReleaseWorker(ok)
      PROVE  token' \in {"none", "valid", "gone"} /\ faults' \in 0..MaxFaults /\ released' \in BOOLEAN
  BY <1>f, <1>r DEF ReleaseWorker, ProcessTypes
<1>1. CASE (GatewayStep \/ WorkerGoes) /\ UNCHANGED clientVars
  <2>1. CASE GatewayStep
    <3>1. CASE AcceptError \/ TransientAcceptError \/ CheckRunning \/ StopFlags \/ StopCloses \/ GatewayTerminated
      <4>1. /\ faults' \in 0..MaxFaults /\ UNCHANGED <<token, workerUp>>
            /\ listener' \in {"open", "closed"}
            /\ acceptor' \in {"accept", "check", "returned"}
            /\ stopper' \in {"idle", "cancelled", "flagged", "stopped"}
            /\ running' = running \/ running' = FALSE
        BY <1>f, <3>1 DEF ProcessTypes, AcceptError, TransientAcceptError, CheckRunning,
          StopFlags, StopCloses, GatewayTerminated, outsideVars
      <4>2. running' \in BOOLEAN
        BY <4>1 DEF ProcessTypes
      <4> QED
        BY <1>1, <4>1, <4>2 DEF ProcessTypes, clientVars
    <3>2. ASSUME NEW c \in Conns, Accept(c) \/ HandlerStep(c) \/ CopyUpEnds(c) \/ CopyDownEnds(c)
          PROVE  ProcessTypes'
      <4>1. UNCHANGED <<processVars, outsideVars>>
        BY <3>2 DEF Accept, HandlerStep, Handshake, Lookup, Dial, ProxyEnds, CopyUpEnds, CopyDownEnds, processVars
      <4> QED
        BY <1>1, <4>1 DEF ProcessTypes, clientVars, processVars, outsideVars
    <3> QED
      BY <2>1, <3>1, <3>2 DEF GatewayStep
  <2>2. CASE WorkerGoes
    <3>1. faults' \in 0..MaxFaults /\ workerUp' \in BOOLEAN /\ UNCHANGED <<processVars, token>>
      BY <1>f, <2>2 DEF WorkerGoes
    <3> QED
      BY <1>1, <3>1 DEF ProcessTypes, clientVars, processVars
  <2> QED
    BY <1>1, <2>1, <2>2
<1>2. ASSUME NEW outcome \in {"answered", "lost", "refused"}, AllocateWorker(outcome) PROVE ProcessTypes'
  <2>1. /\ faults' \in 0..MaxFaults
        /\ token' \in {"none", "valid", "gone"} /\ workerUp' \in BOOLEAN
        /\ main' \in MainSteps /\ handler' \in HandlerSteps
    <3>1. (outcome = "answered") \in BOOLEAN
      OBVIOUS
    <3> QED
      BY <1>2, <1>f, <1>x, <3>1 DEF AllocateWorker, ProcessTypes, MainSteps
  <2>2. UNCHANGED <<processVars, signal, installed, build, builder, released>>
    BY <1>2 DEF AllocateWorker
  <2> QED
    BY <2>1, <2>2 DEF ProcessTypes, processVars
<1>3. ASSUME NEW ok \in BOOLEAN, WriteCerts(ok) \/ SetupBuilder(ok) \/ MainRemoves(ok) \/ HandlerRemoves(ok)
      PROVE  ProcessTypes'
  <2>1. /\ faults' \in 0..MaxFaults /\ main' \in MainSteps /\ handler' \in HandlerSteps /\ builder' \in BOOLEAN
        /\ UNCHANGED <<gatewayRest, signal, installed, build, released>>
    BY <1>3, <1>f DEF WriteCerts, SetupBuilder, MainRemoves, HandlerRemoves, ProcessTypes, MainSteps, HandlerSteps
  <2> QED
    BY <2>1 DEF ProcessTypes, gatewayRest, processVars
<1>4. ASSUME NEW ok \in BOOLEAN, GiveUp(ok) \/ MainReleases(ok) \/ HandlerReleases(ok)
      PROVE  ProcessTypes'
  <2>1. ReleaseWorker(ok) /\ Exit /\ UNCHANGED <<processVars, workerUp, signal, installed, builder>>
    BY <1>4 DEF GiveUp, MainReleases, HandlerReleases
  <2>2. build' \in {"none", "running", "ok", "failed"}
    BY <1>4 DEF GiveUp, MainReleases, HandlerReleases, ProcessTypes
  <2> QED
    BY <1>r, <1>x, <2>1, <2>2 DEF ProcessTypes, processVars
<1>5. CASE Interrupt
  <2>1. /\ main' \in MainSteps /\ handler' \in HandlerSteps /\ signal' \in {"none", "pending", "taken"}
        /\ token' \in {"none", "valid", "gone"} /\ workerUp' \in BOOLEAN
    BY <1>5, <1>x DEF Interrupt, ProcessTypes
  <2>2. UNCHANGED <<processVars, faults, installed, build, builder, released>>
    BY <1>5 DEF Interrupt
  <2> QED
    BY <2>1, <2>2 DEF ProcessTypes, processVars
<1>6. CASE InstallHandler \/ BuildReturns \/ TakeSignal \/ TokenExpires \/ UNCHANGED sessionVars
  BY <1>6 DEF InstallHandler, BuildReturns, TakeSignal, TokenExpires, sessionVars, gatewayVars, processVars,
    outsideVars, clientVars, ProcessTypes, MainSteps, HandlerSteps
<1>7. ASSUME NEW c \in Conns, BuildConnects(c) PROVE ProcessTypes'
  <2>1. UNCHANGED <<processVars, outsideVars, clientVars>>
    BY <1>7 DEF BuildConnects, ClientConnects
  <2> QED
    BY <2>1 DEF ProcessTypes, clientVars, processVars, outsideVars
<1>8. ASSUME NEW result \in {"ok", "failed"}, BuildEnds(result) PROVE ProcessTypes'
  <2>1. UNCHANGED <<processVars, outsideVars, main, handler, signal, installed, builder, released>>
        /\ build' \in {"none", "running", "ok", "failed"}
    BY <1>8 DEF BuildEnds
  <2> QED
    BY <2>1 DEF ProcessTypes, processVars, outsideVars
<1> QED
  BY <1>1, <1>2, <1>3, <1>4, <1>5, <1>6, <1>7, <1>8 DEF SessionNext, MainStep

\* bkctl's and the gateway's variables keep their types, and in the gateway no copier
\* runs on after its handler (proxy's WaitGroup), for any number of connections.
THEOREM SessionTypeCorrect == SessionSpec => []SessionTypeOK
<1>1. SessionInit => SessionTypeOK
  <2> SUFFICES ASSUME SessionInit PROVE ProcessTypes /\ conn \in [Conns -> Sound]
    BY TypeParts
  <2>1. ProcessTypes
    <3>1. faults \in 0..MaxFaults
      BY GatewayAssumption DEF SessionInit, GatewayInit
    <3> QED
      BY <3>1 DEF SessionInit, GatewayInit, ProcessTypes, MainSteps, HandlerSteps
  <2>2. NoConnection \in Sound
    BY DEF NoConnection, Sound, Connection, Ends
  <2> QED
    BY <2>1, <2>2 DEF SessionInit, GatewayInit
<1>2. SessionTypeOK /\ [SessionNext]_sessionVars => SessionTypeOK'
  <2> SUFFICES ASSUME SessionTypeOK, [SessionNext]_sessionVars PROVE SessionTypeOK'
    OBVIOUS
  <2>1. ProcessTypes' /\ conn' \in [Conns -> Sound]
    BY TypeParts, ProcessTypeStep, ConnectionsSound
  <2>2. (ProcessTypes /\ conn \in [Conns -> Sound])' => SessionTypeOK'
    BY TypeParts, PTL
  <2> QED
    BY <2>1, <2>2
<1> QED
  BY <1>1, <1>2, PTL DEF SessionSpec

\* Every step keeps the goroutines in step.
LEMMA ClientStep ==
  ASSUME SessionTypeOK, ClientInv, [SessionNext]_sessionVars PROVE ClientInv'
<1>t. faults \in 0..MaxFaults /\ faults \in Nat
  BY TypeParts, FaultCounted DEF ProcessTypes
<1>f. /\ Fault => faults' > 0
      /\ \A ok \in BOOLEAN : Tried(ok) => (~ok => faults' > 0) /\ (faults > 0 => faults' > 0)
  BY <1>t, FaultCounted
<1>u. ASSUME UNCHANGED clientVars, faults > 0 => faults' > 0 PROVE ClientInv'
  BY <1>u DEF ClientInv, clientVars
<1>1. CASE (GatewayStep \/ WorkerGoes) /\ UNCHANGED clientVars
  <2>1. UNCHANGED faults \/ Fault
    BY Zenon, <1>1 DEF GatewayStep, AcceptError, TransientAcceptError, CheckRunning, StopFlags, StopCloses,
      GatewayTerminated, Accept, HandlerStep, Handshake, Lookup, Dial, ProxyEnds, CopyUpEnds, CopyDownEnds,
      WorkerGoes, outsideVars
  <2> QED
    BY <1>1, <1>f, <1>u, <2>1
<1>2. ASSUME NEW outcome, AllocateWorker(outcome) PROVE ClientInv'
  BY <1>2 DEF AllocateWorker, Exit, ClientInv
<1>3. ASSUME NEW ok \in BOOLEAN, WriteCerts(ok) \/ SetupBuilder(ok) PROVE ClientInv'
  BY <1>3 DEF WriteCerts, SetupBuilder, ClientInv
<1>4. ASSUME NEW ok \in BOOLEAN, MainRemoves(ok) \/ HandlerRemoves(ok) PROVE ClientInv'
  <2>1. /\ builder' => faults' > 0
        /\ UNCHANGED <<installed, released>>
    BY <1>4, <1>f DEF MainRemoves, HandlerRemoves
  <2> QED
    BY <1>4, <2>1 DEF MainRemoves, HandlerRemoves, ClientInv
<1>5. ASSUME NEW ok \in BOOLEAN, GiveUp(ok) \/ MainReleases(ok) \/ HandlerReleases(ok) PROVE ClientInv'
  <2>1. released' /\ (faults > 0 => faults' > 0) /\ Exit /\ UNCHANGED <<installed, builder>>
    BY <1>5, <1>f DEF GiveUp, MainReleases, HandlerReleases, ReleaseWorker
  <2>2. installed => (builder => faults > 0)
    BY <1>5 DEF GiveUp, MainReleases, HandlerReleases, ClientInv
  <2> QED
    BY <2>1, <2>2 DEF Exit, ClientInv
<1>6. CASE Interrupt
  BY <1>6 DEF Interrupt, Exit, ClientInv, Exited
<1>7. CASE InstallHandler \/ BuildReturns \/ TakeSignal
  BY <1>7 DEF InstallHandler, BuildReturns, TakeSignal, ClientInv, gatewayVars, outsideVars
<1>8. CASE TokenExpires \/ UNCHANGED sessionVars
  BY <1>8, <1>u DEF TokenExpires, sessionVars, gatewayVars, outsideVars
<1>9. ASSUME NEW c \in Conns, BuildConnects(c) PROVE ClientInv'
  BY <1>9, <1>u DEF BuildConnects, ClientConnects, outsideVars
<1>10. ASSUME NEW result, BuildEnds(result) PROVE ClientInv'
  BY <1>10 DEF BuildEnds, outsideVars, ClientInv
<1> QED
  BY <1>1, <1>2, <1>3, <1>4, <1>5, <1>6, <1>7, <1>8, <1>9, <1>10 DEF SessionNext, MainStep

\* runBuild and its signal handler: whichever goroutine gets to os.Exit first, a release of
\* the worker has run to its end before, and the builder is gone unless docker refused.
THEOREM ExitIsClean == SessionSpec => []CleanExit
<1>1. SessionInit => ClientInv
  BY DEF SessionInit, ClientInv
<1>2. SessionTypeOK /\ ClientInv /\ [SessionNext]_sessionVars => ClientInv'
  BY ClientStep
<1>3. ClientInv => CleanExit
  BY DEF ClientInv, CleanExit, Exited
<1> QED
  BY <1>1, <1>2, <1>3, SessionTypeCorrect, PTL DEF SessionSpec
-----------------------------------------------------------------------------
(* The accept loop and Stop. *)

\* running is cleared by the first step of Stop, before the listener is closed, and the
\* loop returns only when it is.
ShutdownInv ==
  /\ ~running <=> stopper \in {"flagged", "stopped"}
  /\ listener = "closed" => ~running
  /\ acceptor = "returned" => ~running

\* Only the loop, SIGTERM and Stop touch what the invariant is about.
LEMMA ShutdownStep ==
  ASSUME ShutdownInv, [SessionNext]_sessionVars PROVE ShutdownInv'
<1>u. ASSUME UNCHANGED processVars PROVE ShutdownInv'
  BY <1>u DEF ShutdownInv, processVars
<1>1. CASE AcceptError \/ TransientAcceptError \/ GatewayTerminated
  BY <1>1 DEF AcceptError, TransientAcceptError, GatewayTerminated, ShutdownInv
<1>2. CASE CheckRunning
  BY <1>2 DEF CheckRunning, ShutdownInv
<1>3. CASE StopFlags
  BY <1>3 DEF StopFlags, ShutdownInv
<1>4. CASE StopCloses
  BY <1>4 DEF StopCloses, ShutdownInv
<1>5. ASSUME NEW c \in Conns, Accept(c) \/ HandlerStep(c) \/ CopyUpEnds(c) \/ CopyDownEnds(c)
      PROVE  UNCHANGED processVars
  BY <1>5 DEF Accept, HandlerStep, Handshake, Lookup, Dial, ProxyEnds, CopyUpEnds, CopyDownEnds, processVars
<1>6. ASSUME NEW ok \in BOOLEAN, MainStep(ok) \/ HandlerRemoves(ok) \/ HandlerReleases(ok)
      PROVE  UNCHANGED processVars
  BY <1>6 DEF MainStep, WriteCerts, SetupBuilder, GiveUp, MainRemoves, MainReleases, HandlerRemoves,
    HandlerReleases, gatewayRest
<1>7. ASSUME NEW outcome, AllocateWorker(outcome) PROVE UNCHANGED processVars
  BY <1>7 DEF AllocateWorker
<1>8. ASSUME NEW c \in Conns, BuildConnects(c) PROVE UNCHANGED processVars
  BY <1>8 DEF BuildConnects, ClientConnects
<1>9. ASSUME NEW result, BuildEnds(result) PROVE UNCHANGED processVars
  BY <1>9 DEF BuildEnds
<1>10. CASE \/ InstallHandler \/ BuildReturns \/ Interrupt \/ TakeSignal \/ TokenExpires \/ WorkerGoes
            \/ UNCHANGED sessionVars
  <2>1. UNCHANGED processVars
    BY <1>10 DEF InstallHandler, BuildReturns, Interrupt, TakeSignal, TokenExpires, WorkerGoes,
      sessionVars, gatewayVars
  <2> QED
    BY <1>u, <2>1
<1> QED
  BY <1>u, <1>1, <1>2, <1>3, <1>4, <1>5, <1>6, <1>7, <1>8, <1>9, <1>10 DEF SessionNext, GatewayStep

\* Gateway.Start and Gateway.Stop: no error of Accept ends the loop before Stop has begun,
\* and the loop never meets a closed listener with running still set, however many
\* connections and accept errors there are and wherever SIGTERM falls between them.
THEOREM LoopOutlivesErrors == SessionSpec => []AcceptsUntilStopped
<1>1. SessionInit => ShutdownInv
  BY DEF SessionInit, GatewayInit, ShutdownInv
<1>2. ShutdownInv /\ [SessionNext]_sessionVars => ShutdownInv'
  BY ShutdownStep
<1>3. ShutdownInv => AcceptsUntilStopped
  BY DEF ShutdownInv, AcceptsUntilStopped
<1> QED
  BY <1>1, <1>2, <1>3, PTL DEF SessionSpec
=============================================================================
