---------------------------- MODULE BuildSession ----------------------------
(***************************************************************************)
(* `bkctl build` (cmd/bkctl/main.go) together with the gateway its build   *)
(* goes through: the main goroutine, the signal handler's goroutine, the   *)
(* docker build it starts, and the controller's side of the allocation.    *)
(*                                                                         *)
(* Either goroutine ends the whole process when it calls os.Exit.  The     *)
(* controller is reduced to what it does to the token and the worker;      *)
(* Allocation has the whole of it.                                         *)
(***************************************************************************)
EXTENDS GatewayProxy

VARIABLES
  main,      \* where runBuild is
  handler,   \* where the signal handler's goroutine is, "off" before it starts
  signal,    \* a signal has been sent: "none", "pending", "taken"
  installed, \* signal.Notify has been called
  build,     \* the docker build: "none", "running", "ok", "failed"
  builder,   \* the buildx builder exists
  released   \* a call of releaseWorker has returned

clientVars == <<main, handler, signal, installed, build, builder, released>>
sessionVars == <<gatewayVars, clientVars>>

MainSteps ==
  {"allocate", "files", "setup", "install", "build", "remove", "release", "giveUp", "exited"}
HandlerSteps == {"off", "wait", "remove", "release", "exited"}

\* Types of the two processes' state.
SessionTypeOK ==
  /\ GatewayTypeOK
  /\ main \in MainSteps
  /\ handler \in HandlerSteps
  /\ signal \in {"none", "pending", "taken"}
  /\ installed \in BOOLEAN /\ builder \in BOOLEAN /\ released \in BOOLEAN
  /\ build \in {"none", "running", "ok", "failed"}

SessionInit ==
  /\ GatewayInit
  /\ main = "allocate"
  /\ handler = "off"
  /\ signal = "none"
  /\ installed = FALSE /\ builder = FALSE /\ released = FALSE
  /\ build = "none"

Exited == main = "exited"

\* os.Exit, or a return from runBuild: both goroutines are gone.  The docker build
\* is a process of its own and stays.
Exit ==
  /\ main' = "exited"
  /\ handler' = IF handler = "off" THEN "off" ELSE "exited"

\* The gateway apart from faults.
gatewayRest == <<processVars, conn, token, workerUp>>

\* A call that succeeds, or one of the faults.
Tried(ok) == IF ok THEN UNCHANGED faults ELSE Fault

\* releaseWorker: the controller revokes the token and deletes the worker, and answers
\* 404, which counts as success, for a token it does not know.  A call that fails may
\* have been carried out.
ReleaseWorker(ok) ==
  LET dropped == IF token = "valid" THEN "gone" ELSE token
  IN  /\ token' \in IF ok THEN {dropped} ELSE {token, dropped}
      /\ Tried(ok)
      /\ released' = TRUE
-----------------------------------------------------------------------------
(* The main goroutine. *)

\* allocateWorker: the controller has allocated and bkctl reads the answer; or the
\* answer is lost, the server's WriteTimeout being shorter than its wait for a worker;
\* or there is no allocation.
AllocateWorker(outcome) ==
  /\ main = "allocate"
  /\ Tried(outcome = "answered")
  /\ IF outcome = "refused" THEN UNCHANGED <<token, workerUp>>
     ELSE token' = "valid" /\ workerUp' = TRUE
  /\ IF outcome = "answered" THEN main' = "files" /\ UNCHANGED handler ELSE Exit
  /\ UNCHANGED <<processVars, conn, signal, installed, build, builder, released>>

\* MkdirTemp and writeCerts.
WriteCerts(ok) ==
  /\ main = "files"
  /\ Tried(ok)
  /\ main' = IF ok THEN "setup" ELSE "giveUp"
  /\ UNCHANGED <<gatewayRest, handler, signal, installed, build, builder, released>>

SetupBuilder(ok) ==
  /\ main = "setup"
  /\ Tried(ok)
  /\ main' = IF ok THEN "install" ELSE "giveUp"
  /\ builder' = ok
  /\ UNCHANGED <<gatewayRest, handler, signal, installed, build, released>>

\* The error paths before the handler is there: releaseWorker, os.Exit(1).
GiveUp(ok) ==
  /\ main = "giveUp"
  /\ ReleaseWorker(ok)
  /\ Exit
  /\ UNCHANGED <<processVars, conn, workerUp, signal, installed, build, builder>>

\* signal.Notify, the go statement, and the start of the build.
InstallHandler ==
  /\ main = "install"
  /\ main' = "build"
  /\ installed' = TRUE
  /\ handler' = "wait"
  /\ build' = "running"
  /\ UNCHANGED <<gatewayVars, signal, builder, released>>

\* runDockerBuild returns, with or without an error: what follows is the same but
\* for the exit code.
BuildReturns ==
  /\ main = "build" /\ build \in {"ok", "failed"}
  /\ main' = "remove"
  /\ UNCHANGED <<gatewayVars, handler, signal, installed, build, builder, released>>

\* removeBuilder ignores the error.
MainRemoves(ok) ==
  /\ main = "remove"
  /\ main' = "release"
  /\ Tried(ok)
  /\ builder' = (builder /\ ~ok)
  /\ UNCHANGED <<gatewayRest, handler, signal, installed, build, released>>

MainReleases(ok) ==
  /\ main = "release"
  /\ ReleaseWorker(ok)
  /\ Exit
  /\ UNCHANGED <<processVars, conn, workerUp, signal, installed, build, builder>>

MainStep(ok) ==
  \/ WriteCerts(ok) \/ SetupBuilder(ok) \/ GiveUp(ok)
  \/ MainRemoves(ok) \/ MainReleases(ok)
-----------------------------------------------------------------------------
(* Signals. *)

\* A signal nobody is notified of ends the process; a request to allocate that is
\* under way may still be carried out.
Interrupt ==
  /\ signal = "none" /\ ~Exited
  /\ IF installed THEN signal' = "pending" /\ UNCHANGED <<main, handler>>
                  ELSE signal' = "taken" /\ Exit
  /\ token' \in IF main = "allocate" THEN {token, "valid"} ELSE {token}
  /\ workerUp' = (workerUp \/ token' # token)
  /\ UNCHANGED <<processVars, conn, faults, installed, build, builder, released>>

TakeSignal ==
  /\ handler = "wait" /\ signal = "pending"
  /\ handler' = "remove" /\ signal' = "taken"
  /\ UNCHANGED <<gatewayVars, main, installed, build, builder, released>>

HandlerRemoves(ok) ==
  /\ handler = "remove"
  /\ handler' = "release"
  /\ Tried(ok)
  /\ builder' = (builder /\ ~ok)
  /\ UNCHANGED <<gatewayRest, main, signal, installed, build, released>>

\* Mutant of HandlerReleases: the handler exits and leaves the release to main.
HandlerExits(ok) ==
  /\ handler = "release" /\ ok
  /\ Exit
  /\ UNCHANGED <<gatewayVars, signal, installed, build, builder, released>>

\* Mutant of HandlerReleases: the goroutine returns and the process waits for the build.
HandlerReturns(ok) ==
  /\ handler = "release"
  /\ ReleaseWorker(ok)
  /\ handler' = "exited"
  /\ UNCHANGED <<processVars, conn, workerUp, main, signal, installed, build, builder>>

\* releaseWorker, cancel and os.Exit(130): cancel is too late to be sure of killing
\* the docker build.
HandlerReleases(ok) ==
  /\ handler = "release"
  /\ ReleaseWorker(ok)
  /\ Exit
  /\ build' \in {build, IF build = "running" THEN "failed" ELSE build}
  /\ conn' = IF build' # build THEN ClientsLeft ELSE conn
  /\ UNCHANGED <<processVars, workerUp, signal, installed, builder>>
-----------------------------------------------------------------------------
(* The docker build and the controller. *)

BuildConnects(c) ==
  /\ build = "running"
  /\ ClientConnects(c)
  /\ UNCHANGED clientVars

\* It succeeds over a connection that is routed, fails for reasons of its own, of a
\* connection that was closed on it, or of the signal sent to its process group.
BuildEnds(result) ==
  /\ build = "running"
  /\ result = "ok" => \E c \in Conns : conn[c].pc = "proxy" /\ conn[c].worker = "open"
  /\ build' = result
  /\ conn' = ClientsLeft
  /\ UNCHANGED <<processVars, outsideVars, main, handler, signal, installed, builder, released>>

\* The token's lifetime is over, and the worker controller reclaims the worker.
TokenExpires ==
  /\ token = "valid"
  /\ token' = "gone"
  /\ UNCHANGED <<processVars, conn, workerUp, faults, clientVars>>

SessionNext ==
  \/ \E outcome \in {"answered", "lost", "refused"} : AllocateWorker(outcome)
  \/ \E ok \in BOOLEAN : MainStep(ok) \/ HandlerRemoves(ok) \/ HandlerReleases(ok)
  \/ InstallHandler \/ BuildReturns \/ Interrupt \/ TakeSignal
  \/ \E c \in Conns : BuildConnects(c)
  \/ \E result \in {"ok", "failed"} : BuildEnds(result)
  \/ TokenExpires
  \/ (GatewayStep \/ WorkerGoes) /\ UNCHANGED clientVars

SessionSpec == SessionInit /\ [][SessionNext]_sessionVars

\* Both goroutines of bkctl and those of the gateway run on; a token expires in the end.
\* Calls to the controller return, the HTTP client having a timeout; that docker does is
\* an assumption, for removeBuilder and setupBuilder wait for it without one.  A copier that writes to the
\* client gets on, or its connection breaks.  Nothing makes a build end.
SessionFairSpec ==
  /\ SessionSpec
  /\ WF_sessionVars(\E outcome \in {"answered", "lost", "refused"} : AllocateWorker(outcome))
  /\ WF_sessionVars(\E ok \in BOOLEAN : MainStep(ok))
  /\ WF_sessionVars(InstallHandler) /\ WF_sessionVars(BuildReturns)
  /\ WF_sessionVars(TakeSignal)
  /\ WF_sessionVars(\E ok \in BOOLEAN : HandlerRemoves(ok) \/ HandlerReleases(ok))
  /\ WF_sessionVars(TokenExpires)
  /\ WF_sessionVars(AcceptError /\ UNCHANGED clientVars)
  /\ WF_sessionVars(CheckRunning /\ UNCHANGED clientVars)
  /\ WF_sessionVars(StopFlags /\ UNCHANGED clientVars)
  /\ WF_sessionVars(StopCloses /\ UNCHANGED clientVars)
  /\ WF_sessionVars(token = "gone" /\ WorkerGoes /\ UNCHANGED clientVars)
  /\ \A c \in Conns :
       /\ WF_sessionVars(Accept(c) /\ UNCHANGED clientVars)
       /\ WF_sessionVars(HandlerStep(c) /\ UNCHANGED clientVars)
       /\ WF_sessionVars(CopyUpEnds(c) /\ UNCHANGED clientVars)
       /\ WF_sessionVars(CopyDownEnds(c) /\ UNCHANGED clientVars)
-----------------------------------------------------------------------------
\* From the moment the handler is installed, main and the handler race to os.Exit;
\* whichever wins, the process does not end before a release of the worker has been
\* tried to the end, nor with its builder left behind unless docker refused.
CleanExit ==
  installed /\ Exited => released /\ (builder => faults > 0)

\* A signal always ends the process, be the build stuck or over.
InterruptEnds == signal # "none" ~> Exited

\* Once the allocation is over, by release from either goroutine or by expiry, or its
\* worker has died under it, every connection the build has made comes to an end in the
\* gateway: the worker leaving ends one copier, which closes the end the other reads.
ConnectionsEnd ==
  \A c \in Conns : (token = "gone" \/ ~workerUp) /\ Alive(c) ~> ~Alive(c)

\* After SIGTERM the accept loop returns: the listener that Stop closes makes Accept fail
\* once more, and by then, or a few rounds later, the loop finds running cleared.
GatewayStops == stopper # "idle" ~> acceptor = "returned"

\* An error of Accept ends the loop only after Stop has begun, whenever the error comes
\* while SIGTERM, Stop and the loop race; and as Stop clears running before it closes the
\* listener, the loop never takes the closed listener for an error to log and retry.
AcceptsUntilStopped ==
  /\ acceptor = "returned" => stopper \in {"flagged", "stopped"}
  /\ listener = "closed" => ~running
=============================================================================
