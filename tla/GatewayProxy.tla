---------------------------- MODULE GatewayProxy ----------------------------
(***************************************************************************)
(* The gateway process of a pool (internal/gateway/gateway.go,             *)
(* cmd/gateway/main.go): the accept loop, Stop in a goroutine of its own,  *)
(* one handler goroutine per connection and, once a connection is routed,  *)
(* two copier goroutines.                                                  *)
(*                                                                         *)
(* A connection has two ends, the client's and the worker's.  An end is    *)
(* "open", "left" when the peer has closed it, "closed" when the gateway   *)
(* has.  What is copied is left out.                                       *)
(***************************************************************************)
EXTENDS Integers

CONSTANTS
  Conns,     \* connections a client may make
  MaxFaults  \* bound: calls that fail, accepts that fail, workers that die

ASSUME GatewayAssumption == MaxFaults \in Nat

VARIABLES
  running,   \* Gateway.running
  listener,  \* "open" or "closed"
  acceptor,  \* the loop of Start: "accept", "check" after an error, "returned"
  stopper,   \* Stop: "idle", "cancelled" (ctx is done), "flagged", "stopped"
  conn,      \* [Conns -> Connection]
  token,     \* the controller knows the allocation token: "none", "valid", "gone"
  workerUp,  \* the worker the token stands for accepts and keeps connections
  faults

processVars == <<running, listener, acceptor, stopper>>
outsideVars == <<token, workerUp, faults>>
gatewayVars == <<processVars, conn, outsideVars>>

Ends == {"none", "open", "left", "closed"}

\* up copies from the client to the worker, down from the worker to the client.
Connection ==
  [pc : {"none", "backlog", "handshake", "lookup", "dial", "proxy", "done"},
   client : Ends, worker : Ends, up : BOOLEAN, down : BOOLEAN]

NoConnection ==
  [pc |-> "none", client |-> "none", worker |-> "none", up |-> FALSE, down |-> FALSE]

\* Types, and wg.Wait in proxy: no copier runs on after its handler.
GatewayTypeOK ==
  /\ running \in BOOLEAN
  /\ listener \in {"open", "closed"}
  /\ acceptor \in {"accept", "check", "returned"}
  /\ stopper \in {"idle", "cancelled", "flagged", "stopped"}
  /\ conn \in [Conns -> Connection]
  /\ \A c \in Conns : conn[c].up \/ conn[c].down => conn[c].pc = "proxy"
  /\ token \in {"none", "valid", "gone"}
  /\ workerUp \in BOOLEAN
  /\ faults \in 0..MaxFaults

\* Start has opened the listener; loadServerTLS and loadWorkerTLS have succeeded, or
\* the process would have exited.
GatewayInit ==
  /\ running = TRUE
  /\ listener = "open"
  /\ acceptor = "accept"
  /\ stopper = "idle"
  /\ conn = [c \in Conns |-> NoConnection]
  /\ token = "none"
  /\ workerUp = FALSE
  /\ faults = 0

Fault == faults < MaxFaults /\ faults' = faults + 1

Set(c, r) == conn' = [conn EXCEPT ![c] = r]

Shut(end) == IF end = "none" THEN "none" ELSE "closed"

\* The deferred calls of handleConnection.
Finished(c) ==
  [conn[c] EXCEPT !.pc = "done", !.client = Shut(@), !.worker = Shut(@)]

\* The process ends under its handlers.
Killed(c) == [Finished(c) EXCEPT !.up = FALSE, !.down = FALSE]

Alive(c) == conn[c].pc \notin {"none", "done"}

\* ctx of Start, which lookups and dials are made with.
Cancelled == stopper # "idle"
-----------------------------------------------------------------------------
(* The accept loop and Stop. *)

Accept(c) ==
  /\ acceptor = "accept" /\ listener = "open"
  /\ conn[c].pc = "backlog"
  /\ Set(c, [conn[c] EXCEPT !.pc = "handshake"])
  /\ UNCHANGED <<running, listener, acceptor, stopper, outsideVars>>

AcceptError ==
  /\ acceptor = "accept" /\ listener = "closed"
  /\ acceptor' = "check"
  /\ UNCHANGED <<running, listener, stopper, conn, outsideVars>>

\* An error that says nothing about the listener.
TransientAcceptError ==
  /\ acceptor = "accept" /\ listener = "open"
  /\ acceptor' = "check"
  /\ Fault
  /\ UNCHANGED <<running, listener, stopper, conn, token, workerUp>>

\* Mutant of CheckRunning: any error ends the loop.
CheckNothing ==
  /\ acceptor = "check"
  /\ acceptor' = "returned"
  /\ conn' = [c \in Conns |-> IF Alive(c) THEN Killed(c) ELSE conn[c]]
  /\ UNCHANGED <<running, listener, stopper, outsideVars>>

\* Start returns, main returns, and the process takes its connections with it.
CheckRunning ==
  /\ acceptor = "check"
  /\ IF running
       THEN acceptor' = "accept" /\ UNCHANGED conn
       ELSE /\ acceptor' = "returned"
            /\ conn' = [c \in Conns |-> IF Alive(c) THEN Killed(c) ELSE conn[c]]
  /\ UNCHANGED <<running, listener, stopper, outsideVars>>

\* SIGTERM: main cancels the context the goroutine of Start waits for.
GatewayTerminated ==
  /\ stopper = "idle"
  /\ stopper' = "cancelled"
  /\ UNCHANGED <<running, listener, acceptor, conn, outsideVars>>

\* Stop: the flag first, under the lock, then the listener.
StopFlags ==
  /\ stopper = "cancelled"
  /\ running' = FALSE
  /\ stopper' = "flagged"
  /\ UNCHANGED <<listener, acceptor, conn, outsideVars>>

\* Mutant of StopCloses: the listener stays open.
StopKeepsListener ==
  /\ stopper = "flagged"
  /\ stopper' = "stopped"
  /\ UNCHANGED <<running, listener, acceptor, conn, outsideVars>>

StopCloses ==
  /\ stopper = "flagged"
  /\ listener' = "closed"
  /\ stopper' = "stopped"
  /\ conn' = [c \in Conns |-> IF conn[c].pc = "backlog" THEN Finished(c) ELSE conn[c]]
  /\ UNCHANGED <<running, acceptor, outsideVars>>
-----------------------------------------------------------------------------
(* One connection. *)

\* handleTLSConnection: handshake and extractTokenFromCert.
Handshake(c, ok) ==
  /\ conn[c].pc = "handshake"
  /\ ok => conn[c].client = "open"
  /\ Set(c, IF ok THEN [conn[c] EXCEPT !.pc = "lookup"] ELSE Finished(c))
  /\ UNCHANGED <<processVars, outsideVars>>

\* createWorkerLookup: the controller answers for a token it knows; the call may
\* also fail.
Lookup(c, ok) ==
  /\ conn[c].pc = "lookup"
  /\ ok => token = "valid" /\ ~Cancelled
  /\ Set(c, IF ok THEN [conn[c] EXCEPT !.pc = "dial"] ELSE Finished(c))
  /\ UNCHANGED <<processVars, outsideVars>>

\* DialContext with the worker's mTLS configuration, then proxy starts its copiers.
Dial(c, ok) ==
  /\ conn[c].pc = "dial"
  /\ ok => workerUp /\ ~Cancelled
  /\ Set(c, IF ok THEN [conn[c] EXCEPT !.pc = "proxy", !.worker = "open", !.up = TRUE, !.down = TRUE]
                  ELSE Finished(c))
  /\ UNCHANGED <<processVars, outsideVars>>

\* io.Copy(worker, client) ends when reading from the client does or writing to the
\* worker fails; then the worker's end is closed.
CopyUpEnds(c) ==
  /\ conn[c].up
  /\ conn[c].client # "open" \/ conn[c].worker = "closed"
  /\ Set(c, [conn[c] EXCEPT !.up = FALSE, !.worker = "closed"])
  /\ UNCHANGED <<processVars, outsideVars>>

\* Mutant of CopyDownEnds: the client's end stays open.
CopyDownKeepsClient(c) ==
  /\ conn[c].down
  /\ conn[c].worker # "open" \/ conn[c].client = "closed"
  /\ Set(c, [conn[c] EXCEPT !.down = FALSE])
  /\ UNCHANGED <<processVars, outsideVars>>

\* io.Copy(client, worker), and the client's end.
CopyDownEnds(c) ==
  /\ conn[c].down
  /\ conn[c].worker # "open" \/ conn[c].client = "closed"
  /\ Set(c, [conn[c] EXCEPT !.down = FALSE, !.client = "closed"])
  /\ UNCHANGED <<processVars, outsideVars>>

\* Mutant of ProxyEnds: the first copier to end ends the handler.
ProxyEndsWithFirst(c) ==
  /\ conn[c].pc = "proxy" /\ (~conn[c].up \/ ~conn[c].down)
  /\ Set(c, Finished(c))
  /\ UNCHANGED <<processVars, outsideVars>>

\* wg.Wait returns.
ProxyEnds(c) ==
  /\ conn[c].pc = "proxy" /\ ~conn[c].up /\ ~conn[c].down
  /\ Set(c, Finished(c))
  /\ UNCHANGED <<processVars, outsideVars>>

HandlerStep(c) ==
  \/ \E ok \in BOOLEAN : Handshake(c, ok) \/ Lookup(c, ok) \/ Dial(c, ok)
  \/ ProxyEnds(c)

GatewayStep ==
  \/ AcceptError \/ TransientAcceptError \/ CheckRunning \/ StopFlags \/ StopCloses \/ GatewayTerminated
  \/ \E c \in Conns : Accept(c) \/ HandlerStep(c) \/ CopyUpEnds(c) \/ CopyDownEnds(c)
-----------------------------------------------------------------------------
(* The peers. *)

\* The kernel completes a connection as long as somebody listens.
ClientConnects(c) ==
  /\ conn[c].pc = "none" /\ listener = "open"
  /\ Set(c, [conn[c] EXCEPT !.pc = "backlog", !.client = "open"])
  /\ UNCHANGED <<processVars, outsideVars>>

\* A client that goes away leaves all its connections.
ClientsLeft ==
  [c \in Conns |-> IF conn[c].client = "open" THEN [conn[c] EXCEPT !.client = "left"] ELSE conn[c]]

\* The worker pod is deleted once its allocation is over, or dies before.
WorkerGoes ==
  /\ workerUp
  /\ IF token = "gone" THEN UNCHANGED faults ELSE Fault
  /\ workerUp' = FALSE
  /\ conn' = [c \in Conns |-> IF conn[c].worker = "open" THEN [conn[c] EXCEPT !.worker = "left"] ELSE conn[c]]
  /\ UNCHANGED <<processVars, token>>
=============================================================================
