----------------------------- MODULE ApiRequests -----------------------------
(***************************************************************************)
(* What a request to the API server goes through before and after its      *)
(* handler's own work (internal/api/server.go, internal/api/rbac.go,       *)
(* internal/auth): the search for a verifier that accepts its bearer       *)
(* token, the cache of OIDC verifiers that all requests and a clean-up     *)
(* goroutine share, the check of the pools' rules and the certificate.     *)
(*                                                                         *)
(* A handler lists the configurations once and then works on that list; it *)
(* reads the cache, touches an entry, builds a verifier and stores it in   *)
(* separate steps, so other requests and edits come in between.  Tokens,   *)
(* issuers and audiences are model values; checking a signature is what    *)
(* the OIDC library does.                                                  *)
(***************************************************************************)
EXTENDS Integers, Sequences

CONSTANTS
  Issuers, Audiences,
  Resources,  \* the BuildKitOIDCConfigs, in the order they are listed
  Methods,    \* the OIDC methods of pools, in the order they are listed
  IssuerOf,   \* [configuration -> issuer]
  Tokens,     \* the bearer tokens requests bring: issuer, audience, live (not expired) and
              \* readable (the service account check can make use of its claims)
  Pools,      \* names requests ask for
  Rules,      \* [existing pool -> the identities its rules let in, or None: RBAC is off]
  Audience,   \* the audience all configurations start with
  Requests,
  None,       \* no cache entry, no configuration, no identity
  StaleAfter, \* the 24 hours after which an unused verifier goes, in ticks
  MaxEdits, MaxFaults  \* bounds

Configs == {Resources[i] : i \in DOMAIN Resources} \cup {Methods[i] : i \in DOMAIN Methods}

ASSUME ApiAssumption ==
  /\ StaleAfter \in Nat /\ MaxEdits \in Nat /\ MaxFaults \in Nat
  /\ Resources \in Seq(Configs) /\ Methods \in Seq(Configs) /\ None \notin Configs
  /\ IssuerOf \in [Configs -> Issuers] /\ Audience \in Audiences
  /\ \A t \in Tokens : t.issuer \in Issuers \cup {None} /\ t.audience \in Audiences
  /\ \A t \in Tokens : t.live \in BOOLEAN /\ t.readable \in BOOLEAN

VARIABLES
  config,  \* [Configs -> [audience, enabled]], as the informer cache shows them
  cache,   \* oidcVerifiers: [Issuers -> Entry or None]
  req,     \* [Requests -> Request]
  had,     \* history: [Configs -> all values it has had]
  edits, faults

apiVars == <<config, cache, req, had, edits, faults>>

\* id tells one entry from another under the same issuer; idle is the time since
\* lastUsed, counted up to where it no longer matters.
Entry == [id : Requests \X Configs, audience : Audiences, idle : 0..(StaleAfter + 1)]

Setting == [audience : Audiences, enabled : BOOLEAN]

Listed == [c : Configs, audience : Audiences, enabled : BOOLEAN]

Searching == {"get", "touch", "build", "store"}

\* todo is what is left of the list, its head the configuration at hand.  failed is
\* history: the issuers this request could not reach, and None if a List failed.
Request ==
  [pc : Searching \cup {"idle", "resources", "methods", "account", "pools", "done"},
   token : Tokens \cup {None},
   todo : Seq(Listed),
   methods : BOOLEAN,
   entry : (Requests \X Configs) \cup {None},
   verifier : [issuer : Issuers, audience : Audiences] \cup {None},
   via : Configs \cup {None},
   failed : SUBSET (Issuers \cup {None}),
   status : {0, 200, 400, 401, 403, 500}]

\* Types, and that a search has a configuration at hand and no two lists in one.
ApiTypeOK ==
  /\ config \in [Configs -> Setting]
  /\ cache \in [Issuers -> Entry \cup {None}]
  /\ \A r \in Requests :
       /\ req[r] \in Request
       /\ req[r].pc \in Searching => req[r].todo # <<>>
       /\ req[r].verifier # None => req[r].verifier.issuer = IssuerOf[Head(req[r].todo).c]
  /\ had \in [Configs -> SUBSET Setting]
  /\ edits \in 0..MaxEdits /\ faults \in 0..MaxFaults

Arrived(t) ==
  [pc |-> "resources", token |-> t, todo |-> <<>>, methods |-> FALSE,
   entry |-> None, verifier |-> None, via |-> None, failed |-> {}, status |-> 0]

\* The response; of the request nothing else is left.
Answered(code) == [Arrived(None) EXCEPT !.pc = "done", !.status = code]

ApiInit ==
  /\ config = [c \in Configs |-> [audience |-> Audience, enabled |-> TRUE]]
  /\ cache = [i \in Issuers |-> None]
  /\ req = [r \in Requests |-> [Arrived(None) EXCEPT !.pc = "idle"]]
  /\ had = [c \in Configs |-> {config[c]}]
  /\ edits = 0 /\ faults = 0

Set(r, v) == req' = [req EXCEPT ![r] = v]
Fault == faults < MaxFaults /\ faults' = faults + 1
Tried(ok) == IF ok THEN UNCHANGED faults ELSE Fault
At(r) == Head(req[r].todo)
IssuerAt(r) == IssuerOf[At(r).c]

\* A token the OIDC library takes for a verifier.
Accepts(v, t) == t.live /\ t.issuer = v.issuer /\ t.audience = v.audience

\* Where a list of configurations leads: into the loop over it, or past it.
Search(v, list) ==
  [v EXCEPT !.todo = list, !.verifier = None, !.entry = None,
     !.pc = IF list # <<>> THEN "get" ELSE IF v.methods THEN "account" ELSE "methods"]

\* Mutant of Continue: the loop goes on to "get" past the end of the list.
ContinuePastEnd(v) == [v EXCEPT !.todo = Tail(@), !.pc = "get", !.verifier = None]

\* continue.
Continue(v) == Search(v, Tail(v.todo))

\* Mutant of Unreachable: the loop is left with the error.
UnreachableEnds(v) ==
  Search([v EXCEPT !.failed = @ \cup {IssuerOf[Head(v.todo).c]}], <<>>)

\* The issuer at hand does not answer: the error is logged, and continue.
Unreachable(v) ==
  Continue([v EXCEPT !.failed = @ \cup {IssuerOf[Head(v.todo).c]}])

\* VerifyToken of the verifier at hand, which may have to fetch the issuer's keys.
VerifyToken(v, ok) ==
  IF ~ok THEN Unreachable(v)
  ELSE IF Accepts(v.verifier, v.token)
    THEN [v EXCEPT !.pc = "pools", !.via = Head(v.todo).c, !.todo = <<>>, !.verifier = None, !.entry = None]
    ELSE Continue(v)
-----------------------------------------------------------------------------
(* authenticateRequest and verifyOIDCToken. *)

\* A request without a bearer token is refused at once and touches nothing: left out.
Arrive(r, t) ==
  /\ req[r].pc = "idle"
  /\ Set(r, Arrived(t))
  /\ UNCHANGED <<config, cache, had, edits, faults>>

Items(configs) ==
  [i \in DOMAIN configs |->
     [c |-> configs[i], audience |-> config[configs[i]].audience, enabled |-> config[configs[i]].enabled]]

\* The two Lists; one that fails is taken for an empty one.
List(r, ok) ==
  /\ req[r].pc \in {"resources", "methods"}
  /\ Tried(ok)
  /\ LET inPools == req[r].pc = "methods"
         list == Items(IF inPools THEN Methods ELSE Resources)
         v == [req[r] EXCEPT !.methods = inPools]
     IN  Set(r, IF ok THEN Search(v, list) ELSE Search([v EXCEPT !.failed = @ \cup {None}], <<>>))
  /\ UNCHANGED <<config, cache, had, edits>>

\* A resource that is not enabled, or a method that is not an OIDC one.
SkipDisabled(r) ==
  /\ req[r].pc = "get" /\ ~At(r).enabled
  /\ Set(r, Continue(req[r]))
  /\ UNCHANGED <<config, cache, had, edits, faults>>

\* getOrCreateVerifier under the read lock.
GetVerifier(r) ==
  /\ req[r].pc = "get" /\ At(r).enabled
  /\ LET e == cache[IssuerAt(r)]
     IN  Set(r, IF e = None THEN [req[r] EXCEPT !.pc = "build"]
                ELSE [req[r] EXCEPT !.pc = "touch", !.entry = e.id,
                        !.verifier = [issuer |-> IssuerAt(r), audience |-> e.audience]])
  /\ UNCHANGED <<config, cache, had, edits, faults>>

\* lastUsed of the entry that was read, which may have left the map since.
TouchVerifier(r, ok) ==
  /\ req[r].pc = "touch"
  /\ Tried(ok)
  /\ cache' = [i \in Issuers |->
       IF cache[i] # None /\ cache[i].id = req[r].entry THEN [cache[i] EXCEPT !.idle = 0] ELSE cache[i]]
  /\ Set(r, VerifyToken(req[r], ok))
  /\ UNCHANGED <<config, had, edits>>

\* NewOIDCVerifier asks the issuer, with no lock held.
BuildVerifier(r, ok) ==
  /\ req[r].pc = "build"
  /\ Tried(ok)
  /\ Set(r, IF ok THEN [req[r] EXCEPT !.pc = "store",
                          !.verifier = [issuer |-> IssuerAt(r), audience |-> At(r).audience]]
                  ELSE Unreachable(req[r]))
  /\ UNCHANGED <<config, cache, had, edits>>

\* The later store wins.
StoreVerifier(r, ok) ==
  /\ req[r].pc = "store"
  /\ Tried(ok)
  /\ cache' = [cache EXCEPT ![IssuerAt(r)] =
                 [id |-> <<r, At(r).c>>, audience |-> req[r].verifier.audience, idle |-> 0]]
  /\ Set(r, VerifyToken(req[r], ok))
  /\ UNCHANGED <<config, had, edits>>

\* verifyServiceAccountToken, when no configuration has taken the token.  It asks none,
\* and reads the claims without the signature, as its comment says: a token with issuer
\* and subject, in a form it can parse, valid from now or before and not expired.
VerifyServiceAccount(r) ==
  /\ req[r].pc = "account"
  /\ Set(r, IF req[r].token.live /\ req[r].token.readable THEN [req[r] EXCEPT !.pc = "pools"]
            ELSE Answered(401))
  /\ UNCHANGED <<config, cache, had, edits, faults>>
-----------------------------------------------------------------------------
(* The rest of handleCertRequest; handleAllocate issues in the same way. *)

Identity(r) == IF req[r].via = None THEN "account" ELSE "user"

CheckPoolAccess(identity, pools) ==
  \A p \in pools : p \in DOMAIN Rules /\ (Rules[p] = None \/ identity \in Rules[p])

\* The List of the pools, CheckPoolAccess, IssueCertificate and GetCACertPEM: any of
\* the calls may fail.
Serve(r, pools, ok) ==
  /\ req[r].pc = "pools"
  /\ Tried(ok)
  /\ Set(r, Answered(IF pools = {} THEN 400 ELSE IF ~ok THEN 500
                     ELSE IF CheckPoolAccess(Identity(r), pools) THEN 200 ELSE 403))
  /\ UNCHANGED <<config, cache, had, edits>>
-----------------------------------------------------------------------------
(* Time, the clean-up goroutine and the operators. *)

\* Mutant of CleanupStaleVerifiers: it drops the ones in use and keeps the stale ones.
CleanupRecentVerifiers ==
  /\ cache' = [i \in Issuers |-> IF cache[i] # None /\ cache[i].idle <= StaleAfter THEN None ELSE cache[i]]
  /\ UNCHANGED <<config, req, had, edits, faults>>

CleanupStaleVerifiers ==
  /\ cache' = [i \in Issuers |-> IF cache[i] # None /\ cache[i].idle > StaleAfter THEN None ELSE cache[i]]
  /\ UNCHANGED <<config, req, had, edits, faults>>

Tick ==
  /\ cache' = [i \in Issuers |->
       IF cache[i] # None /\ cache[i].idle <= StaleAfter THEN [cache[i] EXCEPT !.idle = @ + 1] ELSE cache[i]]
  /\ UNCHANGED <<config, req, had, edits, faults>>

\* One field at a time: the audience, or enabled.
EditConfig(c, new) ==
  /\ edits < MaxEdits
  /\ edits' = edits + 1
  /\ config' = [config EXCEPT ![c] = new]
  /\ had' = [had EXCEPT ![c] = @ \cup {new}]
  /\ UNCHANGED <<cache, req, faults>>

RequestStep(r) ==
  \/ \E ok \in BOOLEAN :
       List(r, ok) \/ TouchVerifier(r, ok) \/ BuildVerifier(r, ok) \/ StoreVerifier(r, ok)
  \/ \E ok \in BOOLEAN : \E pools \in SUBSET Pools : Serve(r, pools, ok)
  \/ SkipDisabled(r) \/ GetVerifier(r) \/ VerifyServiceAccount(r)

ApiNext ==
  \/ \E r \in Requests : RequestStep(r) \/ \E t \in Tokens : Arrive(r, t)
  \/ CleanupStaleVerifiers \/ Tick
  \/ \E c \in Configs : EditConfig(c, [config[c] EXCEPT !.enabled = ~@])
  \/ \E c \in Configs, a \in Audiences : EditConfig(c, [config[c] EXCEPT !.audience = a])

ApiSpec == ApiInit /\ [][ApiNext]_apiVars

\* Time passes and the ticker ticks.  Nothing is assumed of the requests, whose calls to
\* an issuer have no deadline.
ApiFairSpec == ApiSpec /\ WF_apiVars(CleanupStaleVerifiers) /\ WF_apiVars(Tick)
-----------------------------------------------------------------------------
\* Token t is one of a configuration that has always been enabled, and no configuration
\* of its issuer has ever had another audience (the cache knows issuers only).
Configured(t) ==
  /\ t.live
  /\ \E c \in Configs : IssuerOf[c] = t.issuer /\ \A x \in had[c] : x.enabled
  /\ \A c \in Configs : IssuerOf[c] = t.issuer => \A x \in had[c] : x.audience = t.audience

\* No call failed that the request needs to find its configuration.
Unhindered(v) == None \notin v.failed /\ v.token.issuer \notin v.failed

\* Several providers work side by side, whatever order lists, builds, stores, clean-ups
\* and edits come in.  Who is identified through a configuration has a live token of that
\* configuration's issuer, with an audience that an enabled configuration of the issuer has
\* had.  And a configured token does not come to the service account check, which knows no
\* configurations, though other providers do not answer and other configurations are
\* edited, disabled or come first in the list.
IdentifiedAsConfigured ==
  \A r \in Requests :
    LET t == req[r].token
    IN  /\ req[r].via # None =>
             /\ t.live /\ t.issuer = IssuerOf[req[r].via]
             /\ \E c \in Configs : /\ IssuerOf[c] = t.issuer
                                  /\ [audience |-> t.audience, enabled |-> TRUE] \in had[c]
        /\ req[r].pc = "account" /\ Unhindered(req[r]) => ~Configured(t)

\* A verifier nobody uses any more leaves the cache, so that an edit of the audience takes
\* effect at the latest after a day without requests and the hour until the next tick.
UnusedVerifiersGo == <>[](\A i \in Issuers : cache[i] = None)
==============================================================================
