---------------------------- MODULE TokenManager ----------------------------
(***************************************************************************)
(* The allocation-token table of internal/gateway/token.go.                *)
(*                                                                         *)
(* IssueToken, RevokeToken, RefreshToken, UpdateWorkerEndpoint and         *)
(* CleanupExpired hold the write lock for their whole effect, so each is   *)
(* one action.  ValidateToken is three: it takes the read lock only to     *)
(* fetch the *TokenData pointer, compares the expiry with no lock held,    *)
(* and takes the write lock again (in RevokeToken) to drop a token it      *)
(* found expired.  Other callers run between those steps.                  *)
(*                                                                         *)
(* The map holds pointers, so the token's data outlives its map entry:     *)
(* data[t] is the heap object, table the set of keys of tm.tokens.  The    *)
(* unlocked read of data.ExpiresAt races with RefreshToken's store.  The   *)
(* two instants both carry a monotonic reading and Time.After compares     *)
(* that single word, so the racy read yields the old or the new expiry,    *)
(* which is what an atomic read placed before or after the store yields.   *)
(***************************************************************************)
EXTENDS Integers

CONSTANTS
  Tokens,      \* token strings: one per IssueToken call, 32 random bytes never repeat
  Callers,     \* goroutines that call ValidateToken
  Endpoints,   \* worker endpoints a token may carry
  TTLs,        \* ttl arguments of IssueToken: any time.Duration, 0 and negative included
  Extensions,  \* extension arguments of RefreshToken
  DefaultTTL, MaxTTL,
  MaxTime,     \* bound on the clock
  NoToken

ASSUME TokenAssumption ==
  /\ TTLs \subseteq Int
  /\ Extensions \subseteq Int
  /\ DefaultTTL \in Nat \ {0}
  /\ MaxTTL \in Nat \ {0}
  /\ MaxTime \in Nat
  /\ Endpoints # {}
  /\ NoToken \notin Tokens

VARIABLES
  now,         \* time.Now()
  issued,      \* tokens IssueToken has returned
  table,       \* keys of tm.tokens
  data,        \* [Tokens -> TokenData], meaningful for issued tokens
  validating,  \* [Callers -> control state of a ValidateToken call]
  lastUse      \* [Tokens -> instant of the latest successful validation], history

vars == <<now, issued, table, data, validating, lastUse>>

TokenData == [endpoint : Endpoints, issuedAt : Int, expiresAt : Int]
Idle == [pc |-> "idle", token |-> NoToken]
CallState == [pc : {"idle", "fetched", "expired"}, token : Tokens \cup {NoToken}]

TypeOK ==
  /\ now \in 0..MaxTime
  /\ issued \subseteq Tokens
  /\ table \subseteq issued
  /\ data \in [Tokens -> TokenData]
  /\ validating \in [Callers -> CallState]
  /\ lastUse \in [Tokens -> Int]
  /\ \A c \in Callers : validating[c].pc # "idle" => validating[c].token \in issued
  /\ \A t \in Tokens \ issued : lastUse[t] = 0

\* No token is issued; the fields of data and lastUse have no meaning yet.
Init ==
  /\ now = 0
  /\ issued = {}
  /\ table = {}
  /\ data = [t \in Tokens |-> [endpoint |-> CHOOSE e \in Endpoints : TRUE,
                               issuedAt |-> 0, expiresAt |-> 0]]
  /\ validating = [c \in Callers |-> Idle]
  /\ lastUse = [t \in Tokens |-> 0]

Tick ==
  /\ now < MaxTime
  /\ now' = now + 1
  /\ UNCHANGED <<issued, table, data, validating, lastUse>>

EffectiveTTL(ttl) ==
  LET requested == IF ttl = 0 THEN DefaultTTL ELSE ttl
  IN  IF requested > MaxTTL THEN MaxTTL ELSE requested

IssueToken(t, e, ttl) ==
  /\ t \notin issued
  /\ issued' = issued \cup {t}
  /\ table' = table \cup {t}
  /\ data' = [data EXCEPT ![t] = [endpoint |-> e, issuedAt |-> now,
                                  expiresAt |-> now + EffectiveTTL(ttl)]]
  /\ UNCHANGED <<now, validating, lastUse>>

\* Mutant of Expired: a leeway added to the comparison.
ExpiredWithLeeway(t) == now > data[t].expiresAt + 1

\* now.After(ExpiresAt): the expiry instant itself is still valid.
Expired(t) == now > data[t].expiresAt

\* Mutant of ValidateFetch: the data is looked at although the map has no entry.
FetchWithoutExistsCheck(c, t) ==
  /\ validating[c].pc = "idle"
  /\ t \in issued
  /\ validating' = [validating EXCEPT ![c] = [pc |-> "fetched", token |-> t]]
  /\ UNCHANGED <<now, issued, table, data, lastUse>>

\* ValidateToken, under the read lock: an absent token returns at once.
ValidateFetch(c, t) ==
  /\ validating[c].pc = "idle"
  /\ t \in table
  /\ validating' = [validating EXCEPT ![c] = [pc |-> "fetched", token |-> t]]
  /\ UNCHANGED <<now, issued, table, data, lastUse>>

\* ValidateToken, the unlocked expiry check: success returns the data.
ValidateCheck(c) ==
  LET t == validating[c].token
  IN  /\ validating[c].pc = "fetched"
      /\ IF Expired(t)
           THEN /\ validating' = [validating EXCEPT ![c].pc = "expired"]
                /\ UNCHANGED lastUse
           ELSE /\ validating' = [validating EXCEPT ![c] = Idle]
                /\ lastUse' = [lastUse EXCEPT ![t] = now]
      /\ UNCHANGED <<now, issued, table, data>>

\* ValidateToken, the clean-up of a token found expired.
ValidateRevoke(c) ==
  /\ validating[c].pc = "expired"
  /\ table' = table \ {validating[c].token}
  /\ validating' = [validating EXCEPT ![c] = Idle]
  /\ UNCHANGED <<now, issued, data, lastUse>>

RevokeToken(t) ==
  /\ t \in table
  /\ table' = table \ {t}
  /\ UNCHANGED <<now, issued, data, validating, lastUse>>

\* Mutant of UpdateWorkerEndpoint: the map is written without the existence check.
UpdateWithoutExistsCheck(t, e) ==
  /\ table' = table \cup {t}
  /\ data' = [data EXCEPT ![t].endpoint = e]
  /\ UNCHANGED <<now, issued, validating, lastUse>>

UpdateWorkerEndpoint(t, e) ==
  /\ t \in table
  /\ data' = [data EXCEPT ![t].endpoint = e]
  /\ UNCHANGED <<now, issued, table, validating, lastUse>>

\* Mutant of RefreshedExpiry: the cap is taken from the refresh, not the issue.
ExpiryCappedFromNow(t, extension) ==
  now + (IF extension > MaxTTL THEN MaxTTL ELSE extension)

RefreshedExpiry(t, extension) ==
  IF now + extension - data[t].issuedAt > MaxTTL
    THEN data[t].issuedAt + MaxTTL
    ELSE now + extension

\* Mutant of RefreshToken: the refreshed entry is put back in the map.
RefreshByReinsertion(t, extension) ==
  /\ t \in issued
  /\ table' = table \cup {t}
  /\ data' = [data EXCEPT ![t].expiresAt = RefreshedExpiry(t, extension)]
  /\ UNCHANGED <<now, issued, validating, lastUse>>

RefreshToken(t, extension) ==
  /\ t \in table
  /\ data' = [data EXCEPT ![t].expiresAt = RefreshedExpiry(t, extension)]
  /\ UNCHANGED <<now, issued, table, validating, lastUse>>

CleanupExpired ==
  /\ \E t \in table : Expired(t)
  /\ table' = {t \in table : ~Expired(t)}
  /\ UNCHANGED <<now, issued, data, validating, lastUse>>

Next ==
  \/ Tick
  \/ \E t \in Tokens, e \in Endpoints, ttl \in TTLs : IssueToken(t, e, ttl)
  \/ \E c \in Callers, t \in Tokens : ValidateFetch(c, t)
  \/ \E c \in Callers : ValidateCheck(c) \/ ValidateRevoke(c)
  \/ \E t \in Tokens : RevokeToken(t)
  \/ \E t \in Tokens, e \in Endpoints : UpdateWorkerEndpoint(t, e)
  \/ \E t \in Tokens, x \in Extensions : RefreshToken(t, x)
  \/ CleanupExpired

Spec == Init /\ [][Next]_vars
-----------------------------------------------------------------------------
\* Whatever ttl was asked for and however often the token was refreshed, its
\* expiry is at most maxTTL after it was issued (the caps of IssueToken and
\* RefreshToken are both relative to the issue instant).
LifetimeCapped ==
  \A t \in issued : data[t].expiresAt <= data[t].issuedAt + MaxTTL

\* No ValidateToken call returns a token's data later than maxTTL after the
\* token was issued, although the check runs with no lock held and the entry
\* may have been refreshed or revoked since it was fetched.
NoUseAfterCap ==
  \A t \in issued : lastUse[t] <= data[t].issuedAt + MaxTTL

\* A token that has left the table never comes back: no interleaving of
\* RefreshToken or UpdateWorkerEndpoint with a revocation re-inserts it.
RevokedForever ==
  [][\A t \in issued : t \notin table => t \notin table']_vars

Lease == INSTANCE TokenLease WITH
  lease   <- [t \in Tokens |-> IF t \notin issued THEN "new" ELSE IF t \in table THEN "live" ELSE "over"],
  granted <- [t \in Tokens |-> data[t].issuedAt],
  asking  <- [c \in Callers |-> validating[c].token]

\* Seen from its callers the table is a set of leases: no interleaving of the three
\* steps of ValidateToken with issues, refreshes, revocations and clean-ups lets a
\* token be granted twice, come back, or be accepted by a validation that began after
\* its end or succeeds later than maxTTL after its issue.
ImplementsLease == Lease!LeaseSpec
=============================================================================
