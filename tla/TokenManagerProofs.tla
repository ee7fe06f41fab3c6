------------------------- MODULE TokenManagerProofs -------------------------
(***************************************************************************)
(* Proofs about the token table for every set of tokens, callers, ttl and  *)
(* extension arguments, every default and every cap.                       *)
(***************************************************************************)
EXTENDS TokenManager, TLAPS

\* The cap of IssueToken: no effective ttl exceeds maxTTL, the default
\* included, whatever duration the caller asked for.
LEMMA EffectiveTTLCapped ==
  ASSUME NEW ttl \in TTLs
  PROVE  EffectiveTTL(ttl) \in Int /\ EffectiveTTL(ttl) <= MaxTTL
BY TokenAssumption DEF EffectiveTTL

\* The cap of RefreshToken: the new expiry is at most maxTTL after the issue.
LEMMA RefreshedExpiryCapped ==
  ASSUME TypeOK, NEW t \in Tokens, NEW x \in Extensions
  PROVE  /\ RefreshedExpiry(t, x) \in Int
         /\ RefreshedExpiry(t, x) <= data[t].issuedAt + MaxTTL
BY TokenAssumption DEF RefreshedExpiry, TypeOK, TokenData

\* Every step of every operation keeps the state well typed.
LEMMA TypeStep == TypeOK /\ [Next]_vars => TypeOK'
<1> SUFFICES ASSUME TypeOK, [Next]_vars PROVE TypeOK'
  OBVIOUS
<1> USE TokenAssumption DEF TypeOK, CallState, Idle
<1>1. CASE Tick
  BY <1>1 DEF Tick
<1>2. ASSUME NEW t \in Tokens, NEW e \in Endpoints, NEW ttl \in TTLs, IssueToken(t, e, ttl)
      PROVE  TypeOK'
  <2>1. [endpoint |-> e, issuedAt |-> now, expiresAt |-> now + EffectiveTTL(ttl)] \in TokenData
    BY EffectiveTTLCapped DEF TokenData
  <2> QED
    BY <1>2, <2>1 DEF IssueToken
<1>3. ASSUME NEW c \in Callers, NEW t \in Tokens, ValidateFetch(c, t)
      PROVE  TypeOK'
  BY <1>3 DEF ValidateFetch
<1>4. ASSUME NEW c \in Callers, ValidateCheck(c)
      PROVE  TypeOK'
  <2>1. validating[c].token \in Tokens
    BY <1>4 DEF ValidateCheck
  <2>2. CASE Expired(validating[c].token)
    BY <1>4, <2>1, <2>2 DEF ValidateCheck
  <2>3. CASE ~Expired(validating[c].token)
    BY <1>4, <2>1, <2>3 DEF ValidateCheck
  <2> QED
    BY <2>2, <2>3
<1>5. ASSUME NEW c \in Callers, ValidateRevoke(c)
      PROVE  TypeOK'
  BY <1>5 DEF ValidateRevoke
<1>6. ASSUME NEW t \in Tokens, RevokeToken(t)
      PROVE  TypeOK'
  BY <1>6 DEF RevokeToken
<1>7. ASSUME NEW t \in Tokens, NEW e \in Endpoints, UpdateWorkerEndpoint(t, e)
      PROVE  TypeOK'
  BY <1>7 DEF UpdateWorkerEndpoint, TokenData
<1>8. ASSUME NEW t \in Tokens, NEW x \in Extensions, RefreshToken(t, x)
      PROVE  TypeOK'
  BY <1>8, RefreshedExpiryCapped DEF RefreshToken, TokenData
<1>9. CASE CleanupExpired
  BY <1>9 DEF CleanupExpired
<1>10. CASE UNCHANGED vars
  BY <1>10 DEF vars
<1> QED
  BY <1>1, <1>2, <1>3, <1>4, <1>5, <1>6, <1>7, <1>8, <1>9, <1>10 DEF Next

\* The table a new TokenManager starts with is well typed.
LEMMA TypeInit == Init => TypeOK
BY TokenAssumption DEF Init, TypeOK, TokenData, CallState, Idle

\* The state of the token table is always well typed; in particular a
\* ValidateToken call in flight holds data IssueToken created.
THEOREM TokenTypeCorrect == Spec => []TypeOK
BY TypeInit, TypeStep, PTL DEF Spec
-----------------------------------------------------------------------------
\* The inductive invariant: NoUseAfterCap needs the cap on the expiry, for a
\* successful check only shows that the expiry has not passed.
CapInv == TypeOK /\ LifetimeCapped /\ NoUseAfterCap

\* Every step of every operation keeps the two caps.
LEMMA CapStep == CapInv /\ [Next]_vars => CapInv'
<1> SUFFICES ASSUME CapInv, [Next]_vars PROVE CapInv'
  OBVIOUS
<1>t. TypeOK'
  BY TypeStep DEF CapInv
<1>m. MaxTTL \in Nat /\ now \in Int
  BY TokenAssumption DEF CapInv, TypeOK
<1> USE <1>t, <1>m DEF CapInv, LifetimeCapped, NoUseAfterCap, TypeOK, TokenData
<1>1. CASE Tick
  BY <1>1 DEF Tick
<1>2. ASSUME NEW t \in Tokens, NEW e \in Endpoints, NEW ttl \in TTLs, IssueToken(t, e, ttl)
      PROVE  LifetimeCapped' /\ NoUseAfterCap'
  <2>1. lastUse[t] = 0 /\ now >= 0
    BY <1>2, TokenAssumption DEF IssueToken
  <2>2. ASSUME NEW s \in issued'
        PROVE  /\ data'[s].expiresAt <= data'[s].issuedAt + MaxTTL
               /\ lastUse'[s] <= data'[s].issuedAt + MaxTTL
    BY <1>2, <2>1, EffectiveTTLCapped DEF IssueToken
  <2> QED
    BY <2>2
<1>3. ASSUME NEW c \in Callers, NEW t \in Tokens, ValidateFetch(c, t)
      PROVE  LifetimeCapped' /\ NoUseAfterCap'
  BY <1>3 DEF ValidateFetch
<1>4. ASSUME NEW c \in Callers, ValidateCheck(c)
      PROVE  LifetimeCapped' /\ NoUseAfterCap'
  <2>1. validating[c].token \in issued
    BY <1>4 DEF ValidateCheck
  <2>2. CASE Expired(validating[c].token)
    BY <1>4, <2>2 DEF ValidateCheck
  <2>3. CASE ~Expired(validating[c].token)
    <3>1. now <= data[validating[c].token].issuedAt + MaxTTL
      BY <2>1, <2>3 DEF Expired
    <3> QED
      BY <1>4, <2>1, <2>3, <3>1 DEF ValidateCheck
  <2> QED
    BY <2>2, <2>3
<1>5. ASSUME NEW c \in Callers, ValidateRevoke(c)
      PROVE  LifetimeCapped' /\ NoUseAfterCap'
  BY <1>5 DEF ValidateRevoke
<1>6. ASSUME NEW t \in Tokens, RevokeToken(t)
      PROVE  LifetimeCapped' /\ NoUseAfterCap'
  BY <1>6 DEF RevokeToken
<1>7. ASSUME NEW t \in Tokens, NEW e \in Endpoints, UpdateWorkerEndpoint(t, e)
      PROVE  LifetimeCapped' /\ NoUseAfterCap'
  BY <1>7 DEF UpdateWorkerEndpoint
<1>8. ASSUME NEW t \in Tokens, NEW x \in Extensions, RefreshToken(t, x)
      PROVE  LifetimeCapped' /\ NoUseAfterCap'
  BY <1>8, RefreshedExpiryCapped DEF RefreshToken
<1>9. CASE CleanupExpired
  BY <1>9 DEF CleanupExpired
<1>10. CASE UNCHANGED vars
  BY <1>10 DEF vars
<1> QED
  BY <1>1, <1>2, <1>3, <1>4, <1>5, <1>6, <1>7, <1>8, <1>9, <1>10 DEF Next

\* No refresh or ttl argument carries a token past maxTTL after its issue.
THEOREM TokenLifetimeCapped == Spec => []LifetimeCapped
<1>1. Init => CapInv
  BY TypeInit DEF Init, CapInv, LifetimeCapped, NoUseAfterCap
<1>2. CapInv => LifetimeCapped
  BY DEF CapInv
<1> QED
  BY <1>1, <1>2, CapStep, PTL DEF Spec

\* No validation, at whatever point it was overtaken by other callers,
\* succeeds later than maxTTL after the token's issue.
THEOREM TokenNoUseAfterCap == Spec => []NoUseAfterCap
<1>1. Init => CapInv
  BY TypeInit DEF Init, CapInv, LifetimeCapped, NoUseAfterCap
<1>2. CapInv => NoUseAfterCap
  BY DEF CapInv
<1> QED
  BY <1>1, <1>2, CapStep, PTL DEF Spec

\* A token removed from the table stays removed.
THEOREM TokenRevokedForever == Spec => RevokedForever
<1>1. [Next]_vars => [\A t \in issued : t \notin table => t \notin table']_vars
  BY DEF Next, vars, Tick, IssueToken, ValidateFetch, ValidateCheck, ValidateRevoke,
         RevokeToken, UpdateWorkerEndpoint, RefreshToken, CleanupExpired
<1> QED
  BY <1>1, PTL DEF Spec, RevokedForever
-----------------------------------------------------------------------------
(* Refinement of TokenLease. *)

\* An idle caller has no token at hand, and one that is not idle has an issued one.
CallInv == CapInv /\ \A c \in Callers : validating[c].pc = "idle" <=> validating[c].token = NoToken

\* Every step of every call keeps the caller's token in step with its position.
LEMMA CallStep == CallInv /\ [Next]_vars => CallInv'
<1> SUFFICES ASSUME CallInv, [Next]_vars PROVE CallInv'
  OBVIOUS
<1>c. CapInv'
  BY CapStep DEF CallInv
<1>t. TypeOK /\ NoToken \notin Tokens
  BY TokenAssumption DEF CallInv, CapInv
<1> USE DEF Idle
<1>1. ASSUME NEW c \in Callers, NEW t \in Tokens, ValidateFetch(c, t)
      PROVE  CallInv'
  BY <1>1, <1>c, <1>t DEF ValidateFetch, CallInv, TypeOK
<1>2. ASSUME NEW c \in Callers, ValidateCheck(c)
      PROVE  CallInv'
  <2>1. validating' = [validating EXCEPT ![c] = Idle] \/ validating' = [validating EXCEPT ![c].pc = "expired"]
    BY <1>2 DEF ValidateCheck
  <2>2. validating[c].pc = "fetched" /\ validating \in [Callers -> CallState]
    BY <1>2, <1>t DEF ValidateCheck, TypeOK
  <2> QED
    BY <2>1, <2>2, <1>c DEF CallInv, CallState
<1>3. ASSUME NEW c \in Callers, ValidateRevoke(c)
      PROVE  CallInv'
  BY <1>3, <1>c, <1>t DEF ValidateRevoke, CallInv, TypeOK
<1>4. CASE UNCHANGED validating
  BY <1>4, <1>c DEF CallInv
<1> QED
  BY <1>1, <1>2, <1>3, <1>4
     DEF Next, vars, Tick, IssueToken, RevokeToken, UpdateWorkerEndpoint, RefreshToken, CleanupExpired

\* Every step of the table is, through the mapping, a step of the leases or none.
LEMMA LeaseStep == CallInv /\ [Next]_vars => [Lease!LeaseNext]_(Lease!leaseVars)
<1> SUFFICES ASSUME CallInv, [Next]_vars PROVE [Lease!LeaseNext]_(Lease!leaseVars)
  OBVIOUS
<1> DEFINE leaseOf == [t \in Tokens |-> IF t \notin issued THEN "new" ELSE IF t \in table THEN "live" ELSE "over"]
           grantedAt == [t \in Tokens |-> data[t].issuedAt]
           askedFor == [c \in Callers |-> validating[c].token]
<1>t. TypeOK /\ LifetimeCapped /\ NoToken \notin Tokens
  BY TokenAssumption DEF CallInv, CapInv
<1>1. CASE Tick
  BY <1>1 DEF Tick, Lease!LeaseNext, Lease!TimePasses
<1>2. ASSUME NEW t \in Tokens, NEW e \in Endpoints, NEW ttl \in TTLs, IssueToken(t, e, ttl)
      PROVE  Lease!Grant(t)
  <2>1. leaseOf[t] = "new" /\ leaseOf' = [leaseOf EXCEPT ![t] = "live"]
    BY <1>2, <1>t DEF IssueToken, TypeOK
  <2>2. grantedAt' = [grantedAt EXCEPT ![t] = now]
    BY <1>2, <1>t DEF IssueToken, TypeOK, TokenData
  <2> QED
    BY <1>2, <2>1, <2>2 DEF IssueToken, Lease!Grant
<1>3. ASSUME NEW c \in Callers, NEW t \in Tokens, ValidateFetch(c, t)
      PROVE  Lease!Ask(c, t)
  <2>1. askedFor[c] = NoToken /\ askedFor' = [askedFor EXCEPT ![c] = t]
    BY <1>3, <1>t DEF ValidateFetch, TypeOK, CallState, CallInv
  <2>2. leaseOf[t] = "live"
    BY <1>3, <1>t DEF ValidateFetch, TypeOK
  <2> QED
    BY <1>3, <2>1, <2>2 DEF ValidateFetch, Lease!Ask
<1>4. ASSUME NEW c \in Callers, ValidateCheck(c), ~Expired(validating[c].token)
      PROVE  Lease!Accept(c)
  <2> DEFINE t == validating[c].token
  <2>1. t \in issued /\ t \in Tokens
    BY <1>4, <1>t DEF ValidateCheck, TypeOK
  <2>v. validating' = [validating EXCEPT ![c] = Idle] /\ validating \in [Callers -> CallState]
    BY <1>4, <1>t DEF ValidateCheck, TypeOK
  <2>2. askedFor[c] = t /\ askedFor[c] # NoToken /\ askedFor' = [askedFor EXCEPT ![c] = NoToken]
    BY <1>t, <2>1, <2>v DEF Idle
  <2>3. now <= data[t].issuedAt + MaxTTL
    BY <1>4, <1>t, <2>1, TokenAssumption DEF Expired, LifetimeCapped, TypeOK, TokenData
  <2>4. grantedAt[t] = data[t].issuedAt
    BY <2>1
  <2> QED
    BY <1>4, <2>2, <2>3, <2>4 DEF ValidateCheck, Lease!Accept
<1>5. ASSUME NEW c \in Callers, ValidateCheck(c), Expired(validating[c].token)
      PROVE  UNCHANGED Lease!leaseVars
  <2>1. askedFor' = askedFor
    BY <1>5, <1>t DEF ValidateCheck, TypeOK, CallState
  <2> QED
    BY <1>5, <2>1 DEF ValidateCheck, Lease!leaseVars
<1>6. ASSUME NEW c \in Callers, ValidateRevoke(c)
      PROVE  Lease!Refuse(c)
  <2> DEFINE t == validating[c].token
  <2>1. t \in issued /\ t \in Tokens
    BY <1>6, <1>t DEF ValidateRevoke, TypeOK
  <2>2. askedFor[c] = t /\ askedFor[c] # NoToken /\ askedFor' = [askedFor EXCEPT ![c] = NoToken]
    BY <1>6, <1>t, <2>1 DEF ValidateRevoke, TypeOK, CallState, Idle
  <2>3. leaseOf' = [s \in Tokens |-> IF s \in {t} THEN "over" ELSE leaseOf[s]]
    BY <1>6, <2>1 DEF ValidateRevoke
  <2> QED
    BY <1>6, <2>2, <2>3 DEF ValidateRevoke, Lease!Refuse, Lease!Ended
<1>7. ASSUME NEW S \in SUBSET table, table' = table \ S, UNCHANGED <<now, issued, data, validating, lastUse>>
      PROVE  Lease!End(S) /\ S \in SUBSET Tokens
  <2>1. S \subseteq Tokens /\ S \subseteq issued
    BY <1>t DEF TypeOK
  <2>2. \A t \in S : leaseOf[t] = "live"
    BY <2>1
  <2>3. leaseOf' = [s \in Tokens |-> IF s \in S THEN "over" ELSE leaseOf[s]]
    BY <1>7, <2>1
  <2> QED
    BY <1>7, <2>1, <2>2, <2>3 DEF Lease!End, Lease!Ended
<1>8. ASSUME NEW t \in Tokens, RevokeToken(t)
      PROVE  \E S \in SUBSET Tokens : Lease!End(S)
  <2>1. {t} \in SUBSET table /\ table' = table \ {t} /\ UNCHANGED <<now, issued, data, validating, lastUse>>
    BY <1>8 DEF RevokeToken
  <2> QED
    BY <1>7, <2>1
<1>9. CASE CleanupExpired
  <2> DEFINE S == {t \in table : Expired(t)}
  <2>1. S \in SUBSET table /\ table' = table \ S /\ UNCHANGED <<now, issued, data, validating, lastUse>>
    BY <1>9 DEF CleanupExpired
  <2> HIDE DEF S
  <2>2. \E R \in SUBSET Tokens : Lease!End(R)
    BY <1>7, <2>1
  <2> QED
    BY <2>2 DEF Lease!LeaseNext
<1>10. ASSUME NEW t \in Tokens, NEW e \in Endpoints, UpdateWorkerEndpoint(t, e)
       PROVE  UNCHANGED Lease!leaseVars
  <2>1. grantedAt' = grantedAt
    BY <1>10, <1>t DEF UpdateWorkerEndpoint, TypeOK, TokenData
  <2> QED
    BY <1>10, <2>1 DEF UpdateWorkerEndpoint, Lease!leaseVars
<1>11. ASSUME NEW t \in Tokens, NEW x \in Extensions, RefreshToken(t, x)
       PROVE  UNCHANGED Lease!leaseVars
  <2>1. grantedAt' = grantedAt
    BY <1>11, <1>t DEF RefreshToken, TypeOK, TokenData
  <2> QED
    BY <1>11, <2>1 DEF RefreshToken, Lease!leaseVars
<1>12. CASE UNCHANGED vars
  BY <1>12 DEF vars, Lease!leaseVars
<1> HIDE DEF leaseOf, grantedAt, askedFor
<1> QED
  BY <1>1, <1>2, <1>3, <1>4, <1>5, <1>6, <1>8, <1>9, <1>10, <1>11, <1>12 DEF Next, Lease!LeaseNext

\* For every set of tokens and callers and every cap, the token table is a set of
\* leases: TokenLease is what the callers of token.go may rely on.
THEOREM TokenTableIsLease == Spec => ImplementsLease
<1>1. Init => Lease!LeaseInit
  <2> SUFFICES ASSUME Init PROVE Lease!LeaseInit
    OBVIOUS
  <2>1. [t \in Tokens |-> data[t].issuedAt] = [t \in Tokens |-> 0]
    BY DEF Init
  <2>2. [c \in Callers |-> validating[c].token] = [c \in Callers |-> NoToken]
    BY DEF Init, Idle
  <2> QED
    BY <2>1, <2>2 DEF Init, Lease!LeaseInit
<1>2. Init => CallInv
  BY TypeInit DEF Init, CallInv, CapInv, LifetimeCapped, NoUseAfterCap, Idle
<1> QED
  BY <1>1, <1>2, CallStep, LeaseStep, PTL DEF Spec, ImplementsLease, Lease!LeaseSpec
=============================================================================
