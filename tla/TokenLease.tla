----------------------------- MODULE TokenLease -----------------------------
(***************************************************************************)
(* What the token table promises its callers: a token is a lease.  It is   *)
(* granted once, ends once and never comes back; a validation begins only  *)
(* while the lease is live, and one that succeeds does so no later than    *)
(* MaxTTL after the grant, even if the lease ended while it was under way. *)
(* Expiry instants, refreshes, endpoints and clean-ups do not appear.      *)
(***************************************************************************)
EXTENDS Integers

CONSTANTS Tokens, Callers, MaxTTL, MaxTime, NoToken

VARIABLES
  now,
  lease,    \* [Tokens -> {"new", "live", "over"}]
  granted,  \* [Tokens -> instant of the grant]
  asking,   \* [Callers -> token being validated, or NoToken]
  lastUse   \* [Tokens -> instant of the latest successful validation]

leaseVars == <<now, lease, granted, asking, lastUse>>

LeaseInit ==
  /\ now = 0
  /\ lease = [t \in Tokens |-> "new"]
  /\ granted = [t \in Tokens |-> 0]
  /\ asking = [c \in Callers |-> NoToken]
  /\ lastUse = [t \in Tokens |-> 0]

Ended(S) == [t \in Tokens |-> IF t \in S THEN "over" ELSE lease[t]]

TimePasses ==
  /\ now < MaxTime
  /\ now' = now + 1
  /\ UNCHANGED <<lease, granted, asking, lastUse>>

Grant(t) ==
  /\ lease[t] = "new"
  /\ lease' = [lease EXCEPT ![t] = "live"]
  /\ granted' = [granted EXCEPT ![t] = now]
  /\ UNCHANGED <<now, asking, lastUse>>

End(S) ==
  /\ \A t \in S : lease[t] = "live"
  /\ lease' = Ended(S)
  /\ UNCHANGED <<now, granted, asking, lastUse>>

Ask(c, t) ==
  /\ asking[c] = NoToken
  /\ lease[t] = "live"
  /\ asking' = [asking EXCEPT ![c] = t]
  /\ UNCHANGED <<now, lease, granted, lastUse>>

Accept(c) ==
  /\ asking[c] # NoToken
  /\ now <= granted[asking[c]] + MaxTTL
  /\ lastUse' = [lastUse EXCEPT ![asking[c]] = now]
  /\ asking' = [asking EXCEPT ![c] = NoToken]
  /\ UNCHANGED <<now, lease, granted>>

\* A refusal ends the lease.
Refuse(c) ==
  /\ asking[c] # NoToken
  /\ lease' = Ended({asking[c]})
  /\ asking' = [asking EXCEPT ![c] = NoToken]
  /\ UNCHANGED <<now, granted, lastUse>>

LeaseNext ==
  \/ TimePasses
  \/ \E t \in Tokens : Grant(t)
  \/ \E S \in SUBSET Tokens : End(S)
  \/ \E c \in Callers : (\E t \in Tokens : Ask(c, t)) \/ Accept(c) \/ Refuse(c)

LeaseSpec == LeaseInit /\ [][LeaseNext]_leaseVars
=============================================================================
