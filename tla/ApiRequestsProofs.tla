------------------------- MODULE ApiRequestsProofs --------------------------
(***************************************************************************)
(* Proofs about the API server's requests, for any configurations, tokens, *)
(* requests, edits and faults.                                             *)
(*                                                                         *)
(* What matters of a request is a predicate on its record alone, given the *)
(* values the configurations have had: every step writes one request, and  *)
(* those values only grow.  So the lemmas below are about records, and the *)
(* inductive step only has to look them up.                                *)
(***************************************************************************)
EXTENDS ApiRequests, TLAPS

Verifier == [issuer : Issuers, audience : Audiences]

\* The record of a request is well-formed.
Formed(v) ==
  /\ v \in Request
  /\ v.pc \in Searching => v.todo # <<>>
  /\ v.verifier # None => v.verifier.issuer = IssuerOf[Head(v.todo).c]
  /\ v.pc \in {"touch", "store"} =>
       v.verifier \in Verifier /\ v.verifier.issuer = IssuerOf[Head(v.todo).c]
  /\ v.pc \in Searching \cup {"resources", "methods", "account", "pools"} => v.token \in Tokens

Item(x) == [audience |-> x.audience, enabled |-> x.enabled]

\* An audience that an enabled configuration of the issuer has had, as h records them.
HadBy(h, i, a) ==
  \E d \in Configs : IssuerOf[d] = i /\ [audience |-> a, enabled |-> TRUE] \in h[d]

Identified(h, v) ==
  v.token.live /\ v.token.issuer = IssuerOf[v.via] /\ HadBy(h, v.token.issuer, v.token.audience)

\* What the request has read is what configurations have had.
Backed(h, v) ==
  /\ \A k \in 1..Len(v.todo) : Item(v.todo[k]) \in h[v.todo[k].c]
  /\ v.pc = "build" => Head(v.todo).enabled
  /\ v.pc \in {"touch", "store"} => HadBy(h, v.verifier.issuer, v.verifier.audience)
  /\ v.via # None => Identified(h, v)

\* The configurations of an issuer that have always been enabled, and Configured of a token.
Always(h, i) == {c \in Configs : IssuerOf[c] = i /\ \A x \in h[c] : x.enabled}

Promised(h, t) ==
  /\ t.live
  /\ Always(h, t.issuer) # {}
  /\ \A c \in Configs : IssuerOf[c] = t.issuer => \A x \in h[c] : x.audience = t.audience

AheadIn(s, c) == \E k \in 1..Len(s) : s[k].c = c
NamedIn(configs, c) == \E k \in 1..Len(configs) : configs[k] = c

\* Where the search of a configured token stands: every configuration it may count on is
\* ahead, in the rest of the list or in the pools' methods still to be listed.
Ahead(v, c) ==
  /\ v.pc \in Searching => AheadIn(v.todo, c) \/ (~v.methods /\ NamedIn(Methods, c))
  /\ v.pc = "methods" => NamedIn(Methods, c)
  /\ v.pc # "account"

Hopeful(h, v) ==
  Promised(h, v.token) /\ Unhindered(v) => \A c \in Always(h, v.token.issuer) : Ahead(v, c)

Good(h, v) == Formed(v) /\ Backed(h, v) /\ Hopeful(h, v)
-----------------------------------------------------------------------------
(* The records that a step can write. *)

Pcs == Searching \cup {"idle", "resources", "methods", "account", "pools", "done"}
Codes == {200, 400, 401, 403, 500}

\* Head and Tail of a list of configurations.
LEMMA TailFacts ==
  ASSUME NEW s \in Seq(Listed), s # <<>>
  PROVE  /\ Head(s) \in Listed /\ Head(s) = s[1] /\ 1 \in 1..Len(s)
         /\ Tail(s) \in Seq(Listed)
         /\ Len(Tail(s)) = Len(s) - 1 /\ Len(s) \in Nat
         /\ \A k \in 1..Len(Tail(s)) : k + 1 \in 1..Len(s) /\ Tail(s)[k] = s[k + 1]
  OBVIOUS

\* A request record stays one under an update of a field.  The sets of the fields are
\* hidden from the provers, which have no use for what is in them.
LEMMA FieldUpdate ==
  ASSUME NEW v, v \in Request
  PROVE  /\ \A x \in Pcs : [v EXCEPT !.pc = x] \in Request
         /\ \A x \in Seq(Listed) : [v EXCEPT !.todo = x] \in Request
         /\ \A x \in BOOLEAN : [v EXCEPT !.methods = x] \in Request
         /\ \A x \in (Requests \X Configs) \cup {None} : [v EXCEPT !.entry = x] \in Request
         /\ \A x \in Verifier \cup {None} : [v EXCEPT !.verifier = x] \in Request
         /\ \A x \in Configs \cup {None} : [v EXCEPT !.via = x] \in Request
         /\ \A x \in SUBSET (Issuers \cup {None}) : [v EXCEPT !.failed = x] \in Request
         /\ \A x \in Codes \cup {0} : [v EXCEPT !.status = x] \in Request
<1> DEFINE P == Pcs
           K == Tokens \cup {None}
           T == Seq(Listed)
           M == BOOLEAN
           E == (Requests \X Configs) \cup {None}
           V == Verifier \cup {None}
           C == Configs \cup {None}
           F == SUBSET (Issuers \cup {None})
           S == Codes \cup {0}
           R == [pc : P, token : K, todo : T, methods : M, entry : E, verifier : V, via : C,
                 failed : F, status : S]
<1>1. Request = R
  <2>1. S = {0, 200, 400, 401, 403, 500}
    BY DEF Codes
  <2> HIDE DEF S
  <2> QED
    BY <2>1 DEF Request, Pcs, Verifier
<1> HIDE DEF P, K, T, M, E, V, C, F, S
<1>2. v \in R
  BY <1>1
<1>3. \A x \in P : [v EXCEPT !.pc = x] \in R
  BY <1>2
<1>4. \A x \in T : [v EXCEPT !.todo = x] \in R
  BY <1>2
<1>5. \A x \in M : [v EXCEPT !.methods = x] \in R
  BY <1>2
<1>6. \A x \in E : [v EXCEPT !.entry = x] \in R
  BY <1>2
<1>7. \A x \in V : [v EXCEPT !.verifier = x] \in R
  BY <1>2
<1>8. \A x \in C : [v EXCEPT !.via = x] \in R
  BY <1>2
<1>9. \A x \in S : [v EXCEPT !.status = x] \in R
  BY <1>2
<1>10. \A x \in F : [v EXCEPT !.failed = x] \in R
  BY <1>2
<1> HIDE DEF R
<1> QED
  BY <1>1, <1>3, <1>4, <1>5, <1>6, <1>7, <1>8, <1>9, <1>10 DEF P, T, M, E, V, C, F, S

\* The same, field by field.
LEMMA TodoUpdate ==
  ASSUME NEW v, v \in Request, NEW x \in Seq(Listed)
  PROVE  [v EXCEPT !.todo = x] \in Request
  BY FieldUpdate

LEMMA VerifierUpdate ==
  ASSUME NEW v, v \in Request, NEW x \in Verifier \cup {None}
  PROVE  [v EXCEPT !.verifier = x] \in Request
  BY FieldUpdate

LEMMA EntryUpdate ==
  ASSUME NEW v, v \in Request, NEW x \in (Requests \X Configs) \cup {None}
  PROVE  [v EXCEPT !.entry = x] \in Request
  BY FieldUpdate

LEMMA ViaUpdate ==
  ASSUME NEW v, v \in Request, NEW x \in Configs
  PROVE  [v EXCEPT !.via = x] \in Request
  BY FieldUpdate

LEMMA MethodsUpdate ==
  ASSUME NEW v, v \in Request, NEW x \in BOOLEAN
  PROVE  [v EXCEPT !.methods = x] \in Request
  BY FieldUpdate

LEMMA PcUpdate ==
  ASSUME NEW v, v \in Request, NEW x \in Pcs
  PROVE  [v EXCEPT !.pc = x] \in Request
  BY FieldUpdate

LEMMA FailedUpdate ==
  ASSUME NEW v, v \in Request, NEW x \in SUBSET (Issuers \cup {None})
  PROVE  [v EXCEPT !.failed = x] \in Request
  BY FieldUpdate

LEMMA StatusUpdate ==
  ASSUME NEW v, v \in Request, NEW x \in Codes
  PROVE  [v EXCEPT !.status = x] \in Request
  BY FieldUpdate

\* The search goes on with list, at p.
Rest(v, list, p) == [v EXCEPT !.todo = list, !.verifier = None, !.entry = None, !.pc = p]

\* The fields of such a record.
LEMMA RestFields ==
  ASSUME NEW v, v \in Request, NEW list \in Seq(Listed), NEW p \in Pcs
  PROVE  /\ Rest(v, list, p) \in Request
         /\ Rest(v, list, p).pc = p /\ Rest(v, list, p).token = v.token
         /\ Rest(v, list, p).todo = list /\ Rest(v, list, p).methods = v.methods
         /\ Rest(v, list, p).verifier = None /\ Rest(v, list, p).via = v.via
         /\ Rest(v, list, p).failed = v.failed
<1>1. [v EXCEPT !.todo = list] \in Request
  BY TodoUpdate
<1>2. [v EXCEPT !.todo = list, !.verifier = None] \in Request
  BY <1>1, VerifierUpdate
<1>3. [v EXCEPT !.todo = list, !.verifier = None, !.entry = None] \in Request
  BY <1>2, EntryUpdate
<1>4. Rest(v, list, p) \in Request
  BY <1>3, PcUpdate DEF Rest
<1>5. /\ Rest(v, list, p).pc = p /\ Rest(v, list, p).token = v.token
      /\ Rest(v, list, p).todo = list /\ Rest(v, list, p).methods = v.methods
      /\ Rest(v, list, p).verifier = None /\ Rest(v, list, p).via = v.via
      /\ Rest(v, list, p).failed = v.failed
  BY DEF Rest, Request
<1> QED
  BY <1>4, <1>5

\* An answer, the record before a request comes, and an arrival.
LEMMA Fixed ==
  ASSUME NEW code \in Codes, NEW h
  PROVE  /\ Good(h, Answered(code))
         /\ \A w : w = [Arrived(None) EXCEPT !.pc = "idle"] => Good(h, w)
         /\ \A t \in Tokens : Good(h, Arrived(t))
<1>1. ASSUME NEW w \in Request, w.pc \in {"idle", "done", "resources"}, w.todo = <<>>,
             w.verifier = None, w.via = None, w.pc = "resources" => w.token \in Tokens
      PROVE  Good(h, w)
  BY <1>1 DEF Good, Formed, Backed, Hopeful, Ahead, Searching
<1>2. ASSUME NEW u \in Tokens \cup {None}
      PROVE  /\ Arrived(u) \in Request /\ Arrived(u).pc = "resources" /\ Arrived(u).token = u
             /\ Arrived(u).todo = <<>> /\ Arrived(u).verifier = None /\ Arrived(u).via = None
  BY DEF Arrived, Request
<1>3. /\ [Arrived(None) EXCEPT !.pc = "idle"] \in Request
      /\ [Arrived(None) EXCEPT !.pc = "done"] \in Request
  <2>1. Arrived(None) \in Request
    BY <1>2
  <2>2. "idle" \in Pcs /\ "done" \in Pcs
    BY DEF Pcs
  <2> QED
    BY <2>1, <2>2, PcUpdate
<1>4. Answered(code) \in Request
  <2> DEFINE u == [Arrived(None) EXCEPT !.pc = "done"]
  <2>1. u \in Request
    BY <1>3
  <2> HIDE DEF u
  <2>2. [u EXCEPT !.status = code] \in Request
    BY <2>1, StatusUpdate
  <2> USE DEF u
  <2> QED
    BY <2>2 DEF Answered
<1>5. /\ Answered(code).pc = "done" /\ Answered(code).todo = <<>>
      /\ Answered(code).verifier = None /\ Answered(code).via = None
  BY DEF Answered, Arrived
<1>6. /\ [Arrived(None) EXCEPT !.pc = "idle"].pc = "idle"
      /\ [Arrived(None) EXCEPT !.pc = "idle"].todo = <<>>
      /\ [Arrived(None) EXCEPT !.pc = "idle"].verifier = None
      /\ [Arrived(None) EXCEPT !.pc = "idle"].via = None
  BY DEF Arrived
<1>7. Good(h, Answered(code))
  <2>1. \A w : w = Answered(code) => w \in Request /\ w.pc = "done" /\ w.todo = <<>>
                                    /\ w.verifier = None /\ w.via = None
    BY <1>4, <1>5
  <2> QED
    BY <1>1, <2>1
<1>8. ASSUME NEW t \in Tokens
      PROVE  Good(h, Arrived(t))
  BY <1>1, <1>2
<1> DEFINE w == [Arrived(None) EXCEPT !.pc = "idle"]
<1>9. Good(h, w)
  <2>1. w \in Request /\ w.pc = "idle" /\ w.todo = <<>> /\ w.verifier = None /\ w.via = None
    BY <1>3, <1>6
  <2> HIDE DEF w
  <2> QED
    BY <1>1, <2>1
<1> HIDE DEF w
<1> QED
  BY <1>7, <1>8, <1>9 DEF w

\* Going on with a list: a configured token needs all its configurations ahead.
LEMMA SearchGood ==
  ASSUME NEW h, NEW v, v \in Request, v.token \in Tokens, NEW list \in Seq(Listed),
         \A k \in 1..Len(list) : Item(list[k]) \in h[list[k].c],
         v.via # None => Identified(h, v),
         Promised(h, v.token) /\ Unhindered(v) =>
           \A c \in Always(h, v.token.issuer) : AheadIn(list, c) \/ (~v.methods /\ NamedIn(Methods, c))
  PROVE  Good(h, Search(v, list))
<1> DEFINE p == IF list # <<>> THEN "get" ELSE IF v.methods THEN "account" ELSE "methods"
           w == Rest(v, list, p)
<1>1. w = Search(v, list)
  BY DEF Search, Rest
<1>2. p \in Pcs /\ p \in {"get", "methods", "account"} /\ (p = "get" <=> list # <<>>)
      /\ (p = "methods" => ~v.methods) /\ (p = "account" => v.methods)
  BY DEF Pcs, Searching
<1> HIDE DEF p
<1>3. /\ w \in Request /\ w.pc = p /\ w.token = v.token /\ w.todo = list
      /\ w.methods = v.methods /\ w.verifier = None /\ w.via = v.via /\ w.failed = v.failed
  BY <1>2, RestFields
<1> HIDE DEF w
<1>4. Formed(w)
  BY <1>2, <1>3 DEF Formed, Searching
<1>5. Backed(h, w)
  BY <1>2, <1>3 DEF Backed, Identified
<1>6. ASSUME Promised(h, w.token), Unhindered(w), NEW c \in Always(h, w.token.issuer) PROVE Ahead(w, c)
  <2>1. AheadIn(list, c) \/ (~v.methods /\ NamedIn(Methods, c))
    BY <1>3, <1>6 DEF Unhindered
  <2>2. list = <<>> => ~AheadIn(list, c)
    BY DEF AheadIn
  <2> QED
    BY <1>2, <1>3, <2>1, <2>2 DEF Ahead, Searching
<1> QED
  BY <1>1, <1>4, <1>5, <1>6 DEF Good, Hopeful

\* continue: a configuration that a configured token does not count on is passed over.
LEMMA ContinueGood ==
  ASSUME NEW h, NEW v, Good(h, v), v.pc \in Searching,
         Promised(h, v.token) /\ Unhindered(v) => Head(v.todo).c \notin Always(h, v.token.issuer)
  PROVE  Good(h, Continue(v))
<1>1. v \in Request /\ v.token \in Tokens /\ v.todo \in Seq(Listed) /\ v.todo # <<>>
  BY DEF Good, Formed, Request
<1> DEFINE rest == Tail(v.todo)
<1>2. /\ rest \in Seq(Listed) /\ Head(v.todo) = v.todo[1] /\ Len(v.todo) \in Nat
      /\ Len(rest) = Len(v.todo) - 1
      /\ \A k \in 1..Len(rest) : k + 1 \in 1..Len(v.todo) /\ rest[k] = v.todo[k + 1]
  BY <1>1, TailFacts
<1> HIDE DEF rest
<1>3. \A k \in 1..Len(rest) : Item(rest[k]) \in h[rest[k].c]
  BY <1>2 DEF Good, Backed
<1>4. v.via # None => Identified(h, v)
  BY DEF Good, Backed
<1>5. ASSUME Promised(h, v.token), Unhindered(v), NEW c \in Always(h, v.token.issuer)
      PROVE  AheadIn(rest, c) \/ (~v.methods /\ NamedIn(Methods, c))
  <2>1. AheadIn(v.todo, c) \/ (~v.methods /\ NamedIn(Methods, c))
    BY <1>5 DEF Good, Hopeful, Ahead
  <2>2. ASSUME AheadIn(v.todo, c) PROVE AheadIn(rest, c)
    <3>1. PICK k \in 1..Len(v.todo) : v.todo[k].c = c
      BY <2>2 DEF AheadIn
    <3>2. k # 1
      BY <1>2, <1>5, <3>1
    <3>3. k - 1 \in 1..Len(rest) /\ rest[k - 1] = v.todo[k]
      BY <1>2, <3>2
    <3> QED
      BY <3>1, <3>3 DEF AheadIn
  <2> QED
    BY <2>1, <2>2
<1> QED
  BY <1>1, <1>2, <1>3, <1>4, <1>5, SearchGood DEF Continue, rest

\* An issuer that does not answer is the token's own, or does not matter.
LEMMA UnreachableGood ==
  ASSUME NEW h, NEW v, Good(h, v), v.pc \in Searching
  PROVE  Good(h, Unreachable(v))
<1> DEFINE i == IssuerOf[Head(v.todo).c]
           w == [v EXCEPT !.failed = @ \cup {i}]
<1>1. v \in Request /\ v.todo \in Seq(Listed) /\ v.todo # <<>> /\ v.failed \in SUBSET (Issuers \cup {None})
  BY DEF Good, Formed, Request
<1>2. i \in Issuers
  <2>1. Head(v.todo).c \in Configs
    BY <1>1, TailFacts DEF Listed
  <2> QED
    BY <2>1, ApiAssumption
<1> HIDE DEF i
<1>3. v.failed \cup {i} \in SUBSET (Issuers \cup {None})
  BY <1>1, <1>2
<1>4. w \in Request
  BY <1>1, <1>3, FailedUpdate
<1>5. /\ w.pc = v.pc /\ w.token = v.token /\ w.todo = v.todo /\ w.methods = v.methods
      /\ w.verifier = v.verifier /\ w.via = v.via /\ w.failed = v.failed \cup {i}
  BY <1>1 DEF Request
<1>6. Unreachable(v) = Continue(w)
  BY DEF Unreachable, i
<1> HIDE DEF w
<1>7. Unhindered(w) => Unhindered(v) /\ i # w.token.issuer
  BY <1>5 DEF Unhindered
<1>8. Good(h, w)
  <2>1. Formed(w)
    BY <1>4, <1>5 DEF Good, Formed
  <2>2. Backed(h, w)
    BY <1>5 DEF Good, Backed, Identified
  <2>3. Hopeful(h, w)
    BY <1>5, <1>7 DEF Good, Hopeful, Ahead
  <2> QED
    BY <2>1, <2>2, <2>3 DEF Good
<1>9. Unhindered(w) => Head(w.todo).c \notin Always(h, w.token.issuer)
  BY <1>5, <1>7 DEF Always, i
<1> QED
  BY <1>5, <1>6, <1>8, <1>9, ContinueGood

\* The identity is found.
Found(v) ==
  [v EXCEPT !.pc = "pools", !.via = Head(v.todo).c, !.todo = <<>>, !.verifier = None, !.entry = None]

\* The fields of such a record.
LEMMA FoundFields ==
  ASSUME NEW v, v \in Request, Head(v.todo).c \in Configs
  PROVE  /\ Found(v) \in Request
         /\ Found(v).pc = "pools" /\ Found(v).via = Head(v.todo).c /\ Found(v).token = v.token
         /\ Found(v).todo = <<>> /\ Found(v).verifier = None
<1> DEFINE c == Head(v.todo).c
           u == [v EXCEPT !.pc = "pools", !.via = c]
<1>1. u \in Request
  <2>1. "pools" \in Pcs
    BY DEF Pcs
  <2>2. [v EXCEPT !.pc = "pools"] \in Request
    BY <2>1, PcUpdate
  <2> QED
    BY <2>2, ViaUpdate
<1>3. [u EXCEPT !.todo = <<>>, !.verifier = None, !.entry = None] = Found(v)
  BY DEF Found
<1> HIDE DEF u
<1>4. <<>> \in Seq(Listed)
  OBVIOUS
<1>5. [u EXCEPT !.todo = <<>>] \in Request
  BY <1>1, <1>4, TodoUpdate
<1>6. [u EXCEPT !.todo = <<>>, !.verifier = None] \in Request
  BY <1>5, VerifierUpdate
<1>7. [u EXCEPT !.todo = <<>>, !.verifier = None, !.entry = None] \in Request
  BY <1>6, EntryUpdate
<1>8. Found(v).todo = <<>> /\ Found(v).verifier = None
  <2>1. /\ [u EXCEPT !.todo = <<>>, !.verifier = None, !.entry = None].todo = <<>>
        /\ [u EXCEPT !.todo = <<>>, !.verifier = None, !.entry = None].verifier = None
    BY <1>1 DEF Request
  <2> QED
    BY <1>3, <2>1
<1>9. Found(v).pc = "pools" /\ Found(v).via = c /\ Found(v).token = v.token
  BY DEF Found, Request
<1> QED
  BY <1>3, <1>7, <1>8, <1>9

\* VerifyToken accepts only what an enabled configuration of the token's issuer has had,
\* and refuses no configured token on behalf of a configuration it counts on.
LEMMA VerifyGood ==
  ASSUME NEW h, NEW v, Good(h, v), v.pc \in {"touch", "store"}, NEW ok \in BOOLEAN
  PROVE  Good(h, VerifyToken(v, ok))
<1>1. /\ v \in Request /\ v.token \in Tokens /\ v.todo \in Seq(Listed) /\ v.todo # <<>>
      /\ v.verifier.issuer = IssuerOf[Head(v.todo).c]
      /\ HadBy(h, v.verifier.issuer, v.verifier.audience)
      /\ v.pc \in Searching
  BY DEF Good, Formed, Backed, Request, Searching
<1>2. Head(v.todo).c \in Configs
  BY <1>1, TailFacts DEF Listed
<1>3. CASE ok /\ Accepts(v.verifier, v.token)
  <2> DEFINE w == Found(v)
  <2>1. /\ w \in Request /\ w.pc = "pools" /\ w.via = Head(v.todo).c /\ w.token = v.token
        /\ w.todo = <<>> /\ w.verifier = None
    BY <1>1, <1>2, FoundFields
  <2>2. VerifyToken(v, ok) = w
    BY <1>3 DEF VerifyToken, Found
  <2> HIDE DEF w
  <2>3. v.token.live /\ v.token.issuer = v.verifier.issuer /\ v.token.audience = v.verifier.audience
    BY <1>3 DEF Accepts
  <2>4. Formed(w)
    BY <1>1, <2>1 DEF Formed, Searching
  <2>5. Backed(h, w)
    BY <1>1, <2>1, <2>3 DEF Backed, Identified
  <2>6. Hopeful(h, w)
    BY <2>1 DEF Hopeful, Ahead, Searching
  <2> QED
    BY <2>2, <2>4, <2>5, <2>6 DEF Good
<1>4. CASE ok /\ ~Accepts(v.verifier, v.token)
  <2>1. ASSUME Promised(h, v.token), Head(v.todo).c \in Always(h, v.token.issuer) PROVE FALSE
    <3>1. v.token.live /\ v.verifier.issuer = v.token.issuer
      BY <1>1, <2>1 DEF Promised, Always
    <3>2. PICK d \in Configs : /\ IssuerOf[d] = v.verifier.issuer
                               /\ [audience |-> v.verifier.audience, enabled |-> TRUE] \in h[d]
      BY <1>1 DEF HadBy
    <3>3. v.verifier.audience = v.token.audience
      BY <2>1, <3>1, <3>2 DEF Promised
    <3> QED
      BY <1>4, <3>1, <3>3 DEF Accepts
  <2>2. Good(h, Continue(v))
    BY <1>1, <2>1, ContinueGood
  <2> QED
    BY <1>4, <2>2 DEF VerifyToken
<1>5. CASE ~ok
  BY <1>1, <1>5, UnreachableGood DEF VerifyToken
<1> QED
  BY <1>3, <1>4, <1>5
-----------------------------------------------------------------------------
(* The steps of a request. *)

\* Cached verifiers have audiences that enabled configurations of their issuer have had.
Stock(h, entries) ==
  /\ entries \in [Issuers -> Entry \cup {None}]
  /\ \A i \in Issuers : entries[i] # None => HadBy(h, i, entries[i].audience)

ApiInv ==
  /\ config \in [Configs -> Setting]
  /\ had \in [Configs -> SUBSET Setting]
  /\ edits \in 0..MaxEdits /\ faults \in 0..MaxFaults
  /\ \A c \in Configs : config[c] \in had[c]
  /\ Stock(had, cache)
  /\ req \in [Requests -> Request]
  /\ \A r \in Requests : Good(had, req[r])

\* A step of one request, with what it may do to the cache and to the faults.
LEMMA OneRequest ==
  ASSUME ApiInv, NEW r \in Requests, NEW w, Set(r, w), UNCHANGED <<config, had, edits>>,
         Good(had, w), Stock(had, cache'), UNCHANGED faults \/ Fault
  PROVE  ApiInv'
<1>1. faults \in 0..MaxFaults /\ MaxFaults \in Nat
  BY ApiAssumption DEF ApiInv
<1>2. faults' \in 0..MaxFaults
  BY <1>1 DEF Fault
<1>3. w \in Request /\ req \in [Requests -> Request]
  BY DEF Good, Formed, ApiInv
<1>4. req' = [req EXCEPT ![r] = w]
  BY DEF Set
<1>5. req' \in [Requests -> Request] /\ req'[r] = w /\ \A q \in Requests : q # r => req'[q] = req[q]
  BY <1>3, <1>4
<1>6. \A q \in Requests : Good(had, req'[q])
  BY <1>5 DEF ApiInv
<1>7. /\ config' = config /\ had' = had /\ edits' = edits
      /\ config \in [Configs -> Setting]
      /\ had \in [Configs -> SUBSET Setting] /\ edits \in 0..MaxEdits
      /\ \A c \in Configs : config[c] \in had[c]
  BY DEF ApiInv
<1> QED
  BY <1>2, <1>5, <1>6, <1>7 DEF ApiInv

\* The list a List returns.
LEMMA ItemsFacts ==
  ASSUME ApiInv, NEW s \in Seq(Configs)
  PROVE  /\ Items(s) \in Seq(Listed) /\ Len(Items(s)) = Len(s)
         /\ \A k \in 1..Len(s) :
              Items(s)[k].c = s[k] /\ s[k] \in Configs /\ Item(Items(s)[k]) = config[s[k]]
<1>1. config \in [Configs -> Setting]
  BY DEF ApiInv
<1>2. DOMAIN s = 1..Len(s) /\ Len(s) \in Nat /\ \A k \in 1..Len(s) : s[k] \in Configs
  OBVIOUS
<1> DEFINE It(c) == [c |-> c, audience |-> config[c].audience, enabled |-> config[c].enabled]
<1>3. ASSUME NEW c \in Configs PROVE It(c) \in Listed /\ It(c).c = c /\ Item(It(c)) = config[c]
  BY <1>1 DEF Listed, Setting, Item
<1>4. Items(s) = [k \in 1..Len(s) |-> It(s[k])]
  BY <1>2 DEF Items
<1> HIDE DEF It
<1>5. Items(s) \in [1..Len(s) -> Listed]
  BY <1>2, <1>3, <1>4
<1>6. Items(s) \in Seq(Listed) /\ Len(Items(s)) = Len(s)
  BY <1>2, <1>5
<1>7. ASSUME NEW k \in 1..Len(s) PROVE Items(s)[k] = It(s[k])
  BY <1>4
<1> QED
  BY <1>2, <1>3, <1>6, <1>7

\* A request arrives.
LEMMA ArriveStep ==
  ASSUME ApiInv, NEW r \in Requests, NEW t \in Tokens, Arrive(r, t)
  PROVE  ApiInv'
<1>1. /\ Set(r, Arrived(t)) /\ UNCHANGED <<config, had, edits>> /\ cache' = cache /\ UNCHANGED faults
  BY DEF Arrive
<1>2. 200 \in Codes
  BY DEF Codes
<1>3. Good(had, Arrived(t))
  BY <1>2, Fixed
<1>4. Stock(had, cache')
  BY <1>1 DEF ApiInv
<1> QED
  BY <1>1, <1>3, <1>4, OneRequest

\* A request is answered.
LEMMA ServeStep ==
  ASSUME ApiInv, NEW r \in Requests, NEW pools, NEW ok \in BOOLEAN, Serve(r, pools, ok)
  PROVE  ApiInv'
<1>1. PICK code \in Codes : Set(r, Answered(code))
  BY DEF Serve, Codes
<1>2. UNCHANGED <<config, had, edits>> /\ cache' = cache /\ (UNCHANGED faults \/ Fault)
  BY DEF Serve, Tried
<1>3. Good(had, Answered(code))
  BY Fixed
<1>4. Stock(had, cache')
  BY <1>2 DEF ApiInv
<1> QED
  BY <1>1, <1>2, <1>3, <1>4, OneRequest

\* The service account check lets the request through or answers it.
LEMMA AccountStep ==
  ASSUME ApiInv, NEW r \in Requests, VerifyServiceAccount(r)
  PROVE  ApiInv'
<1> DEFINE w == [req[r] EXCEPT !.pc = "pools"]
<1>1. /\ Set(r, w) \/ Set(r, Answered(401))
      /\ UNCHANGED <<config, had, edits>> /\ cache' = cache /\ UNCHANGED faults
      /\ req[r].pc = "account"
  BY DEF VerifyServiceAccount
<1>2. req[r] \in Request /\ Good(had, req[r])
  BY DEF ApiInv, Good, Formed
<1>3. w \in Request
  <2>1. "pools" \in Pcs
    BY DEF Pcs
  <2> QED
    BY <1>2, <2>1, PcUpdate
<1>4. /\ w.pc = "pools" /\ w.token = req[r].token /\ w.todo = req[r].todo
      /\ w.verifier = req[r].verifier /\ w.via = req[r].via
  BY <1>2 DEF Request
<1> HIDE DEF w
<1>5. Good(had, w)
  <2>1. Formed(w)
    BY <1>1, <1>2, <1>3, <1>4 DEF Good, Formed, Searching
  <2>2. Backed(had, w)
    BY <1>2, <1>4 DEF Good, Backed, Identified
  <2>3. Hopeful(had, w)
    BY <1>4 DEF Hopeful, Ahead, Searching
  <2> QED
    BY <2>1, <2>2, <2>3 DEF Good
<1>6. Good(had, Answered(401))
  <2>1. 401 \in Codes
    BY DEF Codes
  <2> QED
    BY <2>1, Fixed
<1>7. Stock(had, cache')
  BY <1>1 DEF ApiInv
<1> QED
  BY <1>1, <1>5, <1>6, <1>7, OneRequest

\* Both Lists; the one of the pools is the last.
LEMMA ListStep ==
  ASSUME ApiInv, NEW r \in Requests, NEW ok \in BOOLEAN, List(r, ok)
  PROVE  ApiInv'
<1> DEFINE inPools == req[r].pc = "methods"
           configs == IF inPools THEN Methods ELSE Resources
           v == [req[r] EXCEPT !.methods = inPools]
           u == [v EXCEPT !.failed = @ \cup {None}]
<1>1. /\ Set(r, IF ok THEN Search(v, Items(configs)) ELSE Search(u, <<>>))
      /\ UNCHANGED <<config, had, edits>> /\ cache' = cache
      /\ UNCHANGED faults \/ Fault
      /\ req[r].pc \in {"resources", "methods"}
  BY DEF List, Tried
<1>2. /\ req[r] \in Request /\ req[r].token \in Tokens /\ Good(had, req[r])
      /\ req[r].via # None => Identified(had, req[r])
  BY <1>1 DEF ApiInv, Good, Formed, Backed
<1>3. /\ v \in Request /\ v.token = req[r].token /\ v.via = req[r].via /\ v.methods = inPools
      /\ v.failed = req[r].failed
  <2>1. v \in Request
    BY <1>2, MethodsUpdate
  <2>2. v.token = req[r].token /\ v.via = req[r].via /\ v.methods = inPools /\ v.failed = req[r].failed
    BY <1>2 DEF Request
  <2> QED
    BY <2>1, <2>2
<1>4. configs \in Seq(Configs)
  BY ApiAssumption
<1> HIDE DEF v
<1>5. v.via # None => Identified(had, v)
  BY <1>2, <1>3 DEF Identified
<1>6. CASE ok
  <2> DEFINE list == Items(configs)
  <2>1. /\ list \in Seq(Listed) /\ \A k \in 1..Len(list) : Item(list[k]) \in had[list[k].c]
    <3> HIDE DEF configs
    <3> QED
      BY <1>4, ItemsFacts DEF ApiInv
  <2>2. ASSUME NEW c, NamedIn(configs, c) PROVE AheadIn(list, c)
    <3> HIDE DEF configs
    <3>1. PICK k \in 1..Len(configs) : configs[k] = c
      BY <2>2 DEF NamedIn
    <3>2. k \in 1..Len(list) /\ list[k].c = configs[k]
      BY <1>4, ItemsFacts
    <3> QED
      BY <3>1, <3>2 DEF AheadIn
  <2>3. ASSUME Promised(had, v.token), Unhindered(v), NEW c \in Always(had, v.token.issuer)
        PROVE  NamedIn(configs, c) \/ (~v.methods /\ NamedIn(Methods, c))
    <3>1. CASE inPools
      <4>1. Unhindered(req[r]) /\ Promised(had, req[r].token)
        BY <1>3, <2>3 DEF Unhindered
      <4>2. Ahead(req[r], c)
        BY <1>2, <1>3, <2>3, <4>1 DEF Good, Hopeful
      <4> QED
        BY <3>1, <4>2 DEF Ahead
    <3>2. CASE ~inPools
      <4>1. c \in Configs
        BY <2>3 DEF Always
      <4>2. Resources \in Seq(Configs) /\ Methods \in Seq(Configs)
        BY ApiAssumption
      <4>3. DOMAIN Resources = 1..Len(Resources) /\ DOMAIN Methods = 1..Len(Methods)
        BY <4>2
      <4> QED
        BY <1>3, <3>2, <4>1, <4>3 DEF Configs, NamedIn
    <3> QED
      BY <3>1, <3>2
  <2> HIDE DEF list, configs
  <2>4. Good(had, Search(v, list))
    BY <1>2, <1>3, <1>5, <2>1, <2>2, <2>3, SearchGood
  <2>5. Stock(had, cache')
    BY <1>1 DEF ApiInv
  <2>6. Set(r, Search(v, list))
    BY <1>1, <1>6 DEF list
  <2> QED
    BY <1>1, <2>4, <2>5, <2>6, OneRequest
<1>7. CASE ~ok
  <2>1. v.failed \in SUBSET (Issuers \cup {None})
    BY <1>3 DEF Request
  <2>2. u \in Request
    <3>1. v.failed \cup {None} \in SUBSET (Issuers \cup {None})
      BY <2>1
    <3> QED
      BY <1>3, <3>1, FailedUpdate
  <2>3. u.token = v.token /\ u.via = v.via /\ None \in u.failed
    BY <1>3 DEF Request
  <2>4. Set(r, Search(u, <<>>))
    BY <1>1, <1>7
  <2> HIDE DEF u
  <2>5. u.token \in Tokens /\ ~Unhindered(u) /\ (u.via # None => Identified(had, u))
    BY <1>2, <1>3, <1>5, <2>3 DEF Unhindered, Identified
  <2> DEFINE list == <<>>
  <2>6. list \in Seq(Listed) /\ Len(list) = 0
    OBVIOUS
  <2> HIDE DEF list
  <2>7. \A k \in 1..Len(list) : Item(list[k]) \in had[list[k].c]
    BY <2>6
  <2>8. Good(had, Search(u, list))
    BY <2>2, <2>5, <2>6, <2>7, SearchGood
  <2>9. Stock(had, cache')
    BY <1>1 DEF ApiInv
  <2> QED
    BY <1>1, <2>4, <2>8, <2>9, OneRequest DEF list
<1> QED
  BY <1>6, <1>7

\* The configuration at hand.
LEMMA AtFacts ==
  ASSUME ApiInv, NEW r \in Requests, req[r].pc \in Searching
  PROVE  /\ Good(had, req[r]) /\ req[r] \in Request
         /\ req[r].todo # <<>> /\ req[r].token \in Tokens
         /\ At(r).c \in Configs /\ At(r).audience \in Audiences /\ IssuerAt(r) \in Issuers
         /\ At(r).enabled \in BOOLEAN /\ Item(At(r)) \in had[At(r).c]
<1>1. Formed(req[r]) /\ Backed(had, req[r]) /\ req[r] \in Request /\ Good(had, req[r])
  BY DEF ApiInv, Good, Formed
<1>2. req[r].todo \in Seq(Listed) /\ req[r].todo # <<>> /\ req[r].token \in Tokens
  BY <1>1 DEF Formed, Request
<1>3. /\ 1 \in 1..Len(req[r].todo) /\ At(r) = req[r].todo[1] /\ At(r) \in Listed
  BY <1>2, TailFacts DEF At
<1>4. At(r).c \in Configs /\ At(r).audience \in Audiences /\ At(r).enabled \in BOOLEAN
  BY <1>3 DEF Listed
<1>5. IssuerAt(r) \in Issuers
  BY <1>4, ApiAssumption DEF IssuerAt
<1>6. Item(At(r)) \in had[At(r).c]
  BY <1>1, <1>3 DEF Backed
<1> QED
  BY <1>1, <1>2, <1>4, <1>5, <1>6

\* A configuration that is off is passed over: it has not always been enabled.
LEMMA SkipStep ==
  ASSUME ApiInv, NEW r \in Requests, SkipDisabled(r)
  PROVE  ApiInv'
<1>1. /\ Set(r, Continue(req[r])) /\ UNCHANGED <<config, had, edits>> /\ cache' = cache
      /\ UNCHANGED faults /\ req[r].pc \in Searching /\ ~At(r).enabled
  BY DEF SkipDisabled, Searching
<1>2. Good(had, req[r]) /\ Item(At(r)) \in had[At(r).c]
  BY <1>1, AtFacts
<1>3. Item(At(r)).enabled = At(r).enabled
  BY DEF Item
<1>4. Head(req[r].todo).c \notin Always(had, req[r].token.issuer)
  BY <1>1, <1>2, <1>3 DEF Always, At
<1>5. Good(had, Continue(req[r]))
  BY <1>1, <1>2, <1>4, ContinueGood
<1>6. Stock(had, cache')
  BY <1>1 DEF ApiInv
<1> QED
  BY <1>1, <1>5, <1>6, OneRequest

\* A request that moves on within its turn of the loop, with a verifier from touch on.
LEMMA TurnGood ==
  ASSUME ApiInv, NEW r \in Requests, req[r].pc \in Searching, NEW w \in Request,
         w.todo = req[r].todo, w.token = req[r].token, w.via = req[r].via,
         w.methods = req[r].methods, w.failed = req[r].failed,
         \/ w.pc = "build" /\ w.verifier = req[r].verifier /\ At(r).enabled
         \/ /\ w.pc \in {"touch", "store"} /\ w.verifier \in Verifier
            /\ w.verifier.issuer = IssuerAt(r)
            /\ HadBy(had, w.verifier.issuer, w.verifier.audience)
  PROVE  Good(had, w)
<1>1. /\ Formed(req[r]) /\ Backed(had, req[r]) /\ Hopeful(had, req[r])
      /\ req[r].todo # <<>> /\ req[r].token \in Tokens
  BY AtFacts DEF Good
<1>2. IssuerAt(r) = IssuerOf[Head(req[r].todo).c] /\ At(r) = Head(req[r].todo)
  BY DEF IssuerAt, At
<1>3. Formed(w)
  BY <1>1, <1>2 DEF Formed
<1>4. Backed(had, w)
  BY <1>1, <1>2 DEF Backed, Identified
<1>5. Hopeful(had, w)
  <2>1. w.pc \in Searching
    BY DEF Searching
  <2> QED
    BY <1>1, <2>1 DEF Hopeful, Unhindered, Ahead, Searching
<1> QED
  BY <1>3, <1>4, <1>5 DEF Good

\* The cache is read: the entry is backed, and so is what is taken from it.
LEMMA GetStep ==
  ASSUME ApiInv, NEW r \in Requests, GetVerifier(r)
  PROVE  ApiInv'
<1> DEFINE e == cache[IssuerAt(r)]
           a == [issuer |-> IssuerAt(r), audience |-> e.audience]
           w1 == [req[r] EXCEPT !.pc = "build"]
           w2 == [req[r] EXCEPT !.pc = "touch", !.entry = e.id, !.verifier = a]
<1>1. /\ Set(r, IF e = None THEN w1 ELSE w2) /\ UNCHANGED <<config, had, edits>> /\ cache' = cache
      /\ UNCHANGED faults /\ req[r].pc \in Searching /\ At(r).enabled
  BY DEF GetVerifier, Searching
<1>2. req[r] \in Request /\ IssuerAt(r) \in Issuers
  BY <1>1, AtFacts
<1>3. Stock(had, cache')
  BY <1>1 DEF ApiInv
<1>4. "build" \in Pcs /\ "touch" \in Pcs
  BY DEF Pcs, Searching
<1>5. CASE e = None
  <2>1. w1 \in Request
    BY <1>2, <1>4, PcUpdate
  <2>2. /\ w1.pc = "build" /\ w1.verifier = req[r].verifier /\ w1.todo = req[r].todo
        /\ w1.token = req[r].token /\ w1.via = req[r].via /\ w1.methods = req[r].methods
        /\ w1.failed = req[r].failed
    BY <1>2 DEF Request
  <2> HIDE DEF w1
  <2>3. Good(had, w1)
    BY <1>1, <2>1, <2>2, TurnGood
  <2> QED
    BY <1>1, <1>3, <1>5, <2>3, OneRequest
<1>6. CASE e # None
  <2>1. e \in Entry /\ HadBy(had, IssuerAt(r), e.audience)
    BY <1>2, <1>6 DEF ApiInv, Stock
  <2>2. e.id \in Requests \X Configs /\ a \in Verifier
    BY <1>2, <2>1 DEF Entry, Verifier
  <2>3. a.issuer = IssuerAt(r) /\ a.audience = e.audience
    OBVIOUS
  <2> HIDE DEF a, e
  <2>4. [req[r] EXCEPT !.pc = "touch"] \in Request
    BY <1>2, <1>4, PcUpdate
  <2>5. [req[r] EXCEPT !.pc = "touch", !.entry = e.id] \in Request
    BY <2>2, <2>4, EntryUpdate
  <2>6. w2 \in Request
    BY <2>2, <2>5, VerifierUpdate
  <2>7. /\ w2.pc = "touch" /\ w2.verifier = a /\ w2.todo = req[r].todo
        /\ w2.token = req[r].token /\ w2.via = req[r].via /\ w2.methods = req[r].methods
        /\ w2.failed = req[r].failed
    BY <1>2 DEF Request
  <2> HIDE DEF w2
  <2>8. Good(had, w2)
    BY <1>1, <2>1, <2>2, <2>3, <2>6, <2>7, TurnGood
  <2> QED
    BY <1>1, <1>3, <1>6, <2>1, <2>3, <2>8, OneRequest
<1> QED
  BY <1>5, <1>6

\* A verifier is built for the audience that was listed, or the call fails.
LEMMA BuildStep ==
  ASSUME ApiInv, NEW r \in Requests, NEW ok \in BOOLEAN, BuildVerifier(r, ok)
  PROVE  ApiInv'
<1> DEFINE a == [issuer |-> IssuerAt(r), audience |-> At(r).audience]
           w == [req[r] EXCEPT !.pc = "store", !.verifier = a]
<1>1. /\ Set(r, IF ok THEN w ELSE Unreachable(req[r])) /\ UNCHANGED <<config, had, edits>>
      /\ cache' = cache /\ (UNCHANGED faults \/ Fault) /\ req[r].pc \in Searching
      /\ req[r].pc = "build"
  BY DEF BuildVerifier, Searching, Tried
<1>2. /\ req[r] \in Request /\ IssuerAt(r) \in Issuers /\ At(r).audience \in Audiences
      /\ At(r).c \in Configs /\ Item(At(r)) \in had[At(r).c] /\ At(r).enabled \in BOOLEAN
      /\ Good(had, req[r])
  BY <1>1, AtFacts
<1>6. At(r).enabled = TRUE
  BY <1>1, <1>2 DEF Good, Backed, At
<1>3. Stock(had, cache')
  BY <1>1 DEF ApiInv
<1>4. CASE ok
  <2>1. a \in Verifier /\ a.issuer = IssuerAt(r) /\ a.audience = At(r).audience
    BY <1>2 DEF Verifier
  <2>2. HadBy(had, a.issuer, a.audience)
    BY <1>2, <1>6, <2>1 DEF HadBy, IssuerAt, Item
  <2> HIDE DEF a
  <2>3. "store" \in Pcs
    BY DEF Pcs, Searching
  <2>4. [req[r] EXCEPT !.pc = "store"] \in Request
    BY <1>2, <2>3, PcUpdate
  <2>5. w \in Request
    BY <2>1, <2>4, VerifierUpdate
  <2>6. /\ w.pc = "store" /\ w.verifier = a /\ w.todo = req[r].todo
        /\ w.token = req[r].token /\ w.via = req[r].via /\ w.methods = req[r].methods
        /\ w.failed = req[r].failed
    BY <1>2 DEF Request
  <2> HIDE DEF w
  <2>7. Good(had, w)
    BY <1>1, <2>1, <2>2, <2>5, <2>6, TurnGood
  <2> QED
    BY <1>1, <1>2, <1>3, <1>4, <2>1, <2>7, OneRequest
<1>5. CASE ~ok
  <2>1. Good(had, Unreachable(req[r]))
    BY <1>1, <1>2, UnreachableGood
  <2>2. Set(r, Unreachable(req[r]))
    BY <1>1, <1>5
  <2> QED
    BY <1>1, <1>3, <2>1, <2>2, OneRequest
<1> QED
  BY <1>4, <1>5

\* Touch and store end with VerifyToken.
LEMMA VerifyStep ==
  ASSUME ApiInv, NEW r \in Requests, NEW ok \in BOOLEAN, req[r].pc \in {"touch", "store"},
         Set(r, VerifyToken(req[r], ok)), UNCHANGED <<config, had, edits>>, UNCHANGED faults \/ Fault,
         Stock(had, cache')
  PROVE  ApiInv'
<1>1. Good(had, req[r])
  BY DEF ApiInv
<1>2. Good(had, VerifyToken(req[r], ok))
  BY <1>1, VerifyGood
<1> QED
  BY <1>2, OneRequest

\* An entry is touched and keeps its audience.
LEMMA TouchStep ==
  ASSUME ApiInv, NEW r \in Requests, NEW ok \in BOOLEAN, TouchVerifier(r, ok)
  PROVE  ApiInv'
<1>1. /\ req[r].pc = "touch" /\ Set(r, VerifyToken(req[r], ok)) /\ UNCHANGED <<config, had, edits>>
      /\ UNCHANGED faults \/ Fault
      /\ cache' = [i \in Issuers |->
           IF cache[i] # None /\ cache[i].id = req[r].entry THEN [cache[i] EXCEPT !.idle = 0] ELSE cache[i]]
  <2>1. Tried(ok) => UNCHANGED faults \/ Fault
    BY Zenon DEF Tried
  <2> QED
    BY <2>1, Zenon DEF TouchVerifier
<1>2. ASSUME NEW e \in Entry PROVE [e EXCEPT !.idle = 0] \in Entry /\ [e EXCEPT !.idle = 0].audience = e.audience
  <2> DEFINE D == Requests \X Configs
             I == 0..(StaleAfter + 1)
  <2>1. 0 \in I
    BY ApiAssumption
  <2> HIDE DEF D, I
  <2>2. Entry = [id : D, audience : Audiences, idle : I]
    BY DEF Entry, D, I
  <2> QED
    BY <1>2, <2>1, <2>2
<1>3. Stock(had, cache)
  BY DEF ApiInv
<1>4. ASSUME NEW i \in Issuers
      PROVE  /\ cache'[i] \in Entry \cup {None}
             /\ cache'[i] # None => cache[i] # None /\ cache'[i].audience = cache[i].audience
  BY <1>1, <1>2, <1>3 DEF Stock
<1>5. Stock(had, cache')
  <2>1. cache' \in [Issuers -> Entry \cup {None}]
    BY <1>1, <1>4
  <2> QED
    BY <2>1, <1>3, <1>4 DEF Stock
<1> QED
  BY <1>1, <1>5, VerifyStep

\* An entry is stored with the audience of the verifier at hand.
LEMMA StoreStep ==
  ASSUME ApiInv, NEW r \in Requests, NEW ok \in BOOLEAN, StoreVerifier(r, ok)
  PROVE  ApiInv'
<1> DEFINE e == [id |-> <<r, At(r).c>>, audience |-> req[r].verifier.audience, idle |-> 0]
<1>1. /\ req[r].pc = "store" /\ Set(r, VerifyToken(req[r], ok)) /\ UNCHANGED <<config, had, edits>>
      /\ UNCHANGED faults \/ Fault
      /\ cache' = [cache EXCEPT ![IssuerAt(r)] = e]
  <2>1. Tried(ok) => UNCHANGED faults \/ Fault
    BY Zenon DEF Tried
  <2> QED
    BY <2>1, Zenon DEF StoreVerifier
<1>2. /\ At(r).c \in Configs /\ IssuerAt(r) \in Issuers
      /\ req[r].verifier \in Verifier /\ req[r].verifier.issuer = IssuerAt(r)
      /\ HadBy(had, IssuerAt(r), req[r].verifier.audience)
  <2>1. req[r].pc \in Searching
    BY <1>1 DEF Searching
  <2>2. Good(had, req[r]) /\ At(r).c \in Configs /\ IssuerAt(r) \in Issuers
    BY <2>1, AtFacts
  <2> QED
    BY <1>1, <2>2 DEF Good, Formed, Backed, IssuerAt, At
<1>3. e \in Entry /\ e.audience = req[r].verifier.audience
  BY <1>2, ApiAssumption DEF Entry, Verifier
<1> HIDE DEF e
<1>4. Stock(had, cache)
  BY DEF ApiInv
<1>5. Stock(had, cache')
  <2>1. cache \in [Issuers -> Entry \cup {None}]
    BY <1>4 DEF Stock
  <2>2. /\ cache' \in [Issuers -> Entry \cup {None}] /\ cache'[IssuerAt(r)] = e
        /\ \A i \in Issuers : i # IssuerAt(r) => cache'[i] = cache[i]
    BY <1>1, <1>2, <1>3, <2>1
  <2> QED
    BY <1>2, <1>3, <1>4, <2>2 DEF Stock
<1> QED
  BY <1>1, <1>5, VerifyStep
-----------------------------------------------------------------------------
(* Time, the clean-up and the edits; the invariant. *)

\* A step that drops entries, or lets them age.
LEMMA CacheOnly ==
  ASSUME ApiInv, UNCHANGED <<config, req, had, edits, faults>>,
         cache' \in [Issuers -> Entry \cup {None}],
         \A i \in Issuers : cache'[i] # None =>
           cache[i] # None /\ cache'[i].audience = cache[i].audience
  PROVE  ApiInv'
<1>1. Stock(had, cache')
  BY DEF ApiInv, Stock
<1> QED
  BY <1>1 DEF ApiInv

\* The clean-up only drops entries.
LEMMA CleanupStep ==
  ASSUME ApiInv, CleanupStaleVerifiers
  PROVE  ApiInv'
<1>1. cache \in [Issuers -> Entry \cup {None}]
  BY DEF ApiInv, Stock
<1>2. /\ cache' \in [Issuers -> Entry \cup {None}]
      /\ \A i \in Issuers : cache'[i] # None => cache'[i] = cache[i]
  BY <1>1 DEF CleanupStaleVerifiers
<1>3. UNCHANGED <<config, req, had, edits, faults>>
  BY DEF CleanupStaleVerifiers
<1> QED
  BY <1>2, <1>3, CacheOnly

\* Time only lets entries age.
LEMMA TickStep ==
  ASSUME ApiInv, Tick
  PROVE  ApiInv'
<1>1. cache \in [Issuers -> Entry \cup {None}]
  BY DEF ApiInv, Stock
<1>2. ASSUME NEW e \in Entry, e.idle <= StaleAfter
      PROVE  [e EXCEPT !.idle = @ + 1] \in Entry /\ [e EXCEPT !.idle = @ + 1].audience = e.audience
  BY <1>2, ApiAssumption DEF Entry
<1>3. ASSUME NEW i \in Issuers
      PROVE  /\ cache'[i] \in Entry \cup {None}
             /\ cache'[i] # None => cache[i] # None /\ cache'[i].audience = cache[i].audience
  BY <1>1, <1>2 DEF Tick
<1>4. cache' \in [Issuers -> Entry \cup {None}] /\ UNCHANGED <<config, req, had, edits, faults>>
  BY <1>3 DEF Tick
<1> QED
  BY <1>3, <1>4, CacheOnly

\* What was good stays good: the values configurations have had only grow, so what was
\* read is still backed, and fewer tokens are promised anything.
LEMMA GoodStays ==
  ASSUME NEW h \in [Configs -> SUBSET Setting], NEW g \in [Configs -> SUBSET Setting],
         \A c \in Configs : h[c] \subseteq g[c]
  PROVE  /\ \A v : Good(h, v) => Good(g, v)
         /\ \A entries : Stock(h, entries) => Stock(g, entries)
<1>1. \A i, a : HadBy(h, i, a) => HadBy(g, i, a)
  BY DEF HadBy
<1>2. ASSUME NEW v, Good(h, v) PROVE Good(g, v)
  <2>1. v.todo \in Seq(Listed) /\ Formed(v) /\ Backed(h, v) /\ Hopeful(h, v)
    BY <1>2 DEF Good, Formed, Request
  <2>2. ASSUME NEW k \in 1..Len(v.todo) PROVE Item(v.todo[k]) \in g[v.todo[k].c]
    <3>1. v.todo[k] \in Listed
      BY <2>1
    <3>2. v.todo[k].c \in Configs
      BY <3>1 DEF Listed
    <3> QED
      BY <2>1, <3>2 DEF Backed
  <2>3. Backed(g, v)
    BY <1>1, <2>1, <2>2 DEF Backed, Identified
  <2>4. \A i : Always(g, i) \subseteq Always(h, i)
    BY DEF Always
  <2>5. \A t : Promised(g, t) => Promised(h, t)
    BY <2>4 DEF Promised
  <2>6. Hopeful(g, v)
    BY <2>1, <2>4, <2>5 DEF Hopeful
  <2> QED
    BY <2>1, <2>3, <2>6 DEF Good
<1>3. ASSUME NEW entries, Stock(h, entries) PROVE Stock(g, entries)
  BY <1>1, <1>3 DEF Stock
<1> QED
  BY <1>2, <1>3

\* An edit adds a value.
LEMMA EditStep ==
  ASSUME ApiInv, NEW c \in Configs, NEW new \in Setting, EditConfig(c, new)
  PROVE  ApiInv'
<1>1. /\ edits \in 0..MaxEdits /\ edits < MaxEdits /\ edits' = edits + 1
      /\ config' = [config EXCEPT ![c] = new]
      /\ had' = [had EXCEPT ![c] = @ \cup {new}]
      /\ UNCHANGED <<cache, req, faults>>
      /\ config \in [Configs -> Setting]
      /\ had \in [Configs -> SUBSET Setting]
  BY DEF ApiInv, EditConfig
<1>2. edits' \in 0..MaxEdits
  BY <1>1, ApiAssumption
<1>3. /\ config' \in [Configs -> Setting]
      /\ had' \in [Configs -> SUBSET Setting]
      /\ \A d \in Configs : had[d] \subseteq had'[d]
  BY <1>1
<1>4. \A d \in Configs : config'[d] \in had'[d]
  BY <1>1 DEF ApiInv
<1>5. Stock(had', cache) /\ \A r \in Requests : Good(had', req[r])
  <2>1. Stock(had, cache) /\ \A r \in Requests : Good(had, req[r])
    BY DEF ApiInv
  <2> QED
    BY <1>1, <1>3, <2>1, GoodStays
<1>6. Stock(had', cache') /\ \A r \in Requests : Good(had', req'[r])
  BY <1>1, <1>5
<1> QED
  BY <1>1, <1>2, <1>3, <1>4, <1>6 DEF ApiInv

\* The invariant holds at the start.
LEMMA ApiInitially == ApiInit => ApiInv
<1> SUFFICES ASSUME ApiInit PROVE ApiInv
  OBVIOUS
<1> DEFINE w == [Arrived(None) EXCEPT !.pc = "idle"]
<1>1. w \in Request /\ Good(had, w)
  <2>1. 200 \in Codes
    BY DEF Codes
  <2>2. Good(had, w)
    BY <2>1, Fixed
  <2> QED
    BY <2>2 DEF Good, Formed
<1> HIDE DEF w
<1>2. req = [r \in Requests |-> w]
  BY DEF ApiInit, w
<1>3. config \in [Configs -> Setting]
  BY ApiAssumption DEF ApiInit, Setting
<1>4. had \in [Configs -> SUBSET Setting] /\ \A c \in Configs : config[c] \in had[c]
  BY <1>3 DEF ApiInit
<1>5. Stock(had, cache)
  BY DEF ApiInit, Stock
<1>6. edits \in 0..MaxEdits /\ faults \in 0..MaxFaults
  BY ApiAssumption DEF ApiInit
<1> QED
  BY <1>1, <1>2, <1>3, <1>4, <1>5, <1>6 DEF ApiInv

\* Every step keeps the invariant.
LEMMA ApiStep ==
  ASSUME ApiInv, [ApiNext]_apiVars
  PROVE  ApiInv'
<1>1. CASE UNCHANGED apiVars
  BY <1>1 DEF apiVars, ApiInv
<1>2. ASSUME NEW r \in Requests, RequestStep(r) PROVE ApiInv'
  <2>1. CASE \E ok \in BOOLEAN : List(r, ok)
    BY <2>1, ListStep
  <2>2. CASE \E ok \in BOOLEAN : BuildVerifier(r, ok)
    BY <2>2, BuildStep
  <2>3. CASE \E ok \in BOOLEAN : \E pools \in SUBSET Pools : Serve(r, pools, ok)
    BY <2>3, ServeStep
  <2>4. CASE SkipDisabled(r)
    BY <2>4, SkipStep
  <2>5. CASE GetVerifier(r)
    BY <2>5, GetStep
  <2>6. CASE \E ok \in BOOLEAN : TouchVerifier(r, ok)
    BY <2>6, TouchStep
  <2>7. CASE \E ok \in BOOLEAN : StoreVerifier(r, ok)
    BY <2>7, StoreStep
  <2>8. CASE VerifyServiceAccount(r)
    BY <2>8, AccountStep
  <2> QED
    BY <1>2, <2>1, <2>2, <2>3, <2>4, <2>5, <2>6, <2>7, <2>8 DEF RequestStep
<1>3. ASSUME NEW r \in Requests, NEW t \in Tokens, Arrive(r, t) PROVE ApiInv'
  BY <1>3, ArriveStep
<1>4. CASE CleanupStaleVerifiers
  BY <1>4, CleanupStep
<1>5. CASE Tick
  BY <1>5, TickStep
<1>6. config \in [Configs -> Setting]
  BY DEF ApiInv
<1>7. ASSUME NEW c \in Configs, EditConfig(c, [config[c] EXCEPT !.enabled = ~@]) PROVE ApiInv'
  <2>1. [config[c] EXCEPT !.enabled = ~@] \in Setting
    BY <1>6 DEF Setting
  <2> QED
    BY <1>7, <2>1, EditStep
<1>8. ASSUME NEW c \in Configs, NEW a \in Audiences, EditConfig(c, [config[c] EXCEPT !.audience = a])
      PROVE  ApiInv'
  <2>1. [config[c] EXCEPT !.audience = a] \in Setting
    BY <1>6 DEF Setting
  <2> QED
    BY <1>8, <2>1, EditStep
<1> QED
  BY <1>1, <1>2, <1>3, <1>4, <1>5, <1>7, <1>8 DEF ApiNext

\* What ApiInv says of the configurations, the cache and the requests holds in every
\* reachable state of the API server.
THEOREM ApiInvariant == ApiSpec => []ApiInv
<1>1. ApiInit => ApiInv
  BY ApiInitially
<1>2. ApiInv /\ [ApiNext]_apiVars => ApiInv'
  BY ApiStep
<1> QED
  BY <1>1, <1>2, PTL DEF ApiSpec
-----------------------------------------------------------------------------
(* The theorems. *)

\* Every variable keeps its type; a search always has a configuration at hand, and a
\* verifier at hand is one of that configuration's issuer.
THEOREM ApiTypeCorrect == ApiSpec => []ApiTypeOK
<1>1. ApiInv => ApiTypeOK
  BY DEF ApiInv, ApiTypeOK, Good, Formed, Stock
<1> QED
  BY <1>1, ApiInvariant, PTL

\* However many requests build, store, touch and drop verifiers while configurations are
\* edited and providers fail: verifyOIDCToken identifies a live token only through a
\* configuration of its issuer, for an audience that an enabled configuration of that
\* issuer has had; and it finds the configuration of every token whose issuer answers and
\* was only ever configured for that audience, in any number and order of configurations,
\* so that the token does not fall through to verifyServiceAccountToken.
THEOREM TokensIdentified == ApiSpec => []IdentifiedAsConfigured
<1>1. ASSUME ApiInv, NEW r \in Requests, req[r].via # None
      PROVE  /\ req[r].token.live /\ req[r].token.issuer = IssuerOf[req[r].via]
             /\ \E c \in Configs : /\ IssuerOf[c] = req[r].token.issuer
                                  /\ [audience |-> req[r].token.audience, enabled |-> TRUE] \in had[c]
  <2>1. Identified(had, req[r])
    BY <1>1 DEF ApiInv, Good, Backed
  <2> QED
    BY <2>1 DEF Identified, HadBy
<1>2. ASSUME ApiInv, NEW r \in Requests, req[r].pc = "account", Unhindered(req[r]), Configured(req[r].token)
      PROVE  FALSE
  <2>1. Promised(had, req[r].token)
    BY <1>2 DEF Configured, Promised, Always
  <2>2. PICK c : c \in Always(had, req[r].token.issuer)
    BY <2>1 DEF Promised
  <2>3. Ahead(req[r], c)
    BY <1>2, <2>1, <2>2 DEF ApiInv, Good, Hopeful
  <2> QED
    BY <1>2, <2>3 DEF Ahead
<1>3. ApiInv => IdentifiedAsConfigured
  BY <1>1, <1>2 DEF IdentifiedAsConfigured
<1> QED
  BY <1>3, ApiInvariant, PTL
=============================================================================
