---------------------------- MODULE MCApiRequests ----------------------------
EXTENDS ApiRequests

CONSTANTS i1, i2, x, y, a, b, m, p1

MCIssuers == {i1, i2}
MCResources == <<a, b>>
MCMethods == <<m>>
\* A pool still lists the issuer of the first resource.
MCIssuerOf == [c \in {a, b, m} |-> IF c = b THEN i2 ELSE i1]
MCRules == [p \in {p1} |-> {"user"}]
\* One of the second provider, one of the first for an audience it does not have yet, with
\* claims the service account check does not take, and one that is expired.
MCTokens ==
  {[issuer |-> i2, audience |-> x, live |-> TRUE, readable |-> TRUE],
   [issuer |-> i1, audience |-> y, live |-> TRUE, readable |-> FALSE],
   [issuer |-> i2, audience |-> x, live |-> FALSE, readable |-> TRUE]}
==============================================================================
