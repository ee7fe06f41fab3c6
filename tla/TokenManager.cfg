SPECIFICATION Spec
CONSTANTS
  Tokens = {t1, t2}
  Callers = {c1, c2}
  Endpoints = {e1, e2}
  TTLs <- MCTTLs
  Extensions <- MCExtensions
  DefaultTTL = 2
  MaxTTL = 3
  MaxTime = 4
  NoToken = NoToken
INVARIANTS TypeOK LifetimeCapped NoUseAfterCap
PROPERTIES RevokedForever ImplementsLease
CHECK_DEADLOCK FALSE
