SPECIFICATION ApiFairSpec
CONSTANTS
  i1 = i1  i2 = i2  x = x  y = y  a = a  b = b  m = m  p1 = p1
  None = None
  Issuers <- MCIssuers
  Audiences = {x, y}
  Resources <- MCResources
  Methods <- MCMethods
  IssuerOf <- MCIssuerOf
  Tokens <- MCTokens
  Pools = {p1, p2}
  Rules <- MCRules
  Audience = x
  Requests = {r1, r2}
  StaleAfter = 0
  MaxEdits = 1
  MaxFaults = 1
INVARIANTS ApiTypeOK IdentifiedAsConfigured
PROPERTIES UnusedVerifiersGo
CHECK_DEADLOCK FALSE
