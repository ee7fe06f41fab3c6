SPECIFICATION ExposureFairSpec
CONSTANTS
  PoolSpecs <- MCRefSpecs
  OldTCPRoute = TRUE
  Allowed = {"ingress", "gatewayapi"}
  Ports = {1, 2}
  DefaultPort = 1
  Unset = Unset
  Min = 1
  Max = 1
  Slots = {w1}
  WorkerPhases = {"Allocated"}
  Requests = {r1}
  MaxEdits = 0
  MaxFaults = 0
CHECK_DEADLOCK FALSE
PROPERTY ReferencedGatewayRouted
