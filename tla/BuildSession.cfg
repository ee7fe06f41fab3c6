SPECIFICATION SessionFairSpec
CONSTANTS
  Conns = {c1, c2}
  MaxFaults = 1
INVARIANTS SessionTypeOK CleanExit AcceptsUntilStopped
PROPERTIES InterruptEnds ConnectionsEnd GatewayStops
CHECK_DEADLOCK FALSE
