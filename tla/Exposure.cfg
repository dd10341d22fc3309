SPECIFICATION MCSpec
CONSTANTS
  Url <- MCUrl
  Load <- MCLoad
  Configured = {1}
  Path <- MCPath
  Caller = {c1}
  Acceptor = {a1, a2}
  Conn = {k1, k2}
  CAP = 1
  MAX_ROUTING = 1
  RoundCycle = 2
  None = None
  Discovery = Discovery
  Closer = Closer
  MaxInput = 6
  CallCost = 3
  TrafficCost = 2
  CloseCost = 2
  FaultCost = 3
INVARIANTS ExposureInv Converged CloseClosesAll
PROPERTIES EveryRelayPolled CloseReleases
CHECK_DEADLOCK FALSE
