SPECIFICATION FairSpec
CONSTANTS
  None = None
  a = a
  b = b
  c = c
  Relay <- MCRelay
  Listener <- MCListener
  Slow = {b}
INVARIANTS RoutesInv NoForwardingLoop
PROPERTIES RoutesRepaired LeftoversGo
