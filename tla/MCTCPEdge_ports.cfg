\* Two tunnels that give up a port and take it over: safety and liveness.
CONSTANTS
  None = None
  Ports = {p1, p2}
  Listeners = {l1, l2}
  Tunnels = {i1, i2}
  Visitors = {v1}
SPECIFICATION FairSpec
INVARIANTS PortServed VisitorsFollowPort
PROPERTIES LeasesUntilShutdown LoopsEndOrPortReused ShutdownEndsLoops
