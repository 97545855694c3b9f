\* Two connections: safety and liveness of the retry loop. The client ends.
CONSTANTS
  None = None
  Orphan = Orphan
  Conns = {k1, k2}
  Bounded = TRUE
SPECIFICATION FairSpec
INVARIANTS OpenIsKnown ReturnedClosed SetupIsTrue
PROPERTIES CancelReturns Recovers
CHECK_DEADLOCK FALSE
