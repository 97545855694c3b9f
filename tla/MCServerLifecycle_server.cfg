\* One SSH connection and one request at the edge that goes through it.
SPECIFICATION FairSpec
CONSTANTS
  Conns = {c1}
  Visitors = {v1}
  Failing = {"edge"}
  None = None
INVARIANT StoreOutlivesServing
PROPERTIES StartReturns ServingEnds
CHECK_DEADLOCK FALSE
