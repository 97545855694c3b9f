\* One request larger than the buffers, any service. The request ends.
CONSTANTS
  None = None
  Body = 3
  Resp = 2
  Window = 1
  Sock = 1
SPECIFICATION FairSpec
INVARIANTS WholeResponse UnreachableMeansFailure InputWhole
PROPERTIES WaitEnds ReaderEnds BridgeCompletes TCPEnds
CHECK_DEADLOCK FALSE
