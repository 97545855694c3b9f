\* Expected violation of RequestEnds.
CONSTANTS
  None = None
  Body = 3
  Resp = 2
  Window = 1
  Sock = 1
SPECIFICATION FairSpec
PROPERTY RequestEnds
CHECK_DEADLOCK FALSE
