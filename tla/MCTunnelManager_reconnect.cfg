\* Two sessions of one token and an edge request: liveness, without symmetry.
CONSTANTS
  None = None
  s1 = s1
  s2 = s2
  t1 = t1
  t2 = t2
  Sessions = {s1, s2}
  Tokens = {t1}
  TokenOf <- SameToken
  Ids = {i1, i2}
  Names = {n1}
  Ports = {p1}
  Admins = {}
  Requests = {r1}
SPECIFICATION FairSpec
PROPERTIES ImplementsFairPortLease RegisterReturns
