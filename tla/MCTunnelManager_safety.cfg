\* Two sessions of different tokens and an admin: the safety properties.
CONSTANTS
  None = None
  s1 = s1
  s2 = s2
  t1 = t1
  t2 = t2
  Sessions = {s1, s2}
  Tokens = {t1, t2}
  TokenOf <- TwoTokens
  Ids = {i1, i2}
  Names = {n1, n2}
  Ports = {p1, p2}
  Admins = {a1}
  Requests = {}
SPECIFICATION Spec
SYMMETRY DataSymmetry
INVARIANTS IndexesAgree OneHolder NoPortLeak EvictsOwnToken
PROPERTY ImplementsPortLease
