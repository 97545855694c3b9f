\* One visitor and two administrators: two tunnels of one name, one after the other.
SPECIFICATION Spec
CONSTANTS
  x = x
  y = y
  Visitors = {v1}
  Admins = {a1, a2}
  Entries = {e1, e2}
  Names = {n1}
  Limits = {l1}
  Addresses <- MCAddresses
  ACLs <- MCACLs
  None = None
SYMMETRY Symmetry
INVARIANTS LimitEnforced AclEnforced DeleteEnforced
CHECK_DEADLOCK FALSE
