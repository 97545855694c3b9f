\* Three requests for two names and two codes.
SPECIFICATION FairSpec
CONSTANTS
  Requests = {r1, r2, r3}
  Names = {n1, n2}
  Codes = {c1, c2}
  Admin = Admin
  None = None
INVARIANT UsersMatchInvites
PROPERTIES ImplementsAccounts RegistrationEnds
CHECK_DEADLOCK FALSE
