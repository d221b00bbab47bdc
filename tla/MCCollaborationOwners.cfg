SPECIFICATION Spec
CONSTANTS
  Users = {a, b}
  Creator = a
  Requests = {r1, r2}
  None = None
  JoinPerms <- MCDefaultPerms
  MaxCalls = 4
CHECK_DEADLOCK FALSE
INVARIANT AtMostOneOwner
