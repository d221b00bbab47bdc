SPECIFICATION Spec
CONSTANTS
  Users = {a, b}
  Creator = a
  Requests = {r1, r2}
  None = None
  JoinPerms <- MCJoinPerms
  MaxCalls = 4
SYMMETRY Symmetry
CHECK_DEADLOCK FALSE
INVARIANTS
  TypeOK
  OwnerFlagBacked
  SerialHandoffsKeepOneOwner
  SerialCallsKeepTheOwner
  TidyUsersAgree
