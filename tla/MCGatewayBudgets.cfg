SPECIFICATION Spec
CONSTANTS
  c1 = c1
  c2 = c2
  none = none
  NoProject = none
  Defs <- MCDefs
  Requests <- MCRequests
  Callers <- MCCallers
  PeriodLength <- MCPeriodLength
  TTL = 1
  CacheMax = 1
  MaxNow = 1
  MaxPaid = 3
SYMMETRY MCSymmetry
INVARIANTS
  TypeOK
  OvershootBounded
  NoLostReservation
  CacheIsFresh
  
CHECK_DEADLOCK FALSE
