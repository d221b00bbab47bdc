SPECIFICATION Spec
CONSTANTS
  r1 = r1
  r2 = r2
  Runs = {r1, r2}
  Jobs = {j1, j2}
  BuiltAt <- MCBuiltAt
  NoTime = NoTime
  MaxNow = 1
  MaxRows = 2
SYMMETRY Symmetry
CHECK_DEADLOCK FALSE
INVARIANTS
  FirstReceiptAdmitted
