SPECIFICATION Spec
CONSTANTS
  Paths = {p1, p2}
  Statuses = {"ok", "error"}
  Inputs <- MCInputs
  Cut = Cut
  Spoilt = Spoilt
  MaxRuns = 3
  MaxFailures = 1
INVARIANTS
  TypeOK
  DoneHasRow
  
PROPERTIES
  RunReturns
CHECK_DEADLOCK FALSE
