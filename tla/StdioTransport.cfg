SPECIFICATION FairSpec
CONSTANTS
  N = 6
  Limit = 2
  Timeout = 2
  Batch = 2
CHECK_DEADLOCK FALSE
INVARIANTS
  TypeOK
PROPERTIES
  ServiceSpec
  LinesAnswered
