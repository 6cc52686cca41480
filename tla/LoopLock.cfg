SPECIFICATION FairSpec
CONSTANTS
  Procs = {p1, p2, p3}
  None = None
  MaxAge = 2
INVARIANTS
  TypeOK
  ExclusiveUntilBroken
PROPERTIES
  DeadLockExpires
