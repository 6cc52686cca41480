SPECIFICATION Spec
CONSTANTS
  Hosts = {h1}
  Workers = {w1}
  Callers = {r1, r2}
  None = None
  Backoffs = {1}
  StaleAfter = 1
  Retention = 1
  DryRuns = TRUE
  LostSaves = TRUE
  MaxRestarts = 1
  MaxPids = 3
  MaxNow = 2
INVARIANTS
  TypeOK
  NoLiveChildEnded
  EveryChildRecorded
PROPERTIES
  ResumeOnTime
