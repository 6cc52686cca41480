SPECIFICATION Spec
CONSTANTS
  Hosts = {h1}
  Workers = {w1}
  Callers = {}
  None = None
  Backoffs = {1}
  StaleAfter = 1
  Retention = 1
  DryRuns = FALSE
  LostSaves = FALSE
  MaxRestarts = 1
  MaxPids = 2
  MaxNow = 2
INVARIANTS
  NoLiveWorkerEnded
