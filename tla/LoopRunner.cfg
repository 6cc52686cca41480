SPECIFICATION FairSpec
CONSTANTS
  Callers = {c1}
  N = 3
  Reports = {2}
  Threshold = 2
  Research = TRUE
  MaxDepth = 1
  DryRuns = TRUE
  Signals = {"kill", "pause", "redirect", "resume", "feedback"}
  MaxSignals = 2
  MaxCrashes = 2
INVARIANTS
  TypeOK
  PauseFileTruthful
  CheckpointHonoured
  OnlyLastUnrecorded
  PassMeansCommitted
PROPERTIES
  CallReturns
