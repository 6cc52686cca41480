SPECIFICATION Spec
CONSTANTS
  Tasks = {t1, t2}
  Sessions = {s1, s2}
  None = None
  NoGoal = NoGoal
  Starts <- MCStarts
  Amends <- MCAmends
  MaxCheckpoints = 1
  MaxRows = 2
  CheckpointInterval = 2
  MaxLines = 2
  Rows = {"success", "failure"}
  MaxCalls = 4
  MaxLosses = 1
SYMMETRY Symmetry
INVARIANTS TypeOK DrivingGoalHasContract CompactionKeepsGoal EvidenceIsLogged PointersListed
PROPERTIES SuccessKept LifecycleSpec
CHECK_DEADLOCK FALSE
