SPECIFICATION Spec
CONSTANTS
  Tasks = {t1}
  Sessions = {s1}
  None = None
  NoGoal = NoGoal
  Starts <- MCStarts
  Amends <- MCAmends
  MaxCheckpoints = 1
  MaxRows = 3
  CheckpointInterval = 3
  MaxLines = 4
  Rows = {"success", "failure"}
  MaxCalls = 4
  MaxLosses = 0
INVARIANT HydratedGoalIsCurrent
CHECK_DEADLOCK FALSE
