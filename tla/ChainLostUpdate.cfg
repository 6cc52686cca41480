SPECIFICATION FairSpec
CONSTANTS
  N = 4
  DependsOn <- MCDependsOn
  Condition <- MCCondition
  Round <- MCRound
  Group <- MCGroup
  TimeoutGroup <- MCTimeoutGroup
  MaxSeconds <- MCMaxSeconds
  MaxAttempts <- MCMaxAttempts
  Backoff = 1
  MaxConcurrent = 2
  Strategies = {"pause_dag", "abort_dag", "continue"}
  Given = {"pending"}
  Callers = {c1, c2}
  None = None
  MaxRuns = 2
  MaxNow = 2
  Queues = {}
  Graphs = {}
PROPERTIES CompletionKept
