SPECIFICATION SeededSpec
CONSTANTS
  Jobs = {j1, j2}
  Sessions = {s1, s2}
  Procs = {p1}
  None = None
  Requests = {"running", "interrupt_requested", "retry_claimed", "completed"}
  Limits = {1, 2}
  ReapTTL = 1
  ActiveTTL = 1
  TerminalTTL = 2
  MaxNow = 2
SYMMETRY Symmetry
INVARIANTS
  TypeOK
  ActiveOwnsSession
  OneActiveJobPerSession
PROPERTIES
  TerminalIsFinal
  LeaseSpec
