SPECIFICATION Spec
CONSTANTS
  p1 = p1
  p2 = p2
  Nobody = Nobody
  SMP = TRUE
  Turn = 1
  Procs = {p1, p2}
  Cmds <- TwoMovers
  Periods = 2
  Eager = TRUE
  MaxCalls = 2
INVARIANTS
  RestsAtStart
CHECK_DEADLOCK FALSE
