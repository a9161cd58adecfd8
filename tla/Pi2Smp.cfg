SPECIFICATION Spec
CONSTANTS
  p1 = p1
  p2 = p2
  Nobody = Nobody
  SMP = TRUE
  Turn = 6
  Procs = {p1, p2}
  Cmds <- OneMover
  Periods = 2
  Eager = FALSE
  MaxCalls = 3
INVARIANTS
  SilentAtRest
  LightsAgree
CHECK_DEADLOCK FALSE
