SPECIFICATION Spec
CONSTANTS
  p1 = p1
  p2 = p2
  Nobody = Nobody
  SMP = FALSE
  Turn = 6
  Procs = {p1, p2}
  Cmds <- Both
  Periods = 2
  Eager = TRUE
  MaxCalls = 3
INVARIANTS
  TypeOK
  
  
CHECK_DEADLOCK FALSE
