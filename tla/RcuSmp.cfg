SPECIFICATION Spec
CONSTANTS
  SMP = TRUE
  Nobody = Nobody
  Loader = Loader
  Readers = {r1, r2}
  Length = 3
  Polite = TRUE
  MaxLoads = 2
INVARIANTS
  NoFault
  NothingLeft
PROPERTIES
  ReadsAreAtomic
CHECK_DEADLOCK FALSE
