SPECIFICATION FairSpec
CONSTANTS
  r1 = r1
  r2 = r2
  w1 = w1
  w2 = w2
  Nobody = Nobody
  SMP = TRUE
  Timed = TRUE
  MaxWrites = 4
  Readers <- OneReader
  Writers <- TwoWriters
INVARIANTS
  ReturnsWhatIsLeft
PROPERTIES
  SemSpec
  TimedReadReturns
CHECK_DEADLOCK FALSE
