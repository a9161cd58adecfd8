SPECIFICATION FairSpec
CONSTANTS
  r1 = r1
  r2 = r2
  w1 = w1
  w2 = w2
  Nobody = Nobody
  SMP = TRUE
  Timed = FALSE
  MaxWrites = 3
  Readers <- TwoReaders
  Writers <- TwoWriters
INVARIANTS
  TypeOK
  Conserved
  OverdraftBounded
  NoLostWakeup
PROPERTIES
  SleeperLooksAgain
CHECK_DEADLOCK FALSE
