SPECIFICATION Spec
CONSTANTS
  Bits = 2
  Values = {1, 3}
  MaxReads = 2
  MaxFaults = 3
INVARIANTS
  GoodIsSent
  CleanIsGood
  BitsFit
CHECK_DEADLOCK FALSE
