SPECIFICATION FairSpec
CONSTANTS
  SMP = FALSE
  None = None
  MaxFiles = 1
  MaxEdges = 3
  MaxLoads = 3
  MaxLights = 2
INVARIANTS
  TypeOK
  RemovedIsGone
  ClosedIsOff
  RemovedQuietly
  OneLit
PROPERTIES
  LightGoesOut
  LightsInTurn
  RemovalEnds
CHECK_DEADLOCK FALSE
