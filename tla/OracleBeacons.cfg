CONSTANTS
  Node = {0, 1, 2}
  None = None
  Starts <- Row
  Moves <- Walker
  Reach = 4
  FreeBytes = {0, 1}
  Announced <- InTurn
  ORACLEINTERVAL = 1
  ORACLEWAIT = 2
  MINDIST = 1
  MaxRecords = 1
  MaxTime = 4
SPECIFICATION Spec
CHECK_DEADLOCK FALSE
INVARIANT TypeOK EntriesAreTrue RecommendedWasHeard HeardIsFresh
PROPERTY PruneSparesNeighbours
