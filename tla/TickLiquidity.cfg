CONSTANTS
  TickCount = 2
  NearTick = 4
  Word = 16
  Positions <- MCPositions
  MaxMoves = 2
SPECIFICATION Spec
INVARIANTS TypeOK ListsInOrder ListingExact
CHECK_DEADLOCK FALSE
