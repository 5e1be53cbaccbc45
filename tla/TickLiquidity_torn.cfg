CONSTANTS
  TickCount = 2
  NearTick = 4
  Word = 16
  Positions <- MCPositions
  MaxMoves = 2
SPECIFICATION Spec
INVARIANT EntriesWereTrue
CHECK_DEADLOCK FALSE
