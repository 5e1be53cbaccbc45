CONSTANTS
  BitmapSize = 2
  ExtSize = 2
  TickCount = 3
SPECIFICATION Spec
INVARIANTS TypeOK KeysAscending KeysExact
