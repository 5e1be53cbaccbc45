CONSTANTS
  MinTick <- MCMinTick
  MaxTick = 5
  TickCount = 4
  LoopLimit = 2
  UnitFee = 1
  Pools <- MCPools
  Asks <- MCAsks
SPECIFICATION Spec
INVARIANT LoopConsumes
