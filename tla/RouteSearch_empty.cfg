CONSTANTS
  V = V
  W = W
  X = X
  Y = Y
  Z = Z
  Sol = Sol
  Wsol = W
  Failed = Failed
  NPools = 5
  Mint <- Mints
  Amount <- MCAmount
  Snapshots <- AnySnapshot
  Requests <- TokenRequests
SPECIFICATION Spec
INVARIANT SuccessNamesAPool
