CONSTANTS
  X = X
  Y = Y
  Z = Z
  XY = XY
  YZ = YZ
  ZX = ZX
  YX = YX
  NoKey = NoKey
  NoAccount = NoAccount
  Threshold = 2
  CountWord = 12
  MinCu = 3
  CuWord = 50
  Scale = 4
  Mint <- MCMint
  Pool <- MCPool
  MintA <- MCMintA
  MintB <- MCMintB
  Depth <- MCDepth
  Gives <- MCGives
  Fee <- NoFees
  TickArray <- MCTickArray
  TickArrays <- MCTickArrays
  Word <- MCWord
  Asks <- MCAsks
  Padding <- MCPadding
  Units = {0, 8, 30}
  Bases = {0, 1, 3}
  Submissions <- MCSubmissions
SPECIFICATION Spec
INVARIANT OutputDelivered
