CONSTANTS
  p1 = p1
  p2 = p2
  m1 = m1
  m2 = m2
  m3 = m3
  c1 = c1
  near1 = near1
  far1 = far1
  None = None
  Pool <- MCPool
  Mint <- MCMint
  Config <- MCConfig
  MintA <- MCMintA
  MintB <- MCMintB
  ConfigOf <- MCConfigOf
  Near <- MCNear
  Far <- MCFar
  MaxMoves = 2
SPECIFICATION Spec
INVARIANTS TypeOK MintsAgree NeverAborts FetchComplete UntornIsExact
CHECK_DEADLOCK FALSE
