SPECIFICATION Spec
CONSTANTS
  u1 = u1
  u2 = u2
  dot = dot
  One = 10
  Users = {u1, u2}
  Collaterals = {dot}
  FeeNumerator = 1
  FeeDenominator = 10
  Pairs <- MCOnePair
  TradingPathLimit = 3
  Listings <- MCListings
  Offers <- MCOffers
  Removals = {1, 2}
  Paths <- MCPaths
  SwapAmounts = {1}
  Funds = 3
  MaxBlock = 2
INVARIANTS
  DexSolvent
  ProvisionsRecorded
  SharesAccounted
  NoOrphanLiquidity

  
SYMMETRY UserSymmetry
