SPECIFICATION Spec
CONSTANTS
  u1 = u1
  u2 = u2
  dot = dot
  ksm = ksm
  One = 4
  Users = {u1, u2}
  Collaterals = {dot}
  FeedPrices = {4}
  PriceCalls = {}
  FeeNumerator = 0
  FeeDenominator = 1
  MaxAuctionsCount = 2
  AuctionSizes = {2}
  SurplusAmounts = {}
  AuctionAmounts = {}
  BidPrices = {1, 2, 3}
  MinimumIncrementSize = 2
  AuctionTimeToClose = 1
  AuctionDurationSoftCap = 1
  MaxAuctionId = 2
  MaxBlock = 4
  MinimumDebitValue = 1
  MaxSlippageSwapWithDEX = 1
  SecsPerBlock = 1
  ParamChoices = {}
  GlobalRates = {}
  MaxRate = 16
  RefundAmounts = {3}
  Adjustments <- MCTake
  Trades = {}
  AuthPairs = {}
  NativeFunds = 1
  GovCalls = {}
  Endowment <- MCEndowment
  InitialPool <- MCPool
  DexStable = 5
  GenesisIssuance = 11
  InitialRate = 4
  InitialParams <- MCDoubling
INVARIANTS
  InterestBacked
CHECK_DEADLOCK FALSE
SYMMETRY UserSymmetry
