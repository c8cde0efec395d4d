SPECIFICATION Spec
CONSTANTS
  u1 = u1
  u2 = u2
  dot = dot
  ksm = ksm
  One = 4
  Users = {u1, u2}
  Collaterals = {dot}
  FeedPrices = {2, 4}
  PriceCalls = {"feed"}
  FeeNumerator = 0
  FeeDenominator = 1
  MaxAuctionsCount = 2
  AuctionSizes = {2}
  SurplusAmounts = {}
  AuctionAmounts <- MCAuctionAmounts
  BidPrices = {1}
  MinimumIncrementSize = 2
  AuctionTimeToClose = 1
  AuctionDurationSoftCap = 1
  MaxAuctionId = 2
  MaxBlock = 4
  MinimumDebitValue = 1
  MaxSlippageSwapWithDEX = 1
  SecsPerBlock = 1
  ParamChoices = {}
  GlobalRates = {}
  MaxRate = 8
  RefundAmounts = {3}
  Adjustments <- MCTake
  Trades = {}
  AuthPairs = {}
  NativeFunds = 1
  GovCalls = {"shutdown", "auction"}
  Endowment <- MCEndowment
  InitialPool <- MCNoPool
  DexStable = 0
  GenesisIssuance = 6
  InitialRate = 4
  InitialParams <- MCParams
INVARIANTS
  WinnerCanBePaid
CHECK_DEADLOCK FALSE
SYMMETRY UserSymmetry
