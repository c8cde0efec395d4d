SPECIFICATION FairSpec
CONSTANTS
  u1 = u1
  u2 = u2
  dot = dot
  ksm = ksm
  One = 4
  Users = {u1, u2}
  Collaterals = {dot}
  FeedPrices = {2, 4}
  PriceCalls = {"feed"}
  FeeNumerator = 0
  FeeDenominator = 1
  MaxAuctionsCount = 2
  AuctionSizes = {3}
  SurplusAmounts = {}
  AuctionAmounts = {}
  BidPrices = {1, 3}
  MinimumIncrementSize = 2
  AuctionTimeToClose = 1
  AuctionDurationSoftCap = 1
  MaxAuctionId = 1
  MaxBlock = 3
  MinimumDebitValue = 1
  MaxSlippageSwapWithDEX = 1
  SecsPerBlock = 1
  ParamChoices = {}
  GlobalRates = {}
  MaxRate = 8
  RefundAmounts = {}
  Adjustments <- MCTake
  Trades = {}
  AuthPairs = {}
  NativeFunds = 1
  GovCalls = {"shutdown"}
  Endowment <- MCEndowment
  InitialPool <- MCNoPool
  DexStable = 0
  GenesisIssuance = 6
  InitialRate = 4
  InitialParams <- MCParams
  CollateralCurrencyIds <- MCCurrencyIds
  Keys <- MCKeys
  MaxIterations = 1
  MaxPool = 1
PROPERTIES
  SettlementCompletes
  
