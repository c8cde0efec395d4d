SPECIFICATION Spec
CONSTANTS
  u1 = u1
  u2 = u2
  dot = dot
  ksm = ksm
  One = 4
  Users = {u1, u2}
  Collaterals = {dot, ksm}
  FeedPrices = {2, 4}
  PriceCalls = {"feed"}
  FeeNumerator = 0
  FeeDenominator = 1
  MaxAuctionsCount = 2
  AuctionSizes = {3}
  SurplusAmounts = {}
  AuctionAmounts = {}
  BidPrices = {}
  MinimumIncrementSize = 2
  AuctionTimeToClose = 1
  AuctionDurationSoftCap = 1
  MaxAuctionId = 0
  MaxBlock = 1
  MinimumDebitValue = 1
  MaxSlippageSwapWithDEX = 1
  SecsPerBlock = 1
  ParamChoices = {}
  GlobalRates = {}
  MaxRate = 8
  RefundAmounts = {1, 2}
  Adjustments <- MCOpenClose
  Trades = {}
  AuthPairs <- MCAuthPairs
  NativeFunds = 1
  GovCalls = {"shutdown"}
  Endowment <- MCEndowment2
  InitialPool <- MCPool2
  DexStable = 0
  GenesisIssuance = 6
  InitialRate = 4
  InitialParams <- MCParams

  
PROPERTIES
  RedemptionFair
