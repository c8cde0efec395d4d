SPECIFICATION Spec
CONSTANTS
  u1 = u1
  u2 = u2
  dot = dot
  ksm = ksm
  One = 4
  Users = {u1, u2}
  Collaterals = {dot}
  FeedPrices = {2, 4}
  PriceCalls = {"feed", "lost", "lock", "unlock"}
  FeeNumerator = 0
  FeeDenominator = 1
  MaxAuctionsCount = 2
  AuctionSizes = {1, 3}
  SurplusAmounts = {1}
  AuctionAmounts <- MCAuctionAmounts
  BidPrices = {2, 3}
  MinimumIncrementSize = 2
  AuctionTimeToClose = 1
  AuctionDurationSoftCap = 1
  MaxAuctionId = 2
  MaxBlock = 2
  MinimumDebitValue = 1
  MaxSlippageSwapWithDEX = 1
  SecsPerBlock = 2
  ParamChoices <- MCParamChoices
  GlobalRates = {0}
  MaxRate = 16
  RefundAmounts = {}
  Adjustments <- MCPayInterest
  Trades = {}
  AuthPairs = {}
  NativeFunds = 1
  GovCalls = {"shutdown", "auction", "extract", "size", "params"}
  Endowment <- MCEndowment
  InitialPool <- MCPool
  DexStable = 5
  GenesisIssuance = 11
  InitialRate = 4
  InitialParams <- MCInterest
INVARIANTS
  AuctionsCovered
PROPERTIES
  RoundingBounded
SYMMETRY UserSymmetry
