SPECIFICATION Spec
CONSTANTS
  u1 = u1
  u2 = u2
  dot = dot
  ksm = ksm
  One = 4
  Users = {u1, u2}
  Collaterals = {dot}
  FeedPrices = {2, 4}
  PriceCalls = {"feed"}
  FeeNumerator = 0
  FeeDenominator = 1
  MaxAuctionsCount = 2
  AuctionSizes = {2}
  SurplusAmounts = {}
  AuctionAmounts = {}
  BidPrices = {1, 2, 3}
  MinimumIncrementSize = 2
  AuctionTimeToClose = 1
  AuctionDurationSoftCap = 1
  MaxAuctionId = 2
  MaxBlock = 3
  MinimumDebitValue = 1
  MaxSlippageSwapWithDEX = 1
  SecsPerBlock = 1
  ParamChoices = {}
  GlobalRates = {}
  MaxRate = 8
  RefundAmounts = {3}
  Adjustments <- MCAdjustments
  Trades = {1}
  AuthPairs = {}
  NativeFunds = 1
  GovCalls = {"shutdown"}
  Endowment <- MCEndowment
  InitialPool <- MCPool
  DexStable = 5
  GenesisIssuance = 11
  InitialRate = 4
  InitialParams <- MCParams
INVARIANTS
  TypeOK
  LoansCustody
  
  ConsumersBalanced
  AuctionTotals
  AuctionsCovered
  StableBacked
  RefundMeansSettled
  ReverseStagePrice
PROPERTIES
  NoNewDebit
  BidderMadeWhole
SYMMETRY UserSymmetry
