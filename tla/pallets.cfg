SPECIFICATION Spec
CONSTANTS
  alice = alice  bob = bob  val1 = val1  val2 = val2  lp = lp  dot = dot  cashToken = cashToken  k = k
  cl1 = cl1  cl2 = cl2  one = one  other = other  ren = ren
  erc1 = erc1  erc2 = erc2  erc3 = erc3  sym = sym
  Groups = {"loans", "dex shares", "guarantees", "election", "starport", "chainsafe", "nft", "accounts", "erc20"}
  One = 10
  Users <- MCUsers
  Validators = {val1, val2}
  LpTokens = {lp}
  Collaterals = {dot}
  StableInPool <- MCStableInPool
  RewardAmounts = {3}
  Rates = {5}
  Amounts = {1, 2}
  ShareAmounts = {1}
  FreezeSets <- MCFreezeSets
  Debits = {0, 1, 2}
  MaxPeriods = 2
  MaxRewards = 3
  MinBondAmount = 2
  GuaranteeDuration = 1
  LiquidRate = 10
  SlashSets <- MCSlashSets
  MaxBlock = 1
  NomineeFilter = {val1, val2}
  MinBondThreshold = 2
  ElectionDuration = 1
  NominateesCount = 1
  MaxUnlockingChunks = 2
  MaxEra = 2
  Assets = {dot, cashToken}
  Authorities <- MCUsers
  Cash = cashToken
  Notices <- MCNotices
  SignatureThreshold = 50
  MaxGatewayAuthorities = 3
  Resources = {one, other}
  OwnResources = {one}
  LocalCurrencies = {ren}
  MaxIncoming = 2
  Classes = {cl1, cl2}
  Tokens = {0, 1}
  Properties <- MCProperties
  CreateClassDeposit = 1
  CreateTokenDeposit = 1
  ProxyDeposit = 1
  Keys = {k}
  Contracts = {erc1, erc2, erc3}
  TokenSymbols = {sym}
  IdOf <- MCIdOf
  IncentiveFunds <- MCIncentiveFunds
  StarportFunds <- MCStarportFunds
  YieldIndices = {1}
  NativeFunds = 4
CHECK_DEADLOCK FALSE
INVARIANTS RewardsCovered GuaranteesAgree VotesAgree BridgesBacked DepositsMatch MappingsInverse
