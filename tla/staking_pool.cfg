SPECIFICATION Spec
CONSTANTS
  One = 1000
  u1 = u1
  u2 = u2
  Users <- MCUsers1
  SubAccounts = {1, 2}
  BondingDuration = 2
  MaxUnbonding = 1
  RewardRate = 200
  MaxEra = 4
  DefaultExchangeRate = 500
  ParamChoices <- MCParams2
  Mints = {5}
  Redemptions = {7}
  Fees = {1}
  Slashes = {2}
  Funds = 8
  MaxSlashed = 2
INVARIANTS TypeOK PoolLiquid PoolSolvent ClaimsRecorded
PROPERTIES RateKept
