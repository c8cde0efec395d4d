SPECIFICATION Spec
CONSTANTS
  Users = {"alice", "bob", "carol"}
  ExistentialDeposit = 1
  One = 10
  FeeNumerator = 0
  FeeDenominator = 1
  BaseWeight = 1
  LenFee = 0
  WeightFee = 1
  MaxSlippageSwapWithDEX = 5
  MinMultiplier = 5
  Variability = 5
  TargetWeight = 1
  MaxWeight = 3
  Weights = {2}
  UsedWeights = {1, 2}
  Tips = {0}
  Delays = {0, 1}
  MaxTasks = 2
  MaxBlock = 3
  Mints <- MCMints
  Rotations <- MCRotations
  GenesisKey = 1
  MintWeight = 1
  RotateWeight = 1
  MaxBurns = 1
  MinCandidates = 0
  MaxCandidates = 1
  MaxInvulnerables = 1
  KickNumerator = 1
  KickDenominator = 2
  Registered = {"alice", "bob"}
  InvulnerableSets <- MCInvulnerables
  Bonds = {2}
  NativeFunds <- MCNative
  StableFunds <- MCStable
INVARIANTS  TaskFeesReserved BondsReturned 
CHECK_DEADLOCK FALSE
