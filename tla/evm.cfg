SPECIFICATION Spec
CONSTANTS
  Users <- MCUsers
  Contracts <- MCContracts
  Source = "source"
  Treasury = "treasury"
  NetworkContracts <- MCNetwork
  Derived <- MCDerived
  Salted <- MCSalted
  Slots = {1}
  Codes <- MCCodes
  CodeSize <- MCCodeSize
  NewContractExtraBytes = 1
  DeploymentFee = 1
  DeveloperDeposit = 1
  SetCodeLimit = 3
  InvokeLimit = 1
  Funds = 4
  Limits = {3}
  Values = {0, 1}
  MaxDepth = 3
  MaxNonce = 2
  MaxWrites = 2
  MaxCalls = 2
INVARIANTS TypeOK StoragePaid ContractsProvided
CHECK_DEADLOCK FALSE
