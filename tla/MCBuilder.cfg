SPECIFICATION Spec
CONSTANTS
  SolKeys <- SolKeysMC
  EthKeys <- EthKeysMC
  EthAddresses <- EthAddressesMC
  AddressOf <- AddressOfMC
  Fragments = {"default", "m1", "m2"}
  DefaultFragment = "default"
  Endpoints = {"s", "t"}
  OtherDids = {}
  ForeignDids = {}
  MaxNonce = 20
  VmSize = 50
  ServiceSize = 40
  OtherSize = 20
  Did = "k1"
  Callers = {"c1", "c2"}
  Instances = {"s1", "s2"}
  InstanceOf <- TwoInstancesMC
  Wallet <- WalletsMC
  NonSigningKeys = {}
  Jobs <- TwoInstancesJobsMC
  FirstAccounts <- AccountsMC
  MaxCalls = 2
INVARIANTS FreshTransactionsWork OwnOperations SpentNoncesRefused
PROPERTIES LegacyKept
CHECK_DEADLOCK FALSE
