SPECIFICATION Spec
CONSTANTS
  SolKeys <- SolKeysMC
  EthKeys <- EthKeysMC
  EthAddresses <- EthAddressesMC
  AddressOf <- AddressOfMC
  Fragments = {"default", "m1", "m2"}
  DefaultFragment = "default"
  Endpoints = {"s", "t"}
  OtherDids = {}
  ForeignDids = {}
  MaxNonce = 20
  VmSize = 50
  ServiceSize = 40
  OtherSize = 20
  Did = "k1"
  Callers = {"c1", "c2"}
  Instances = {"s1"}
  InstanceOf <- SharedMC
  Wallet <- SharedWalletMC
  NonSigningKeys = {}
  Jobs <- SharedJobsMC
  FirstAccounts <- AccountsMC
  MaxCalls = 1
INVARIANTS TypeOK QuietIsEmpty
PROPERTIES CallsSettle
CHECK_DEADLOCK FALSE
