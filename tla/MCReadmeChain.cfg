SPECIFICATION Spec
CONSTANTS
  SolKeys = {"k1", "k2", "k3"}
  EthKeys <- EthKeysMC
  EthAddresses <- EthAddressesMC
  AddressOf <- AddressOfMC
  Fragments = {"default", "m1", "m2"}
  DefaultFragment = "default"
  Endpoints = {"s", "t"}
  OtherDids = {}
  ForeignDids = {}
  MaxNonce = 20
  VmSize = 50
  ServiceSize = 40
  OtherSize = 20
  Did = "k1"
  Callers = {"c1"}
  Instances = {"s1"}
  InstanceOf <- ReadmeInstanceMC
  Wallet <- SharedWalletMC
  NonSigningKeys = {}
  Jobs <- ReadmeJobsMC
  FirstAccounts <- ReadmeAccountMC
  MaxCalls = 1
INVARIANTS SignedInFull
CHECK_DEADLOCK FALSE
