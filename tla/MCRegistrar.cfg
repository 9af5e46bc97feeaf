SPECIFICATION Spec
CONSTANTS
  SolKeys <- SolKeysMC
  EthKeys = {"e1"}
  EthAddresses = {"a1"}
  AddressOf <- AddressOfMC
  Fragments = {"default", "m1", "m2"}
  DefaultFragment = "default"
  Endpoints = {"s", "t"}
  OtherDids = {}
  ForeignDids = {}
  MaxNonce = 20
  VmSize = 50
  ServiceSize = 40
  OtherSize = 20
  Did = "k1"
  Callers = {"c1"}
  Instances = {"s1"}
  InstanceOf <- InstanceOfMC
  Wallet <- WalletMC
  NonSigningKeys = {"placeholder"}
  Placeholder = "placeholder"
  Environment = {"k2"}
  Generated = "k3"
  Requests <- RequestsMC
  Words <- WordsMC
  LowerWords <- LowerWordsMC
  AfterSol <- AfterSolMC
  Jobs <- JobsMC
  FirstAccounts <- AccountsMC
  MaxCalls = 1
INVARIANTS RequestsAreSent
CHECK_DEADLOCK FALSE
