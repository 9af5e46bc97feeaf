SPECIFICATION DocSpec
CONSTANTS
  SolKeys = {"k1", "k2"}
  EthKeys = {}
  EthAddresses = {"a1"}
  AddressOf <- AddressOfMC
  Fragments = {"default", "eth-address"}
  DefaultFragment = "default"
  Endpoints = {"s"}
  OtherDids <- OtherDidsMC
  ForeignDids <- ForeignDidsMC
  MaxNonce = 0
  VmSize = 50
  ServiceSize = 40
  OtherSize = 20
  Dids = {"k1"}
  MethodInputs <- MethodsMC
  FlagInputs <- FlagsMC
  ServiceInputs <- ServicesMC
  ControllerInputs = {}
  UpdateInputs = {}
  LegacyDocs = {}
  Sizes = {400}
  HashSuffixes <- OwnSuffixMC
  Words <- WordsMC
  LowerWords <- LowerWordsMC
  AfterSol <- AfterSolMC
  Named = {"devnet"}
  HandMade = {}
INVARIANTS IdsParse
CHECK_DEADLOCK FALSE
