SPECIFICATION DocSpec
CONSTANTS
  SolKeys = {"k1", "k2"}
  EthKeys = {"e1"}
  EthAddresses = {"a1"}
  AddressOf <- AddressOfMC
  Fragments = {"default", "eth-address"}
  DefaultFragment = "default"
  Endpoints = {"s"}
  OtherDids <- OtherDidsMC
  ForeignDids <- ForeignDidsMC
  MaxNonce = 0
  VmSize = 50
  ServiceSize = 40
  OtherSize = 20
  Dids = {"k1"}
  MethodInputs <- HexMethodsMC
  FlagInputs <- FlagsMC
  ServiceInputs <- ServicesMC
  ControllerInputs <- ControllersMC
  UpdateInputs = {}
  LegacyDocs = {}
  Sizes = {400}
  HashSuffixes <- OwnSuffixMC
  Words <- WordsMC
  LowerWords <- LowerWordsMC
  AfterSol <- AfterSolMC
  Named = {"devnet"}
  HandMade = {}
INVARIANTS DocumentsAccepted
CHECK_DEADLOCK FALSE
