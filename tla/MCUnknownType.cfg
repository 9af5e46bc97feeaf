SPECIFICATION Spec
CONSTANTS
  SolKeys <- SolKeysMC
  EthKeys <- EthKeysMC
  EthAddresses <- EthAddressesMC
  AddressOf <- AddressOfMC
  Fragments = {"default", "m1", "m2"}
  DefaultFragment = "default"
  Endpoints = {"s"}
  OtherDids = {}
  ForeignDids = {}
  MaxNonce = 1
  VmSize = 50
  ServiceSize = 40
  OtherSize = 20
  Dids = {"k1"}
  MethodInputs <- UnknownTypeMC
  FlagInputs <- FlagsMC
  ServiceInputs = {}
  ControllerInputs = {}
  UpdateInputs = {}
  LegacyDocs = {}
  Sizes = {300}
INVARIANTS NoLockout
CHECK_DEADLOCK FALSE
