SPECIFICATION Spec
CONSTANTS
  SolKeys <- SolKeysMC
  EthKeys <- EthKeysMC
  EthAddresses <- EthAddressesMC
  AddressOf <- AddressOfMC
  Fragments = {"default", "m1", "m2"}
  DefaultFragment = "default"
  Endpoints = {"s"}
  OtherDids = {}
  ForeignDids = {}
  MaxNonce = 1
  VmSize = 50
  ServiceSize = 40
  OtherSize = 20
  Dids = {"k1"}
  MethodInputs = {}
  FlagInputs <- FlagsMC
  ServiceInputs = {}
  ControllerInputs = {}
  UpdateInputs <- UpdatesMC
  LegacyDocs = {}
  Sizes = {300}
PROPERTIES UpdateClearsDefault
CHECK_DEADLOCK FALSE
