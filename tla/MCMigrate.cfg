SPECIFICATION Spec
CONSTANTS
  SolKeys <- ThreeSolKeysMC
  EthKeys <- EthKeysMC
  EthAddresses <- EthAddressesMC
  AddressOf <- AddressOfMC
  Fragments = {"default", "m1", "m2"}
  DefaultFragment = "default"
  Endpoints = {"s", "t"}
  OtherDids = {}
  ForeignDids = {}
  MaxNonce = 0
  VmSize = 50
  ServiceSize = 40
  OtherSize = 20
  Dids = {"k1", "k2"}
  MethodInputs = {}
  FlagInputs = {{},{3}}
  ServiceInputs = {}
  ControllerInputs = {}
  UpdateInputs = {}
  LegacyDocs <- LegacyMC
  Sizes = {200}
INVARIANTS DistinctNames AddressDerivable NoLockout ControllersValid MigrationFits
PROPERTIES MigrationKeepsControl ControlSpec
CHECK_DEADLOCK FALSE
