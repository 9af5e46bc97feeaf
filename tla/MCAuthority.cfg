SPECIFICATION Spec
CONSTANTS
  SolKeys = {"k1", "k2", "k3"}
  EthKeys = {"e1"}
  EthAddresses = {"a1"}
  AddressOf <- AddressOfMC
  Fragments = {"default", "m1"}
  DefaultFragment = "default"
  Endpoints = {"s"}
  OtherDids = {}
  ForeignDids = {}
  MaxNonce = 0
  VmSize = 50
  ServiceSize = 40
  OtherSize = 20
  Dids = {"k1", "k2", "k3"}
  MethodInputs <- MethodsMC
  FlagInputs = {{}}
  ServiceInputs = {}
  ControllerInputs <- ControllersMC
  UpdateInputs = {}
  LegacyDocs = {}
  Sizes = {300}
INVARIANTS ChainsProveControl
CHECK_DEADLOCK FALSE
