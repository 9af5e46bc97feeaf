SPECIFICATION Spec
CONSTANTS
  SolKeys <- SolKeysMC
  EthKeys <- EthKeysMC
  EthAddresses <- EthAddressesMC
  AddressOf <- AddressOfMC
  Fragments = {"default", "m1", "m2"}
  DefaultFragment = "default"
  Endpoints = {"s", "t"}
  OtherDids = {"did:web", "did:sol"}
  ForeignDids = {"did:web"}
  MaxNonce = 2
  VmSize = 50
  ServiceSize = 40
  OtherSize = 20
  Dids = {"k1"}
  MethodInputs <- MethodsMC
  FlagInputs <- FlagsMC
  ServiceInputs <- ServicesMC
  ControllerInputs <- ControllersMC
  UpdateInputs <- AllUpdatesMC
  LegacyDocs = {}
  Sizes = {84, 300}
INVARIANTS TypeOK DistinctNames AddressDerivable NoLockout ControllersValid
PROPERTIES SignaturesSpent OwnershipProven ProtectedStays ControlSpec
CHECK_DEADLOCK FALSE
