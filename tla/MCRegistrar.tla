---------------------------- MODULE MCRegistrar ----------------------------
(***************************************************************************)
(* The registrar at work on the DID of k1; k2 may pay, and the driver      *)
(* generates k3.                                                           *)
(***************************************************************************)
EXTENDS Registrar

SolKeysMC == {"k1", "k2", "k3", "placeholder"}
AddressOfMC == [k \in {"e1"} |-> "a1"]
LowerWordsMC ==
  {"", "sol", "unknown", "devnet", "testnet", "localnet", "civicnet"}
WordsMC == SolKeysMC \cup LowerWordsMC
AfterSolMC == [m \in {"sol", "solid"} |-> IF m = "sol" THEN "" ELSE "id"]

Args(services) ==
  [verification_methods |-> {}, services |-> services,
   native_controllers |-> {}, other_controllers |-> {}]
Document(id) == [id |-> id, args |-> Args({[fragment |-> "m1", endpoint |-> "s"]})]

DevDid == Text("sol", <<"devnet", "k1">>, "")
Request(kind, payer, owner) ==
  [kind |-> kind, identifier |-> DevDid, payer |-> payer, owner |-> owner,
   cluster |-> "devnet", document |-> Document(DevDid)]

RequestsMC ==
  {Request("register", {"k1"}, {"k1"}), Request("register", {"k1"}, {}),
   Request("update", {"k2"}, {"k1"}),
   Request("update", {}, {"k1"}), Request("deactivate", {}, {"k1"}),
   [Request("update", {"k1"}, {}) EXCEPT !.identifier = Text("solid", <<"k1">>, "")]}
JobsMC == RegistrarJobs
InstanceOfMC == [c \in {"c1"} |-> "s1"]
WalletMC == [s \in {"s1"} |-> "placeholder"]
AccountsMC ==
  Execute(NoAccount, <<Instruction("initialize", 134, "k1")>>, {"k1"})
=============================================================================
