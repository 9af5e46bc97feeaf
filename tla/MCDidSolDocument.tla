-------------------------- MODULE MCDidSolDocument --------------------------
(***************************************************************************)
(* Small instances of DidSolDocument: one DID, k1, that others change too. *)
(***************************************************************************)
EXTENDS DidSolDocument

AddressOfMC == [k \in EthKeys |-> "a1"]

WordsMC ==
  {"", "unknown", "devnet", "testnet", "localnet", "civicnet", "sol", "solid",
   "id", "web", "a", "k1", "k2", "default"}
LowerWordsMC == WordsMC \ {"k1", "k2"}
AfterSolMC == [m \in {"sol", "solid"} |-> IF m = "sol" THEN "" ELSE "id"]

\* A foreign DID, a did:sol given as one, and a DID of a method whose name
\* starts with sol.
Web == Text("web", <<"a">>, "")
Sol == Text("sol", <<"k2">>, "")
Solid == Text("solid", <<"k2">>, "")
OtherDidsMC == {Web, Sol, Solid}
ForeignDidsMC == {Web, Solid}

Method(f, flags, type, key) ==
  [fragment |-> f, flags |-> flags, method_type |-> type, key_data |-> key]

\* A method in all lists but one, and a hidden one of the same name, which is
\* the name of README's examples and no word.
MethodsMC ==
  {Method("eth-address", {0, 1, 2, 4}, 1, "a1"),
   Method("eth-address", {3, 5}, 0, "k2")}

\* The initial method loses its protection or is hidden.
FlagsMC == {{3, 6}, {3, 5}}

ServicesMC == {[fragment |-> "eth-address", endpoint |-> "s"]}

ControllersArg(native, other) ==
  [native_controllers |-> native, other_controllers |-> other]
ControllersMC == {ControllersArg({"k2"}, {Web})}

\* A document with a method that "default" and "eth-address" may both invoke.
LegacyMC ==
  {[authority |-> "k1",
    verification_method |-> {[id |-> "eth-address", pubkey |-> "k2"]},
    listed |->
      [b \in 0..4 |-> IF b \in {0, 3} THEN {"eth-address", "default"} ELSE {}],
    service |-> {[fragment |-> "eth-address", endpoint |-> "s"]}, controller |-> {"k2"}]}

\* A document that says little, with an id that is a reference to itself; and
\* one with methods, lists and controllers.
DevnetDid == Text("sol", <<"devnet", "k1">>, "")
MethodEntry(id, type, key) ==
  [id |-> id, type |-> type, text |-> [key |-> key, prefixed |-> TRUE]]
HandMadeMC ==
  {[id |-> DevnetDid,
    service |-> {[id |-> SelfReference("eth-address"), endpoint |-> "s"]}],
   [id |-> DevnetDid, controller |-> {Web, Text("sol", <<"devnet", "k2">>, "")},
    verificationMethod |->
      {MethodEntry(SelfReference("default"), 0, "k1"),
       MethodEntry([DevnetDid EXCEPT !.fragment = "eth-address"], 1, "a1")},
    authentication |-> {SelfReference("eth-address")},
    capabilityInvocation |->
      {SelfReference("eth-address"), [DevnetDid EXCEPT !.fragment = "default"]}]}

\* A 64-byte secp256k1 key.
HexMethodsMC == {Method("eth-address", {3}, 2, "e1")}

\* Names without "#".
OwnSuffixMC == [f \in Fragments |-> {f}]
=============================================================================
