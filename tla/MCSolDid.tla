------------------------------ MODULE MCSolDid ------------------------------
(***************************************************************************)
(* Small instances of SolDid for TLC.                                      *)
(***************************************************************************)
EXTENDS SolDid

\* Two Ed25519 keys, one secp256k1 key and its address.
SolKeysMC == {"k1", "k2"}
EthKeysMC == {"e1"}
EthAddressesMC == {"a1"}
AddressOfMC == [k \in EthKeysMC |-> "a1"]

Method(f, flags, type, key) ==
  [fragment |-> f, flags |-> flags, method_type |-> type, key_data |-> key]
Service(f, e) == [fragment |-> f, endpoint |-> e]
UpdateArg(methods, services, native, other) ==
  [verification_methods |-> methods, services |-> services,
   native_controllers |-> native, other_controllers |-> other]
ControllersArg(native, other) ==
  [native_controllers |-> native, other_controllers |-> other]
None == {}

\* An Ed25519, a secp256k1 and an address method that may invoke capabilities,
\* one that may not; then those the program refuses: a second "default", a
\* guarded flag, a bit it does not know.
MethodsMC ==
  {Method("m1", {3}, 0, "k2"), Method("m2", {3}, 2, "e1"),
   Method("m2", {3}, 1, "a1"), Method("m1", {0}, 0, "k2"),
   Method("default", {3}, 0, "k2"), Method("m1", {3, 7}, 0, "k2"),
   Method("m2", {3, 9}, 2, "e1")}

\* A type the program does not know.
UnknownTypeMC == {Method("m1", {3}, 3, "k2")}

FlagsMC == {{}, {3}, {3, 6}, {3, 7}, {7}, {3, 9}}

UpdatesMC ==
  {UpdateArg({}, {}, {}, {}),
   UpdateArg({Method("m1", {3}, 0, "k2")}, {}, {}, {}),
   UpdateArg({Method("m1", {3}, 3, "k2")}, {}, {}, {}),
   UpdateArg({Method("default", {0}, 0, "k2"), Method("m2", {3}, 2, "e1")},
             {}, {}, {}),
   UpdateArg({Method("m1", {3}, 0, "k2"), Method("m1", {3}, 2, "e1")},
             {}, {}, {})}

\* Two services of one name.
ServicesMC == {Service("m1", "s"), Service("m1", "t")}

\* Another DID, the DID itself (k1), a foreign DID, a did:sol given as foreign.
ControllersMC ==
  {ControllersArg({"k2"}, {"did:web"}), ControllersArg({"k1"}, {}),
   ControllersArg({}, {"did:sol"})}

DocumentUpdatesMC ==
  {UpdateArg({Method("default", {3}, 0, "k2")}, {Service("m1", "s")}, {}, {}),
   UpdateArg({Method("m1", {3}, 0, "k2")},
             {Service("m1", "s"), Service("m2", "s")}, {"k2"}, {"did:web"}),
   UpdateArg({}, {Service("m1", "s"), Service("m1", "t")}, {}, {}),
   UpdateArg({}, {}, {"k1"}, {"did:web"}),
   UpdateArg({}, {}, {}, {"did:sol"})}

\* Everything that update is given.
AllUpdatesMC == UpdatesMC \cup DocumentUpdatesMC

\* Legacy documents of k1: every choice of methods among two called m1 and one
\* called default, of what may invoke capabilities, of services (two of one
\* name) and controllers (k1 itself).
LegacyDoc(methods, invocation, services, controllers) ==
  [authority |-> "k1", verification_method |-> methods,
   listed |-> [b \in 0..4 |-> IF b = 3 THEN invocation
                              ELSE IF b = 0 THEN {"m1", "default"} ELSE {}],
   service |-> services, controller |-> controllers]
LegacyMethodsMC ==
  {[id |-> "m1", pubkey |-> "k2"], [id |-> "m1", pubkey |-> "k3"],
   [id |-> "default", pubkey |-> "k2"]}
AllLegacyMC ==
  {LegacyDoc(ms, cap, ss, cs) :
     ms \in SUBSET LegacyMethodsMC, cap \in SUBSET {"default", "m1"},
     ss \in {{}, {Service("m1", "s")}, {Service("m1", "s"), Service("m1", "t")}},
     cs \in {{}, {"k1"}, {"k2"}}}

\* Those that leave somebody in control.
LegacyMC == {doc \in AllLegacyMC : LegacyControl(doc) # {}}

ThreeSolKeysMC == {"k1", "k2", "k3"}
=============================================================================
