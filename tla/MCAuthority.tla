---------------------------- MODULE MCAuthority ----------------------------
(***************************************************************************)
(* Three DIDs that make each other their controllers.                      *)
(***************************************************************************)
EXTENDS Authority

AddressOfMC == [k \in {"e1"} |-> "a1"]

\* An Ethereum key that may invoke capabilities.
MethodsMC ==
  {[fragment |-> "m1", flags |-> {3}, method_type |-> 2, key_data |-> "e1"]}

\* One or two controllers; k1 and k2 can form a cycle, all three a longer one.
ControllersMC ==
  {[native_controllers |-> native, other_controllers |-> {}] :
     native \in {{"k1"}, {"k2"}, {"k3"}, {"k2", "k3"}}}
=============================================================================
