------------------------------ MODULE MCBuilder ------------------------------
(***************************************************************************)
(* Small instances of DidSolTransactionBuilder for TLC.  The DID is k1; k2 *)
(* pays for transactions that are signed with the secp256k1 key e1.        *)
(***************************************************************************)
EXTENDS DidSolTransactionBuilder

SolKeysMC == {"k1", "k2"}
EthKeysMC == {"e1"}
EthAddressesMC == {"a1"}
AddressOfMC == [k \in EthKeysMC |-> "a1"]

Service(f, e) == [fragment |-> f, endpoint |-> e]
Method(f, flags, type, key) ==
  [fragment |-> f, flags |-> flags, method_type |-> type, key_data |-> key]
EthMethod == Method("m1", {3}, 2, "e1")

Add(f, e, overwrite, authority) ==
  Instruction("add_service",
              [service |-> Service(f, e), allow_overwrite |-> overwrite], authority)
Remove(f, authority) == Instruction("remove_service", f, authority)
AddMethod(m, authority) == Instruction("add_verification_method", m, authority)
RemoveMethodOf(f, authority) ==
  Instruction("remove_verification_method", f, authority)
SetFlags(f, flags, authority) ==
  Instruction("set_vm_flags", [fragment |-> f, flags |-> flags], authority)
Controllers(native, authority) ==
  Instruction("set_controllers",
              [native_controllers |-> native, other_controllers |-> {}], authority)
UpdateTo(methods, services, native, authority) ==
  Instruction("update",
              [verification_methods |-> methods, services |-> services,
               native_controllers |-> native, other_controllers |-> {}], authority)
Init0(size) == Instruction("initialize", size, "k1")
Resize0(size, authority) == Instruction("resize", size, authority)
Close0(authority) == Instruction("close", "none", authority)

\* Chained calls.
Call(i) == [instruction |-> i]
Alloc(payer) == [alloc |-> payer]
Signer(k) == [ethSigner |-> k]
Invalid == [invalid |-> TRUE]

\* A document of the predecessor, with a second key in control.
LegacyDocMC ==
  [authority |-> "k1", verification_method |-> {[id |-> "m1", pubkey |-> "k2"]},
   listed |-> [b \in 0..4 |-> IF b = 3 THEN {"m1", "default"} ELSE {}],
   service |-> {Service("m1", "s")}, controller |-> {}]

\* No account; one that e1 controls too, of just the size of its content; a
\* DID of the predecessor.
AccountsMC ==
  {NoAccount, [NoAccount EXCEPT !.legacy = {LegacyDocMC}]} \cup
  Execute(NoAccount, <<Init0(134), AddMethod(EthMethod, "k1")>>, {"k1"})

\* The owner: a chain whose largest size is not the last one; the explicit
\* initialize, resize and close; a migration that closes the legacy account; a
\* chain that throws half-way.
OwnerJobs ==
  {Job(<<Call(AddMethod(Method("m2", {3}, 0, "k2"), "k1")),
         Call(RemoveMethodOf("m2", "k1")),
         Call(Add("m1", "s", FALSE, "k1")), Call(Remove("m1", "k1")),
         Alloc("k1")>>, "rpc"),
   Job(<<Call(Init0(200))>>, "rpc"),
   Job(<<Call(Resize0(300, "k1")), Call(Remove("m1", "k1")),
         Call(Close0("k1"))>>, "rpc"),
   Job(<<[migrate |-> {"k1"}], Call(Remove("m1", "k1"))>>, "rpc"),
   Job(<<[migrate |-> {"k1"}, payer |-> "k1"], Invalid>>, "rpc")}

\* The relay: e1 signs; the default method loses its flags, which lets it
\* replace the document; a single operation that could well be repeated.
RelayJobs ==
  {Job(<<Call(Add("m1", "s", TRUE, "k2")), Call(Add("m1", "t", TRUE, "k2")),
         Call(Controllers({"k2"}, "k2")), Signer("e1"), Alloc("k2")>>, "rpc"),
   Job(<<Call(SetFlags("default", {}, "k2")),
         Call(UpdateTo({EthMethod}, {Service("m2", "s")}, {"k2"}, "k2")),
         Call(Remove("m2", "k2")), Signer("e1"), Alloc("k2")>>, "rpc"),
   Job(<<Call(SetFlags("m1", {0, 3}, "k2")), Signer("e1")>>, "rpc")}

TwoInstancesMC == [c \in {"c1", "c2"} |-> IF c = "c1" THEN "s1" ELSE "s2"]
WalletsMC == [s \in {"s1", "s2"} |-> IF s = "s1" THEN "k1" ELSE "k2"]
TwoInstancesJobsMC ==
  [c \in {"c1", "c2"} |-> IF c = "c1" THEN OwnerJobs ELSE RelayJobs]

\* Two callers of one object: an allocation or an initialize of one throws
\* when the other has queued its own; one pays with another wallet, one throws
\* by itself, one takes the instructions.
SharedMC == [c \in {"c1", "c2"} |-> "s1"]
SharedWalletMC == [s \in {"s1"} |-> "k1"]
SharedJobsMC ==
  [c \in {"c1", "c2"} |->
     {Job(<<Call(Add("m1", "s", TRUE, "k1")), Alloc("k1")>>, "rpc"),
      Job(<<Call(Add("m2", "s", FALSE, "k1")), Call(Init0(200))>>, "rpc"),
      Job(<<Call(Add("m2", "t", TRUE, "k1")), [partialSigners |-> {"k1"}],
            [wallet |-> "k2"], [alloc |-> "k1", authority |-> "k1"]>>, "rpc"),
      Job(<<Call(Resize0(300, "k1")), Invalid>>, "rpc"),
      Job(<<Call(Add("m2", "s", FALSE, "k1")), Alloc("k1")>>, "instructions")}]

\* The chain of the README: k2 has no authority and pays for the space, the
\* wallet k3 pays the fee, and e1 signs.
ReadmeJobsMC ==
  [c \in {"c1"} |->
     {Job(<<Call(AddMethod(Method("m2", {0, 3}, 1, "a1"), "k2")), Alloc("k2"),
            [partialSigners |-> {"k2"}], [wallet |-> "k3"], Signer("e1")>>, "rpc")}]
ReadmeInstanceMC == [c \in {"c1"} |-> "s1"]
ReadmeAccountMC ==
  Execute(NoAccount, <<Init0(134), AddMethod(EthMethod, "k1")>>, {"k1"})
=============================================================================
