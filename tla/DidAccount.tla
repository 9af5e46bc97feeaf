----------------------------- MODULE DidAccount -----------------------------
(***************************************************************************)
(* The data of one did:sol account and the operations the program applies  *)
(* to it (programs/sol-did/src/state/did_account.rs).                      *)
(*                                                                         *)
(* Abstractions.  A fragment, a key, a service end point and a controller  *)
(* are values that can only be compared.  A flag word is the set of the    *)
(* positions of its bits.  The vectors of the account are sets: no         *)
(* operation depends on their order, methods and services that repeat a    *)
(* name are refused, and a controller is stored once.  An Option argument  *)
(* is a set with at most one member.  A Result is split in two operators:  *)
(* Can... holds when the Rust function returns Ok, the other gives the     *)
(* account it leaves.                                                      *)
(***************************************************************************)
EXTENDS Integers, FiniteSets

CONSTANTS
  SolKeys,          \* Ed25519 public keys; each is also the DID it controls
  EthKeys,          \* secp256k1 public keys
  EthAddresses,     \* 20-byte Ethereum addresses
  AddressOf,        \* the address of each secp256k1 key
  Fragments,        \* names of verification methods and services
  DefaultFragment,  \* "default", the name of the initial method
  Endpoints,        \* what a service is besides its name
  OtherDids,        \* strings given as non-native controllers
  ForeignDids,      \* those that start with did: and not with did:sol:
  MaxNonce,         \* u64::MAX; small in the models
  VmSize, ServiceSize, OtherSize  \* bytes of one serialized element

ASSUME DefaultAssumption == DefaultFragment \in Fragments
ASSUME AddressAssumption == AddressOf \in [EthKeys -> EthAddresses]
ASSUME KeysAssumption ==
  /\ SolKeys \cap EthKeys = {}
  /\ (SolKeys \cup EthKeys) \cap EthAddresses = {}
ASSUME NonceAssumption == MaxNonce \in Nat
ASSUME SizeAssumption == {VmSize, ServiceSize, OtherSize} \subseteq Nat \ {0}

\* VerificationMethodType; the account stores any u8.
Ed25519VerificationKey2018 == 0
EcdsaSecp256k1RecoveryMethod2020 == 1
EcdsaSecp256k1VerificationKey2019 == 2
AuthorityTypes == 0..2

\* VerificationMethodFlags: the bits the program knows, of a u16.
CAPABILITY_INVOCATION == 3
OWNERSHIP_PROOF == 6
PROTECTED == 7
GuardedFlags == {OWNERSHIP_PROOF, PROTECTED}
KnownFlags == 0..7

KeyData == SolKeys \cup EthKeys \cup EthAddresses

VerificationMethods ==
  [fragment: Fragments, flags: SUBSET (0..15), method_type: 0..255,
   key_data: KeyData]

Services == [fragment: Fragments, endpoint: Endpoints]

DidAccounts ==
  [nonce: 0..MaxNonce,
   initial_verification_method: VerificationMethods,
   verification_methods: SUBSET VerificationMethods,
   services: SUBSET Services,
   native_controllers: SUBSET SolKeys,
   other_controllers: SUBSET OtherDids]

\* The arguments of set_controllers and of update.
ControllersArgs ==
  [native_controllers: SUBSET SolKeys, other_controllers: SUBSET OtherDids]
UpdateArgs ==
  [verification_methods: SUBSET VerificationMethods,
   services: SUBSET Services,
   native_controllers: SUBSET SolKeys, other_controllers: SUBSET OtherDids]

-----------------------------------------------------------------------------
\* DidAccount::init: what initialize and migrate write first.
InitAccount(key, flags) ==
  [nonce |-> 0,
   initial_verification_method |->
     [fragment |-> DefaultFragment, flags |-> flags,
      method_type |-> Ed25519VerificationKey2018, key_data |-> key],
   verification_methods |-> {},
   services |-> {},
   native_controllers |-> {},
   other_controllers |-> {}]

\* DidAccount::new: the account a generative DID stands for.
NewAccount(key) ==
  InitAccount(key, {CAPABILITY_INVOCATION, OWNERSHIP_PROOF, PROTECTED})

Fragmented(S, f) == {x \in S : x.fragment = f}

\* No two elements have the same fragment.
UniqueByFragment(S) == \A x, y \in S : x.fragment = y.fragment => x = y

AllMethods(a) == {a.initial_verification_method} \cup a.verification_methods

\* The accessor unwraps the conversion of every method's type and flags.
Readable(a) ==
  \A m \in AllMethods(a) :
    m.method_type \in AuthorityTypes /\ m.flags \subseteq KnownFlags

\* Mutant: only the initial method is looked at.
HasProtectedInitial(a, among) ==
  \E m \in {a.initial_verification_method} :
    PROTECTED \in m.flags /\ m.fragment \in among

\* DidAccount::has_protected_verification_method, among the named methods.
HasProtected(a, among) ==
  \E m \in AllMethods(a) : PROTECTED \in m.flags /\ m.fragment \in among

\* DidAccount::has_authority_verification_methods; on an account the accessor
\* cannot read, the unwrap aborts the instruction.
HasAuthority(a) ==
  Readable(a) /\ \E m \in AllMethods(a) : CAPABILITY_INVOCATION \in m.flags

\* Mutant: any method authorises.
FindAnyMethod(a, type, keys, among) ==
  \E m \in AllMethods(a) :
    m.method_type = type /\ m.key_data \in keys /\ m.fragment \in among

\* DidAccount::find_authority: a method of this type that may invoke
\* capabilities, with one of these keys and one of these names.
FindAuthority(a, type, keys, among) ==
  \E m \in AllMethods(a) :
    /\ m.method_type = type
    /\ CAPABILITY_INVOCATION \in m.flags
    /\ m.key_data \in keys
    /\ m.fragment \in among

\* eth_verify_message: the key recovered from an optional signature.  One that
\* was made over another message or nonce recovers a key nobody has.
Recovered(eth, message, nonce) ==
  {s.key : s \in {t \in eth : t.message = message /\ t.nonce = nonce}}

\* DidAccount::find_authority_constraint returns Some(_).
IsAuthority(a, sol_authority, message, eth, among) ==
  LET recovered == Recovered(eth, message, a.nonce) IN
  /\ Readable(a)
  /\ \/ FindAuthority(a, Ed25519VerificationKey2018, {sol_authority}, among)
     \/ FindAuthority(a, EcdsaSecp256k1VerificationKey2019, recovered, among)
     \/ FindAuthority(a, EcdsaSecp256k1RecoveryMethod2020,
                      {AddressOf[k] : k \in recovered}, among)

\* Mutant: any authority sets guarded flags.
FilterNothing(fragment, flags) == Fragments

\* get_filter_fragment: guarded flags are set by the method itself.
FilterFragment(fragment, flags) ==
  IF flags \cap GuardedFlags = {} THEN Fragments ELSE {fragment}

-----------------------------------------------------------------------------
\* Mutant: the nonce wraps without notice.
CanAlwaysCount(a, eth) == TRUE

\* data.nonce += 1 when a signature is attached; overflow-checks aborts at
\* the top of the u64.
CanCount(a, eth) == eth # {} => a.nonce < MaxNonce

\* Mutant: the nonce stays.
NeverCounted(a, eth) == a

\* The increment itself.
Counted(a, eth) == IF eth = {} THEN a ELSE [a EXCEPT !.nonce = @ + 1]

\* position(..).map(remove): without the first element of that name, if any.
WithoutFirst(S, f) ==
  {x \in S : x.fragment = f => x # CHOOSE y \in Fragmented(S, f) : TRUE}

\* DidAccount::remove_verification_method; the initial method stays, without
\* flags, and a name that is not found changes nothing.
RemoveMethod(a, f) ==
  IF f = a.initial_verification_method.fragment
  THEN [a EXCEPT !.initial_verification_method.flags = {}]
  ELSE [a EXCEPT !.verification_methods = WithoutFirst(@, f)]

\* find_verification_method and the assignment to its flags in set_vm_flags:
\* the initial method is looked at first.
WithFlags(a, f, flags) ==
  IF f = a.initial_verification_method.fragment
  THEN [a EXCEPT !.initial_verification_method.flags = flags]
  ELSE LET m == CHOOSE x \in Fragmented(a.verification_methods, f) : TRUE
       IN [a EXCEPT !.verification_methods =
             (@ \ {m}) \cup {[m EXCEPT !.flags = flags]}]

\* Mutant: the names of the existing methods are not compared.
CanSetAnyNames(existing, incoming) ==
  \A m \in incoming :
    m.flags \subseteq KnownFlags /\ m.flags \cap GuardedFlags = {}

\* DidAccount::set_verification_methods.
CanSetVerificationMethods(existing, incoming) ==
  /\ \A m \in incoming : m.flags \subseteq KnownFlags
  /\ \A m \in incoming : m.flags \cap GuardedFlags = {}
  /\ UniqueByFragment(existing) /\ UniqueByFragment(incoming)
  /\ \A m \in existing, n \in incoming : m.fragment # n.fragment

\* Mutant: the incoming "default" replaces the initial method.
ReplaceInitialMethod(a, existing, incoming) ==
  LET methods == existing \cup incoming
      initial == Fragmented(methods, a.initial_verification_method.fragment)
      named   == CHOOSE m \in initial : TRUE
  IN IF initial = {}
     THEN [a EXCEPT !.verification_methods = methods]
     ELSE [a EXCEPT !.initial_verification_method = named,
                    !.verification_methods = methods \ {named}]

SetVerificationMethods(a, existing, incoming) ==
  LET methods == existing \cup incoming
      initial == Fragmented(methods, a.initial_verification_method.fragment)
      named   == CHOOSE m \in initial : TRUE
  IN IF initial = {}
     THEN [a EXCEPT !.verification_methods = methods]
     ELSE [a EXCEPT !.initial_verification_method.flags = named.flags,
                    !.verification_methods = methods \ {named}]

\* DidAccount::set_services(services, false), for a list without duplicates.
CanSetServices(services) == UniqueByFragment(services)
SetServices(a, services) == [a EXCEPT !.services = services]

\* DidAccount::set_services([service] ++ old, overwrite): unique_by keeps the
\* first service of each name, which is the new one.
CanAddService(a, service, overwrite) ==
  overwrite \/ Fragmented(a.services, service.fragment) = {}
AddedService(a, service) ==
  [a EXCEPT !.services =
     {s \in @ : s.fragment # service.fragment} \cup {service}]

\* Mutant: the DID itself is not looked for.
CanControlItself(a, native, other) == other \subseteq ForeignDids

\* DidAccount::set_native_controllers and set_other_controllers.
CanSetControllers(a, native, other) ==
  /\ a.initial_verification_method.key_data \notin native
  /\ other \subseteq ForeignDids
SetControllers(a, native, other) ==
  [a EXCEPT !.native_controllers = native, !.other_controllers = other]

\* The account after the four setters of update.
Updated(a, arg) ==
  SetControllers(
    SetVerificationMethods(SetServices(a, arg.services), {},
                           arg.verification_methods),
    arg.native_controllers, arg.other_controllers)

\* DidAccount::initial_size and size, and the bytes of Anchor's discriminator.
DISCRIMINATOR == 8
INITIAL_SIZE == 76
CONTROLLER_SIZE == 32
Size(a) ==
  INITIAL_SIZE + VmSize * Cardinality(a.verification_methods)
    + ServiceSize * Cardinality(a.services)
    + CONTROLLER_SIZE * Cardinality(a.native_controllers)
    + OtherSize * Cardinality(a.other_controllers)

\* What holds of the account of DID d after every instruction.
Valid(d, a) ==
  /\ a \in DidAccounts
  /\ a.initial_verification_method.key_data = d
  /\ a.initial_verification_method.fragment = DefaultFragment
  /\ a.initial_verification_method.method_type = Ed25519VerificationKey2018
  /\ UniqueByFragment(a.verification_methods)
  /\ Fragmented(a.verification_methods, DefaultFragment) = {}
  /\ UniqueByFragment(a.services)
  /\ d \notin a.native_controllers
  /\ a.other_controllers \subseteq ForeignDids

\* Vectors are finite.
FiniteLists(a) ==
  /\ IsFiniteSet(a.verification_methods)
  /\ IsFiniteSet(a.services)
  /\ IsFiniteSet(a.native_controllers)
  /\ IsFiniteSet(a.other_controllers)
=============================================================================
