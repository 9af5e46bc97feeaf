------------------------------- MODULE SolDid -------------------------------
(***************************************************************************)
(* The did:sol program (programs/sol-did/src): the accounts it keeps and   *)
(* one action per instruction.  A step is one successful transaction with  *)
(* one instruction.  An instruction that fails aborts its transaction,     *)
(* which leaves every account as it was, so that it is not a step at all.  *)
(*                                                                         *)
(* A signature made with a secp256k1 key is data: whoever has it may       *)
(* submit it, at once, late, again, or in another order.  Every            *)
(* instruction may therefore carry a signature over any nonce.             *)
(***************************************************************************)
EXTENDS LegacyDidAccount

CONSTANTS
  Dids,              \* the DIDs of the instance, named by their initial keys
  MethodInputs,      \* verification methods given to add_verification_method
  FlagInputs,        \* flag words given to set_vm_flags
  ServiceInputs,     \* services given to add_service
  ControllerInputs,  \* arguments of set_controllers
  UpdateInputs,      \* arguments of update
  LegacyDocs,        \* documents the predecessor program may hold
  Sizes              \* sizes given to initialize and resize

ASSUME InputAssumption ==
  /\ Dids \subseteq SolKeys
  /\ MethodInputs \subseteq VerificationMethods
  /\ FlagInputs \subseteq SUBSET (0..15)
  /\ ServiceInputs \subseteq Services
  /\ ControllerInputs \subseteq ControllersArgs
  /\ UpdateInputs \subseteq UpdateArgs
  /\ LegacyDocs \subseteq LegacyDidAccounts
  /\ Sizes \subseteq Nat

\* The lists of a legacy document are finite.
ASSUME FiniteAssumption ==
  \A doc \in LegacyDocs :
    /\ IsFiniteSet(doc.verification_method)
    /\ IsFiniteSet(doc.service)
    /\ IsFiniteSet(doc.controller)

VARIABLES
  owner,    \* the program that owns the account of each DID
  data,     \* its content; a generative DID reads as NewAccount
  space,    \* the bytes allocated to it
  signers   \* the keys whose signatures were over the last transaction

vars == <<owner, data, space, signers>>

Init ==
  /\ owner = [d \in Dids |-> "System"]
  /\ data = [d \in Dids |-> NewAccount(d)]
  /\ space = [d \in Dids |-> 0]
  /\ signers = {}

Persisted(d) == owner[d] = "SolDid"

\* Accounts are written back when the instruction ends, if they fit.
Write(d, a, size) ==
  /\ DISCRIMINATOR + Size(a) <= size
  /\ owner' = [owner EXCEPT ![d] = "SolDid"]
  /\ data' = [data EXCEPT ![d] = a]
  /\ space' = [space EXCEPT ![d] = size]

\* The constraints on did_data that all instructions on an existing account
\* share, for a transaction that sol_authority signs.
Authorised(d, sol_authority, message, eth, among) ==
  /\ Persisted(d)
  /\ data[d].initial_verification_method.key_data = d
  /\ IsAuthority(data[d], sol_authority, message, eth, among)
  /\ CanCount(data[d], eth)
  /\ signers' = {sol_authority} \cup Recovered(eth, message, data[d].nonce)

-----------------------------------------------------------------------------
Initialize(d, size) ==
  /\ ~Persisted(d)
  /\ Write(d, NewAccount(d), size)
  /\ signers' = {d}

Resize(d, authority, eth, size) ==
  /\ Authorised(d, authority, <<"size", size>>, eth, Fragments)
  /\ Write(d, Counted(data[d], eth), size)

Close(d, authority, eth) ==
  /\ Authorised(d, authority, <<>>, eth, Fragments)
  /\ owner' = [owner EXCEPT ![d] = "System"]
  /\ data' = [data EXCEPT ![d] = NewAccount(d)]
  /\ space' = [space EXCEPT ![d] = 0]

AddVerificationMethod(d, authority, eth, method) ==
  LET a == Counted(data[d], eth) IN
  /\ Authorised(d, authority, <<"method", method>>, eth, Fragments)
  /\ CanSetVerificationMethods(AllMethods(a), {method})
  /\ Write(d, SetVerificationMethods(a, AllMethods(a), {method}), space[d])

RemoveVerificationMethod(d, authority, eth, fragment) ==
  LET a == RemoveMethod(Counted(data[d], eth), fragment) IN
  /\ Authorised(d, authority, <<"fragment", fragment>>, eth, Fragments)
  /\ ~HasProtected(data[d], {fragment})
  /\ HasAuthority(a)
  /\ Write(d, a, space[d])

\* Mutant: the lockout check runs before the flags are written.
SetVmFlagsCheckedEarly(d, authority, eth, fragment, flags) ==
  /\ Authorised(d, authority, <<"flags", fragment, flags>>, eth,
                FilterFragment(fragment, flags))
  /\ flags \subseteq KnownFlags
  /\ Fragmented(AllMethods(data[d]), fragment) # {}
  /\ HasAuthority(data[d])
  /\ Write(d, WithFlags(Counted(data[d], eth), fragment, flags), space[d])

SetVmFlags(d, authority, eth, fragment, flags) ==
  LET a == WithFlags(Counted(data[d], eth), fragment, flags) IN
  /\ Authorised(d, authority, <<"flags", fragment, flags>>, eth,
                FilterFragment(fragment, flags))
  /\ flags \subseteq KnownFlags
  /\ Fragmented(AllMethods(data[d]), fragment) # {}
  /\ HasAuthority(a)
  /\ Write(d, a, space[d])

AddService(d, authority, eth, service, overwrite) ==
  LET a == Counted(data[d], eth) IN
  /\ Authorised(d, authority, <<"service", service, overwrite>>, eth, Fragments)
  /\ CanAddService(a, service, overwrite)
  /\ Write(d, AddedService(a, service), space[d])

RemoveService(d, authority, eth, fragment) ==
  LET a == Counted(data[d], eth) IN
  /\ Authorised(d, authority, <<"fragment", fragment>>, eth, Fragments)
  /\ Fragmented(a.services, fragment) # {}
  /\ Write(d, [a EXCEPT !.services = WithoutFirst(@, fragment)], space[d])

SetControllersOf(d, authority, eth, arg) ==
  LET a == Counted(data[d], eth) IN
  /\ Authorised(d, authority, <<"controllers", arg>>, eth, Fragments)
  /\ CanSetControllers(a, arg.native_controllers, arg.other_controllers)
  /\ Write(d, SetControllers(a, arg.native_controllers, arg.other_controllers),
           space[d])

Update(d, authority, eth, arg) ==
  LET a == Counted(data[d], eth) IN
  /\ Authorised(d, authority, <<"update", arg>>, eth, Fragments)
  /\ ~HasProtected(a, Fragments)
  /\ CanSetServices(arg.services)
  /\ CanSetVerificationMethods({}, arg.verification_methods)
  /\ CanSetControllers(a, arg.native_controllers, arg.other_controllers)
  /\ HasAuthority(Updated(a, arg))
  /\ Write(d, Updated(a, arg), space[d])

\* Only the payer signs.
Migrate(d, doc) ==
  /\ doc.authority = d
  /\ ~Persisted(d)
  /\ CanMigrate(doc)
  /\ Write(d, Migrated(doc), PostMigrationSize(doc))
  /\ signers' = {}

-----------------------------------------------------------------------------
\* No signature, or one over the message of the instruction and any nonce.
Signatures(message) ==
  {{}} \cup
  {{[key |-> k, message |-> message, nonce |-> n]} :
     k \in EthKeys, n \in 0..MaxNonce}

MethodStep(d, authority) ==
  \/ \E m \in MethodInputs : \E eth \in Signatures(<<"method", m>>) :
       AddVerificationMethod(d, authority, eth, m)
  \/ \E f \in Fragments : \E eth \in Signatures(<<"fragment", f>>) :
       RemoveVerificationMethod(d, authority, eth, f)
  \/ \E f \in Fragments, flags \in FlagInputs :
       \E eth \in Signatures(<<"flags", f, flags>>) :
         SetVmFlags(d, authority, eth, f, flags)

DocumentStep(d, authority) ==
  \/ \E s \in ServiceInputs, overwrite \in BOOLEAN :
       \E eth \in Signatures(<<"service", s, overwrite>>) :
         AddService(d, authority, eth, s, overwrite)
  \/ \E f \in Fragments : \E eth \in Signatures(<<"fragment", f>>) :
       RemoveService(d, authority, eth, f)
  \/ \E arg \in ControllerInputs : \E eth \in Signatures(<<"controllers", arg>>) :
       SetControllersOf(d, authority, eth, arg)
  \/ \E arg \in UpdateInputs : \E eth \in Signatures(<<"update", arg>>) :
       Update(d, authority, eth, arg)

AccountStep(d, authority) ==
  \/ \E size \in Sizes : \E eth \in Signatures(<<"size", size>>) :
       Resize(d, authority, eth, size)
  \/ \E eth \in Signatures(<<>>) : Close(d, authority, eth)

Next ==
  \E d \in Dids :
    \/ \E size \in Sizes : Initialize(d, size)
    \/ \E doc \in LegacyDocs : Migrate(d, doc)
    \/ \E authority \in SolKeys :
         \/ MethodStep(d, authority)
         \/ DocumentStep(d, authority)
         \/ AccountStep(d, authority)

Spec == Init /\ [][Next]_vars

-----------------------------------------------------------------------------
\* Every variable has its type.
TypeOK ==
  /\ owner \in [Dids -> {"System", "SolDid"}]
  /\ data \in [Dids -> DidAccounts]
  /\ space \in [Dids -> Nat]
  /\ signers \subseteq SolKeys \cup EthKeys

\* The names of an account are distinct: no two methods and no two services
\* share one, and only the initial method is called "default", although add,
\* update and migrate each merge a list that may contain a "default"
\* (set_verification_methods, set_services).  Everything that looks an element
\* up by name takes the first one it finds.
DistinctNames ==
  \A d \in Dids :
    /\ UniqueByFragment(data[d].verification_methods)
    /\ Fragmented(data[d].verification_methods, DefaultFragment) = {}
    /\ UniqueByFragment(data[d].services)

\* The address of an account stays derivable from its content: whatever is
\* merged into the initial method, it remains the Ed25519 method "default"
\* with the key that the DID is named by.  All instructions derive the seeds
\* of the account from that key.
AddressDerivable ==
  \A d \in Dids :
    /\ data[d].initial_verification_method.key_data = d
    /\ data[d].initial_verification_method.fragment = DefaultFragment
    /\ data[d].initial_verification_method.method_type =
         Ed25519VerificationKey2018

\* "Prevent lockout" (remove_verification_method, set_vm_flags, update): every
\* account has a method that may authorise the next instruction, and the
\* program can read all of its methods without aborting.
Operable(a) ==
  Readable(a) /\ \E m \in AllMethods(a) : CAPABILITY_INVOCATION \in m.flags
NoLockout == \A d \in Dids : Operable(data[d])

\* A DID is never its own controller and the other controllers are DIDs of
\* other methods, whichever of set_controllers, update and migrate wrote them.
ControllersValid ==
  \A d \in Dids :
    d \notin data[d].native_controllers /\
    data[d].other_controllers \subseteq ForeignDids

\* The space migrate allocates is enough for what it writes, so that no legacy
\* document it accepts is stuck (post_migration_size against size).
MigrationFits ==
  \A d \in Dids, doc \in LegacyDocs :
    doc.authority = d /\ ~Persisted(d) /\ CanMigrate(doc) =>
      DISCRIMINATOR + Size(Migrated(doc)) <= PostMigrationSize(doc)

\* The owner of a method's key signed the last transaction.
SignedBy(key) ==
  key \in signers \/ \E k \in signers \cap EthKeys : AddressOf[k] = key

SameMethod(m, n) ==
  /\ m.fragment = n.fragment
  /\ m.method_type = n.method_type
  /\ m.key_data = n.key_data

\* The guarded flags an instruction adds belong to methods whose owners signed.
FlagsProven(a, b) ==
  \A n \in AllMethods(b) : \A g \in n.flags \cap GuardedFlags :
    \/ SignedBy(n.key_data)'
    \/ \E m \in AllMethods(a) : SameMethod(n, m) /\ g \in m.flags

\* The protected methods of one account are methods of the next.
MethodsKept(a, b) ==
  \A m \in AllMethods(a) :
    PROTECTED \in m.flags => \E n \in AllMethods(b) : SameMethod(m, n)

\* The nonce of an account never falls, and rises with each change, of its
\* content or only of its space, that an Ethereum key signed.
NonceMoves(d) ==
  /\ data'[d].nonce >= data[d].nonce
  /\ <<data'[d], space'[d]>> # <<data[d], space[d]>> /\ signers' \cap EthKeys # {}
     => data'[d].nonce > data[d].nonce

\* Nonces are for "protecting against replay attacks around secp256k1
\* signatures": whatever the instruction, a signature that was accepted is over
\* a nonce that the account never has again until it is closed.
SignaturesSpent ==
  [][\A d \in Dids :
       Persisted(d) /\ Persisted(d)' => NonceMoves(d)]_vars

\* "The subject did proof to be in possession of the private key": on an
\* existing account, a method gains OWNERSHIP_PROOF or PROTECTED only in a
\* transaction signed with the method's own key, whichever instruction and
\* whoever else is an authority (get_filter_fragment, VmGuardedFlagOnAdd).
OwnershipProven ==
  [][\A d \in Dids :
       Persisted(d) /\ Persisted(d)' => FlagsProven(data[d], data'[d])]_vars

\* "This means it cannot be removed": a protected method outlives every step
\* but the closing of the account; neither removal, nor an update of the whole
\* document, nor another method of its name replaces it.
ProtectedStays ==
  [][\A d \in Dids :
       Persisted(d) /\ Persisted(d)' => MethodsKept(data[d], data'[d])]_vars

-----------------------------------------------------------------------------
\* The abstract view: which keys control a DID, and who acts on it.

\* The methods that key k proves possession of by signing.
Proves(k, m) ==
  \/ m.method_type = Ed25519VerificationKey2018 /\ k \in SolKeys
       /\ m.key_data = k
  \/ m.method_type = EcdsaSecp256k1VerificationKey2019 /\ k \in EthKeys
       /\ m.key_data = k
  \/ m.method_type = EcdsaSecp256k1RecoveryMethod2020 /\ k \in EthKeys
       /\ m.key_data = AddressOf[k]

\* The keys in control of an account: those of its capability invocation
\* methods, as long as the program can read the account.
ControlOf(a) ==
  {k \in SolKeys \cup EthKeys :
     /\ Readable(a)
     /\ \E m \in AllMethods(a) :
          CAPABILITY_INVOCATION \in m.flags /\ Proves(k, m)}

\* The keys a legacy document lists under capability_invocation: "default" is
\* its authority, which is meant too when nothing is listed.
LegacyControl(doc) ==
  LET listed == doc.listed[CAPABILITY_INVOCATION] IN
  {k \in {doc.authority} : listed = {} \/ DefaultFragment \in listed} \cup
  {m.pubkey : m \in {v \in doc.verification_method :
                       v.id \in listed \ {DefaultFragment}}}

\* What callers must keep to for NoLockout to hold: they add no method of a
\* type the program does not know, and migrate no document that lets nobody
\* invoke capabilities.
InputsKeepControl ==
  /\ \A m \in MethodInputs : m.method_type \in AuthorityTypes
  /\ \A doc \in LegacyDocs : LegacyControl(doc) # {}

\* Migration hands the account to exactly the keys that the legacy document
\* it is given lets invoke capabilities, although their flags travel by method
\* name through get_flags and set_verification_methods.
MigrationKeepsControl ==
  [][\A d \in Dids, doc \in LegacyDocs :
       Migrate(d, doc) => ControlOf(data'[d]) = LegacyControl(doc)]_vars

Control == INSTANCE DidControl WITH
  Keys    <- SolKeys \cup EthKeys,
  created <- {d \in Dids : Persisted(d)},
  content <- data,
  control <- [d \in Dids |-> ControlOf(data[d])]

\* The program implements DidControl: only keys in control of a DID change its
\* account or hand control over, a transaction touches one DID, and closing
\* the account gives control back to the initial key.
ControlSpec == Control!Spec

-----------------------------------------------------------------------------
\* What the documentation says of the program, and it does not do.

\* Not setting the default method within update removes all flags from it
\* (README of the client's core package).
UpdateClearsDefault ==
  [][\A d \in Dids, authority \in SolKeys, arg \in UpdateInputs :
       \A eth \in Signatures(<<"update", arg>>) :
         /\ Update(d, authority, eth, arg)
         /\ Fragmented(arg.verification_methods, DefaultFragment) = {}
         => data'[d].initial_verification_method.flags = {}]_vars
=============================================================================
