---------------------------- MODULE SolDidProofs ----------------------------
(***************************************************************************)
(* Theorems about SolDid, for every value of its constants: what holds of  *)
(* every account, who controls it (no lockout, what protected and guarded  *)
(* methods promise, that signatures are not replayed), that SolDid         *)
(* implements DidControl, and that migration hands an account to the keys  *)
(* of its legacy document.                                                 *)
(***************************************************************************)
EXTENDS SolDid, DidAccountProofs

-----------------------------------------------------------------------------
\* The inductive invariant: every account is valid.
IInv == TypeOK /\ \A d \in Dids : Valid(d, data[d])

\* The invariant says of the accounts what the checked invariants say.
LEMMA IInvMeaning ==
  IInv => TypeOK /\ AddressDerivable /\ DistinctNames /\ ControllersValid
BY DEF IInv, Valid, AddressDerivable, DistinctNames, ControllersValid

\* Writing a valid account to one DID preserves the invariant.
LEMMA WriteStep ==
  ASSUME IInv, NEW d \in Dids, NEW a, Valid(d, a), NEW size \in Nat,
         Write(d, a, size), signers' \subseteq SolKeys \cup EthKeys
  PROVE  IInv'
<1>1. TypeOK'
  BY DEF IInv, TypeOK, Write, Valid
<1>2. ASSUME NEW e \in Dids PROVE Valid(e, data'[e])
  BY DEF IInv, TypeOK, Write
<1>3. QED
  BY <1>1, <1>2 DEF IInv, Valid

\* The signers of an authorised transaction, and the space it may keep.
LEMMA AuthorisedFacts ==
  ASSUME IInv, NEW d \in Dids, NEW authority \in SolKeys, NEW message,
         NEW eth \in Signatures(message), NEW among,
         Authorised(d, authority, message, eth, among)
  PROVE  /\ signers' \subseteq SolKeys \cup EthKeys
         /\ Valid(d, Counted(data[d], eth))
         /\ AllMethods(Counted(data[d], eth)) = AllMethods(data[d])
         /\ space[d] \in Nat
         /\ Persisted(d)
<1>1. signers' \subseteq SolKeys \cup EthKeys
  BY DEF Authorised, Recovered, Signatures
<1>2. QED
  BY <1>1, CountedValid DEF IInv, TypeOK, Authorised

\* Every initial state satisfies the invariant.
LEMMA InvInit == Init => IInv
<1> SUFFICES ASSUME Init PROVE IInv
  OBVIOUS
<1>1. ASSUME NEW d \in Dids PROVE Valid(d, NewAccount(d))
  BY NewValid, InputAssumption
<1>2. ASSUME NEW d \in Dids PROVE NewAccount(d) \in DidAccounts
  BY <1>1 DEF Valid
<1>3. data \in [Dids -> DidAccounts]
  BY <1>2 DEF Init
<1>4. QED
  BY <1>1, <1>3 DEF Init, IInv, TypeOK

\* An instruction on the methods of an account preserves the invariant.
LEMMA MethodStepInv ==
  ASSUME IInv, NEW d \in Dids, NEW authority \in SolKeys, MethodStep(d, authority)
  PROVE  IInv'
<1>1. ASSUME NEW m \in MethodInputs, NEW eth \in Signatures(<<"method", m>>),
             AddVerificationMethod(d, authority, eth, m)
      PROVE  IInv'
  <2>1. m \in VerificationMethods
    BY InputAssumption
  <2>2. Authorised(d, authority, <<"method", m>>, eth, Fragments)
    BY <1>1 DEF AddVerificationMethod
  <2> DEFINE a == Counted(data[d], eth)
  <2>3. Valid(d, a) /\ space[d] \in Nat /\ signers' \subseteq SolKeys \cup EthKeys
    BY <2>2, AuthorisedFacts
  <2>4. /\ CanSetVerificationMethods(AllMethods(a), {m})
        /\ Write(d, SetVerificationMethods(a, AllMethods(a), {m}), space[d])
    BY <1>1 DEF AddVerificationMethod
  <2> HIDE DEF a
  <2>5. QED
    BY <2>1, <2>3, <2>4, AddMethodValid, WriteStep
<1>2. ASSUME NEW f \in Fragments, NEW eth \in Signatures(<<"fragment", f>>),
             RemoveVerificationMethod(d, authority, eth, f)
      PROVE  IInv'
  <2>1. Authorised(d, authority, <<"fragment", f>>, eth, Fragments)
    BY <1>2 DEF RemoveVerificationMethod
  <2> DEFINE a == Counted(data[d], eth)
  <2>2. Valid(d, a) /\ space[d] \in Nat /\ signers' \subseteq SolKeys \cup EthKeys
    BY <2>1, AuthorisedFacts
  <2>3. Write(d, RemoveMethod(a, f), space[d])
    BY <1>2 DEF RemoveVerificationMethod
  <2> HIDE DEF a
  <2>4. QED
    BY <2>2, <2>3, RemoveMethodValid, WriteStep
<1>3. ASSUME NEW f \in Fragments, NEW flags \in FlagInputs,
             NEW eth \in Signatures(<<"flags", f, flags>>),
             SetVmFlags(d, authority, eth, f, flags)
      PROVE  IInv'
  <2>1. flags \in SUBSET (0..15)
    BY InputAssumption
  <2>2. Authorised(d, authority, <<"flags", f, flags>>, eth, FilterFragment(f, flags))
    BY <1>3 DEF SetVmFlags
  <2> DEFINE a == Counted(data[d], eth)
  <2>3. /\ Valid(d, a) /\ space[d] \in Nat /\ signers' \subseteq SolKeys \cup EthKeys
        /\ AllMethods(a) = AllMethods(data[d])
    BY <2>2, AuthorisedFacts
  <2>4. /\ Fragmented(AllMethods(data[d]), f) # {}
        /\ Write(d, WithFlags(a, f, flags), space[d])
    BY <1>3 DEF SetVmFlags
  <2> HIDE DEF a
  <2>5. QED
    BY <2>1, <2>3, <2>4, WithFlagsValid, WriteStep
<1>4. QED
  BY <1>1, <1>2, <1>3 DEF MethodStep

\* An update with any arguments of the type of update preserves the invariant.
LEMMA UpdateInv ==
  ASSUME IInv, NEW d \in Dids, NEW authority \in SolKeys, NEW arg \in UpdateArgs,
         NEW eth \in Signatures(<<"update", arg>>), Update(d, authority, eth, arg)
  PROVE  IInv'
<1>1. Authorised(d, authority, <<"update", arg>>, eth, Fragments)
  BY DEF Update
<1> DEFINE a == Counted(data[d], eth)
<1>2. Valid(d, a) /\ space[d] \in Nat /\ signers' \subseteq SolKeys \cup EthKeys
  BY <1>1, AuthorisedFacts
<1>3. /\ CanSetServices(arg.services)
      /\ CanSetVerificationMethods({}, arg.verification_methods)
      /\ CanSetControllers(a, arg.native_controllers, arg.other_controllers)
      /\ Write(d, Updated(a, arg), space[d])
  BY DEF Update
<1> HIDE DEF a
<1>4. QED
  BY <1>2, <1>3, UpdatedValid, WriteStep

\* An instruction on services, controllers or the whole document does too.
LEMMA DocumentStepInv ==
  ASSUME IInv, NEW d \in Dids, NEW authority \in SolKeys, DocumentStep(d, authority)
  PROVE  IInv'
<1>1. ASSUME NEW s \in ServiceInputs, NEW overwrite \in BOOLEAN,
             NEW eth \in Signatures(<<"service", s, overwrite>>),
             AddService(d, authority, eth, s, overwrite)
      PROVE  IInv'
  <2>1. Authorised(d, authority, <<"service", s, overwrite>>, eth, Fragments)
    BY <1>1 DEF AddService
  <2> DEFINE a == Counted(data[d], eth)
  <2>2. Valid(d, a) /\ space[d] \in Nat /\ signers' \subseteq SolKeys \cup EthKeys
    BY <2>1, AuthorisedFacts
  <2>3. Write(d, AddedService(a, s), space[d])
    BY <1>1 DEF AddService
  <2> HIDE DEF a
  <2>4. s \in Services
    BY InputAssumption
  <2>5. Valid(d, AddedService(a, s))
    BY <2>2, <2>4, ServicesValid
  <2>6. QED
    BY <2>2, <2>3, <2>5, WriteStep
<1>2. ASSUME NEW f \in Fragments, NEW eth \in Signatures(<<"fragment", f>>),
             RemoveService(d, authority, eth, f)
      PROVE  IInv'
  <2>1. Authorised(d, authority, <<"fragment", f>>, eth, Fragments)
    BY <1>2 DEF RemoveService
  <2> DEFINE a == Counted(data[d], eth)
             b == [a EXCEPT !.services = WithoutFirst(@, f)]
  <2>2. Valid(d, a) /\ space[d] \in Nat /\ signers' \subseteq SolKeys \cup EthKeys
    BY <2>1, AuthorisedFacts
  <2>3. Write(d, b, space[d])
    BY <1>2 DEF RemoveService
  <2> HIDE DEF a
  <2>4. Valid(d, b)
    BY <2>2, ServicesValid
  <2> HIDE DEF b
  <2>5. QED
    BY <2>2, <2>3, <2>4, WriteStep
<1>3. ASSUME NEW arg \in ControllerInputs, NEW eth \in Signatures(<<"controllers", arg>>),
             SetControllersOf(d, authority, eth, arg)
      PROVE  IInv'
  <2>1. Authorised(d, authority, <<"controllers", arg>>, eth, Fragments)
    BY <1>3 DEF SetControllersOf
  <2> DEFINE a == Counted(data[d], eth)
             b == SetControllers(a, arg.native_controllers, arg.other_controllers)
  <2>2. Valid(d, a) /\ space[d] \in Nat /\ signers' \subseteq SolKeys \cup EthKeys
    BY <2>1, AuthorisedFacts
  <2>3. /\ CanSetControllers(a, arg.native_controllers, arg.other_controllers)
        /\ Write(d, b, space[d])
    BY <1>3 DEF SetControllersOf
  <2> HIDE DEF a
  <2>4. /\ arg.native_controllers \in SUBSET SolKeys
        /\ arg.other_controllers \in SUBSET OtherDids
    BY InputAssumption DEF ControllersArgs
  <2>5. d \notin arg.native_controllers /\ arg.other_controllers \subseteq ForeignDids
    BY <2>2, <2>3 DEF CanSetControllers, Valid
  <2>6. Valid(d, b)
    BY <2>2, <2>4, <2>5, ControllersLemma
  <2> HIDE DEF b
  <2>7. QED
    BY <2>2, <2>3, <2>6, WriteStep
<1>4. ASSUME NEW arg \in UpdateInputs, NEW eth \in Signatures(<<"update", arg>>),
             Update(d, authority, eth, arg)
      PROVE  IInv'
  BY <1>4, InputAssumption, UpdateInv
<1>5. QED
  BY <1>1, <1>2, <1>3, <1>4 DEF DocumentStep

\* Resizing and closing an account do too.
LEMMA AccountStepInv ==
  ASSUME IInv, NEW d \in Dids, NEW authority \in SolKeys, AccountStep(d, authority)
  PROVE  IInv'
<1>1. ASSUME NEW size \in Sizes, NEW eth \in Signatures(<<"size", size>>),
             Resize(d, authority, eth, size)
      PROVE  IInv'
  <2>1. Authorised(d, authority, <<"size", size>>, eth, Fragments)
    BY <1>1 DEF Resize
  <2> DEFINE a == Counted(data[d], eth)
  <2>2. Valid(d, a) /\ signers' \subseteq SolKeys \cup EthKeys
    BY <2>1, AuthorisedFacts
  <2>3. Write(d, a, size)
    BY <1>1 DEF Resize
  <2> HIDE DEF a
  <2>4. QED
    BY <2>2, <2>3, WriteStep, InputAssumption
<1>2. ASSUME NEW eth \in Signatures(<<>>), Close(d, authority, eth)
      PROVE  IInv'
  <2>1. Authorised(d, authority, <<>>, eth, Fragments)
    BY <1>2 DEF Close
  <2>2. signers' \subseteq SolKeys \cup EthKeys
    BY <2>1, AuthorisedFacts
  <2>3. Valid(d, NewAccount(d))
    BY NewValid, InputAssumption
  <2>4. TypeOK'
    BY <1>2, <2>2, <2>3 DEF Close, IInv, TypeOK, Valid
  <2>5. ASSUME NEW e \in Dids PROVE Valid(e, data'[e])
    BY <1>2, <2>3 DEF Close, IInv, TypeOK
  <2>6. QED
    BY <2>4, <2>5 DEF IInv, Valid
<1>3. QED
  BY <1>1, <1>2 DEF AccountStep

\* The invariant is preserved by every step.
LEMMA InvStep == IInv /\ [Next]_vars => IInv'
<1> SUFFICES ASSUME IInv, [Next]_vars PROVE IInv'
  OBVIOUS
<1>1. CASE UNCHANGED vars
  BY <1>1 DEF vars, IInv, TypeOK, Valid
<1>2. ASSUME NEW d \in Dids, NEW size \in Sizes, Initialize(d, size)
      PROVE  IInv'
  <2>1. d \in SolKeys /\ size \in Nat
    BY InputAssumption
  <2>2. QED
    BY <1>2, <2>1, NewValid, WriteStep DEF Initialize
<1>3. ASSUME NEW d \in Dids, NEW doc \in LegacyDocs, Migrate(d, doc)
      PROVE  IInv'
  <2>1. doc \in LegacyDidAccounts /\ doc.authority = d /\ CanMigrate(doc)
    BY <1>3, InputAssumption DEF Migrate
  <2>2. Valid(d, Migrated(doc))
    BY <2>1, MigratedValid
  <2>3. PostMigrationSize(doc) \in Nat
    BY InputAssumption, FiniteAssumption, MigratedFinite
  <2>4. Write(d, Migrated(doc), PostMigrationSize(doc)) /\ signers' = {}
    BY <1>3 DEF Migrate
  <2>5. QED
    BY <2>2, <2>3, <2>4, WriteStep
<1>4. QED
  BY <1>1, <1>2, <1>3, MethodStepInv, DocumentStepInv, AccountStepInv DEF Next

\* The inductive invariant holds in every state: types, the shape of the initial
\* method, distinct names and valid controllers of each account.
THEOREM Invariance == Spec => []IInv
BY InvInit, InvStep, PTL DEF Spec

\* Every variable keeps its type.
THEOREM TypeCorrect == Spec => []TypeOK
BY Invariance, IInvMeaning, PTL

\* No two methods and no two services of an account ever share a name, and
\* only the initial method is called "default".
THEOREM NamesDistinct == Spec => []DistinctNames
BY Invariance, IInvMeaning, PTL

\* The seeds of every account stay derivable from its initial method.
THEOREM AddressesDerivable == Spec => []AddressDerivable
BY Invariance, IInvMeaning, PTL

\* No DID is its own controller.
THEOREM ControllersAlwaysValid == Spec => []ControllersValid
BY Invariance, IInvMeaning, PTL

-----------------------------------------------------------------------------
(* What each operation does to the set of all methods of an account.       *)

\* The names of all methods are distinct, the initial one included.
LEMMA NamesOfAllMethods ==
  ASSUME NEW d, NEW a, Valid(d, a)
  PROVE  UniqueByFragment(AllMethods(a))
BY DEF Valid, UniqueByFragment, AllMethods, Fragmented

\* Adding a method adds it.
LEMMA AddMethods ==
  ASSUME NEW d, NEW a, Valid(d, a), NEW m \in VerificationMethods,
         CanSetVerificationMethods(AllMethods(a), {m})
  PROVE  AllMethods(SetVerificationMethods(a, AllMethods(a), {m})) =
           AllMethods(a) \cup {m}
<1>1. AllMethods([a EXCEPT !.verification_methods = a.verification_methods \cup {m}])
        = AllMethods(a) \cup {m}
  BY DEF AllMethods, Valid, DidAccounts
<1>2. QED
  BY <1>1, AddMethodEffect

\* Services and controllers are apart from the methods.
LEMMA SameMethods ==
  ASSUME NEW d, NEW a, Valid(d, a)
  PROVE  /\ \A ss : AllMethods(SetServices(a, ss)) = AllMethods(a)
         /\ \A s : AllMethods(AddedService(a, s)) = AllMethods(a)
         /\ \A f : AllMethods([a EXCEPT !.services = WithoutFirst(@, f)]) =
                     AllMethods(a)
         /\ \A native, other :
              AllMethods(SetControllers(a, native, other)) = AllMethods(a)
<1>1. \A ss : AllMethods(SetServices(a, ss)) = AllMethods(a)
  BY DEF AllMethods, SetServices, Valid, DidAccounts
<1>2. \A s : AllMethods(AddedService(a, s)) = AllMethods(a)
  BY DEF AllMethods, AddedService, Valid, DidAccounts
<1>3. \A f : AllMethods([a EXCEPT !.services = WithoutFirst(@, f)]) = AllMethods(a)
  BY DEF AllMethods, Valid, DidAccounts
<1>4. \A native, other : AllMethods(SetControllers(a, native, other)) = AllMethods(a)
  BY DEF AllMethods, SetControllers, Valid, DidAccounts
<1>5. QED
  BY <1>1, <1>2, <1>3, <1>4

\* Removing a name keeps the methods of other names; what is left is an old
\* method or the initial one without flags.
LEMMA RemoveMethods ==
  ASSUME NEW d, NEW a, Valid(d, a), NEW f
  PROVE  /\ \A m \in AllMethods(a) :
              m.fragment # f => m \in AllMethods(RemoveMethod(a, f))
         /\ \A n \in AllMethods(RemoveMethod(a, f)) :
              \/ n \in AllMethods(a)
              \/ n.flags = {} /\ SameMethod(n, a.initial_verification_method)
<1>1. CASE f = a.initial_verification_method.fragment
  <2> DEFINE n == [a.initial_verification_method EXCEPT !.flags = {}]
  <2>1. AllMethods(RemoveMethod(a, f)) = {n} \cup a.verification_methods
    BY <1>1 DEF RemoveMethod, AllMethods, Valid, DidAccounts
  <2>2. n.flags = {} /\ SameMethod(n, a.initial_verification_method)
    BY DEF SameMethod, Valid, DidAccounts, VerificationMethods
  <2> HIDE DEF n
  <2>3. QED
    BY <1>1, <2>1, <2>2 DEF AllMethods
<1>2. CASE f # a.initial_verification_method.fragment
  <2>1. AllMethods(RemoveMethod(a, f)) =
          {a.initial_verification_method} \cup WithoutFirst(a.verification_methods, f)
    BY <1>2 DEF RemoveMethod, AllMethods, Valid, DidAccounts
  <2>2. QED
    BY <2>1 DEF AllMethods, WithoutFirst
<1>3. QED
  BY <1>1, <1>2

\* Overwriting flags keeps every method and changes the flags of one name.
LEMMA FlagMethods ==
  ASSUME NEW d, NEW a, Valid(d, a), NEW f, NEW flags \in SUBSET (0..15),
         Fragmented(AllMethods(a), f) # {}
  PROVE  /\ \A m \in AllMethods(a) :
              \E n \in AllMethods(WithFlags(a, f, flags)) : SameMethod(m, n)
         /\ \A n \in AllMethods(WithFlags(a, f, flags)) :
              \/ n \in AllMethods(a)
              \/ /\ n.fragment = f /\ n.flags = flags
                 /\ \E m \in AllMethods(a) : SameMethod(n, m)
<1>1. CASE f = a.initial_verification_method.fragment
  <2> DEFINE i == a.initial_verification_method
             n == [i EXCEPT !.flags = flags]
  <2>1. AllMethods(WithFlags(a, f, flags)) = {n} \cup a.verification_methods
    BY <1>1 DEF WithFlags, AllMethods, Valid, DidAccounts
  <2>2. n.flags = flags /\ SameMethod(n, i) /\ n.fragment = f
    BY <1>1 DEF SameMethod, Valid, DidAccounts, VerificationMethods
  <2> HIDE DEF n
  <2>3. QED
    BY <2>1, <2>2 DEF AllMethods, SameMethod
<1>2. CASE f # a.initial_verification_method.fragment
  <2> DEFINE m == CHOOSE x \in Fragmented(a.verification_methods, f) : TRUE
             n == [m EXCEPT !.flags = flags]
  <2>1. m \in a.verification_methods /\ m.fragment = f
    BY <1>2 DEF Fragmented, AllMethods
  <2>2. m \in VerificationMethods
    BY <2>1 DEF Valid, DidAccounts
  <2>3. AllMethods(WithFlags(a, f, flags)) =
          {a.initial_verification_method} \cup
            ((a.verification_methods \ {m}) \cup {n})
    BY <1>2 DEF WithFlags, AllMethods, Valid, DidAccounts
  <2> HIDE DEF m
  <2>4. n.flags = flags /\ SameMethod(n, m) /\ n.fragment = f
    BY <2>1, <2>2 DEF SameMethod, VerificationMethods
  <2> HIDE DEF n
  <2>5. QED
    BY <2>1, <2>3, <2>4 DEF AllMethods, SameMethod
<1>3. QED
  BY <1>1, <1>2

\* Replacing the methods leaves the given ones, but for a "default", whose
\* flags the initial method takes.
LEMMA ReplaceMethods ==
  ASSUME NEW d, NEW a, Valid(d, a), NEW ms \in SUBSET VerificationMethods
  PROVE  /\ \A n \in AllMethods(SetVerificationMethods(a, {}, ms)) :
              \/ n \in ms
              \/ /\ SameMethod(n, a.initial_verification_method)
                 /\ \/ n = a.initial_verification_method
                    \/ \E m \in ms : n.flags = m.flags
         /\ \A m \in ms :
              m.fragment # DefaultFragment =>
                m \in AllMethods(SetVerificationMethods(a, {}, ms))
         /\ Fragmented(ms, DefaultFragment) = {} =>
              a.initial_verification_method \in
                AllMethods(SetVerificationMethods(a, {}, ms))
<1> DEFINE i == a.initial_verification_method
           named == Fragmented({} \cup ms, i.fragment)
           m == CHOOSE x \in named : TRUE
           n == [i EXCEPT !.flags = m.flags]
<1>0. named = Fragmented(ms, DefaultFragment)
  BY DEF Valid
<1>1. CASE named = {}
  <2>1. AllMethods(SetVerificationMethods(a, {}, ms)) = {i} \cup ms
    BY <1>1 DEF SetVerificationMethods, AllMethods, Valid, DidAccounts
  <2>2. QED
    BY <2>1 DEF SameMethod
<1>2. CASE named # {}
  <2>1. m \in ms /\ m.fragment = DefaultFragment
    BY <1>0, <1>2 DEF Fragmented
  <2>2. AllMethods(SetVerificationMethods(a, {}, ms)) = {n} \cup (ms \ {m})
    BY <1>2 DEF SetVerificationMethods, AllMethods, Valid, DidAccounts
  <2>3. SameMethod(n, i) /\ n.flags = m.flags
    BY DEF SameMethod, Valid, DidAccounts, VerificationMethods
  <2> HIDE DEF m, n, named
  <2>4. QED
    BY <1>0, <1>2, <2>1, <2>2, <2>3
<1>3. QED
  BY <1>1, <1>2

-----------------------------------------------------------------------------
(* No lockout.                                                             *)

\* The lockout check of the program finds what it is for.
LEMMA LockoutCheck ==
  ASSUME NEW a
  PROVE  HasAuthority(a) <=> Operable(a)
BY DEF HasAuthority, Operable

\* Only the methods of an account make it operable.
LEMMA OperableBy ==
  ASSUME NEW a, NEW b, AllMethods(a) = AllMethods(b), Operable(a)
  PROVE  Operable(b)
BY DEF Operable, Readable

\* A new account is operable.
LEMMA NewOperable ==
  ASSUME NEW d
  PROVE  Operable(NewAccount(d))
<1> DEFINE i == NewAccount(d).initial_verification_method
<1>1. AllMethods(NewAccount(d)) = {i}
  BY DEF AllMethods, NewAccount, InitAccount
<1>2. i.method_type = 0 /\ i.flags = {3, 6, 7}
  BY DEF NewAccount, InitAccount, Ed25519VerificationKey2018,
         CAPABILITY_INVOCATION, OWNERSHIP_PROOF, PROTECTED
<1> HIDE DEF i
<1>3. QED
  BY <1>1, <1>2 DEF Operable, Readable, AuthorityTypes, KnownFlags,
                    CAPABILITY_INVOCATION

\* The methods of a migrated account are those of the legacy document, and a
\* "default" with at least the flags that get_flags finds for that name.
LEMMA MigratedMethodsFacts ==
  ASSUME NEW doc \in LegacyDidAccounts, CanMigrate(doc)
  PROVE  /\ \A n \in AllMethods(Migrated(doc)) :
              \/ n \in MigratedMethods(doc) /\ n.fragment # DefaultFragment
              \/ /\ n = Migrated(doc).initial_verification_method
                 /\ n.flags \cap LegacyFlags = GetFlags(doc, DefaultFragment)
                 /\ n.flags \subseteq KnownFlags
         /\ \A m \in MigratedMethods(doc) :
              m.fragment # DefaultFragment => m \in AllMethods(Migrated(doc))
         /\ GetFlags(doc, DefaultFragment) \subseteq
              Migrated(doc).initial_verification_method.flags
<1> DEFINE flags == GetFlags(doc, DefaultFragment) \cup GuardedFlags
           blank == InitAccount(doc.authority, flags)
           ms == MigratedMethods(doc)
           b == SetVerificationMethods(blank, {}, ms)
           c == SetServices(b, doc.service)
           named == Fragmented({} \cup ms, DefaultFragment)
<1>1. \A f : GetFlags(doc, f) \subseteq LegacyFlags
  BY DEF GetFlags, LegacyFlags, CAPABILITY_INVOCATION
<1>2. \A m \in ms : m.flags = GetFlags(doc, m.fragment)
  BY DEF MigratedMethods
<1>3. flags \subseteq KnownFlags /\ flags \cap LegacyFlags = GetFlags(doc, DefaultFragment)
  BY <1>1 DEF GuardedFlags, OWNERSHIP_PROOF, PROTECTED, LegacyFlags, KnownFlags
<1>4. /\ blank.initial_verification_method.fragment = DefaultFragment
      /\ blank.initial_verification_method.flags = flags
  BY DEF InitAccount
<1> HIDE DEF flags
<1>5. /\ AllMethods(Migrated(doc)) = AllMethods(b)
      /\ Migrated(doc).initial_verification_method = b.initial_verification_method
  BY DEF Migrated, AllMethods, SetControllers, SetServices, SetVerificationMethods,
         InitAccount, flags
<1>6. CASE named = {}
  <2>1. b = [blank EXCEPT !.verification_methods = ms]
    BY <1>4, <1>6 DEF SetVerificationMethods
  <2>2. /\ AllMethods(b) = {blank.initial_verification_method} \cup ms
        /\ b.initial_verification_method = blank.initial_verification_method
    BY <2>1 DEF AllMethods, InitAccount
  <2>3. \A m \in ms : m.fragment # DefaultFragment
    BY <1>6 DEF Fragmented
  <2> HIDE DEF blank, b, ms
  <2>4. QED
    BY <1>3, <1>4, <1>5, <2>2, <2>3 DEF ms, b, blank
<1>7. CASE named # {}
  <2> DEFINE m == CHOOSE x \in named : TRUE
             n == [blank.initial_verification_method EXCEPT !.flags = m.flags]
  <2>1. m \in ms /\ m.fragment = DefaultFragment
    BY <1>7 DEF Fragmented
  <2>2. b = [blank EXCEPT !.initial_verification_method.flags = m.flags,
                          !.verification_methods = ms \ {m}]
    BY <1>4, <1>7 DEF SetVerificationMethods
  <2>3. AllMethods(b) = {n} \cup (ms \ {m}) /\ b.initial_verification_method = n
    BY <2>2 DEF AllMethods, InitAccount
  <2>4. n.flags = GetFlags(doc, DefaultFragment)
    BY <1>2, <2>1 DEF InitAccount
  <2>5. \A x \in ms \ {m} : x.fragment # DefaultFragment
    BY <2>1 DEF CanMigrate, UniqueByFragment
  <2> HIDE DEF n, m, b, blank
  <2>6. n.flags \subseteq KnownFlags /\ n.flags \cap LegacyFlags = n.flags
    BY <1>1, <2>4 DEF LegacyFlags, KnownFlags
  <2>7. QED
    BY <1>5, <2>1, <2>3, <2>4, <2>5, <2>6
<1>8. QED
  BY <1>6, <1>7

\* The program can read every account that migration makes.
LEMMA MigratedReadable ==
  ASSUME NEW doc \in LegacyDidAccounts, CanMigrate(doc)
  PROVE  Readable(Migrated(doc))
<1> DEFINE a == Migrated(doc)
           i == Migrated(doc).initial_verification_method
<1>1. i.method_type = Ed25519VerificationKey2018
  BY MigratedValid DEF Valid
<1>2. \A m \in MigratedMethods(doc) :
        /\ m.method_type = Ed25519VerificationKey2018
        /\ m.flags = GetFlags(doc, m.fragment)
  BY DEF MigratedMethods
<1>3. \A f : GetFlags(doc, f) \subseteq KnownFlags
  BY DEF GetFlags, LegacyFlags, CAPABILITY_INVOCATION, KnownFlags
<1>4. ASSUME NEW m \in AllMethods(a)
      PROVE  m.method_type = Ed25519VerificationKey2018 /\ m.flags \subseteq KnownFlags
  BY <1>1, <1>2, <1>3, MigratedMethodsFacts
<1>5. QED
  BY <1>4 DEF Readable, Ed25519VerificationKey2018, AuthorityTypes

\* Migration makes an operable account of a document that lets someone invoke
\* capabilities.
LEMMA MigratedOperable ==
  ASSUME NEW doc \in LegacyDidAccounts, CanMigrate(doc), LegacyControl(doc) # {}
  PROVE  Operable(Migrated(doc))
<1> DEFINE a == Migrated(doc)
           i == Migrated(doc).initial_verification_method
           listed == doc.listed[CAPABILITY_INVOCATION]
<1>1. /\ i \in AllMethods(a)
      /\ i.method_type = Ed25519VerificationKey2018
  BY MigratedValid DEF Valid, AllMethods
<1>2. \A m \in MigratedMethods(doc) :
        /\ m.method_type = Ed25519VerificationKey2018
        /\ m.flags = GetFlags(doc, m.fragment)
  BY DEF MigratedMethods
<1>4. Readable(a)
  BY MigratedReadable
<1>5. CASE listed = {} \/ DefaultFragment \in listed
  <2>1. CAPABILITY_INVOCATION \in GetFlags(doc, DefaultFragment)
    BY <1>5 DEF GetFlags, LegacyFlags, CAPABILITY_INVOCATION
  <2>2. CAPABILITY_INVOCATION \in i.flags
    BY <2>1, MigratedMethodsFacts
  <2>3. QED
    BY <1>1, <1>4, <2>2 DEF Operable, AuthorityTypes,
                            Ed25519VerificationKey2018
<1>6. CASE ~(listed = {} \/ DefaultFragment \in listed)
  <2>1. PICK v \in doc.verification_method : v.id \in listed \ {DefaultFragment}
    BY <1>6 DEF LegacyControl
  <2> DEFINE m == [fragment |-> v.id, flags |-> GetFlags(doc, v.id),
                   method_type |-> Ed25519VerificationKey2018, key_data |-> v.pubkey]
  <2>2. m \in MigratedMethods(doc) /\ m.fragment # DefaultFragment
    BY <2>1 DEF MigratedMethods
  <2>3. CAPABILITY_INVOCATION \in m.flags
    BY <2>1 DEF GetFlags, LegacyFlags, CAPABILITY_INVOCATION
  <2> HIDE DEF m
  <2>4. m \in AllMethods(a)
    BY <2>2, MigratedMethodsFacts
  <2>5. QED
    BY <1>2, <1>4, <2>2, <2>3, <2>4
       DEF Operable, AuthorityTypes, Ed25519VerificationKey2018
<1>7. QED
  BY <1>5, <1>6

-----------------------------------------------------------------------------
(* What an instruction on an existing account does.                        *)

\* A transaction that passes the constraints is signed by the key of a method
\* that may invoke capabilities and has an admissible name.
LEMMA AuthorisedBy ==
  ASSUME NEW d \in Dids, NEW authority \in SolKeys, NEW message,
         NEW eth \in Signatures(message), NEW among,
         Authorised(d, authority, message, eth, among)
  PROVE  /\ Readable(data[d])
         /\ \E k \in signers' : \E m \in AllMethods(data[d]) :
              /\ k \in SolKeys \cup EthKeys
              /\ CAPABILITY_INVOCATION \in m.flags
              /\ m.fragment \in among
              /\ Proves(k, m)
<1> DEFINE recovered == Recovered(eth, message, data[d].nonce)
<1>1. recovered \subseteq EthKeys
  BY DEF Recovered, Signatures
<1>2. signers' = {authority} \cup recovered
  BY DEF Authorised
<1>3. Readable(data[d])
  BY DEF Authorised, IsAuthority
<1> DEFINE Signed ==
      \E k \in signers' : \E m \in AllMethods(data[d]) :
        /\ k \in SolKeys \cup EthKeys
        /\ CAPABILITY_INVOCATION \in m.flags
        /\ m.fragment \in among
        /\ Proves(k, m)
<1>4. CASE FindAuthority(data[d], Ed25519VerificationKey2018, {authority}, among)
  <2>1. PICK m \in AllMethods(data[d]) :
          /\ m.method_type = Ed25519VerificationKey2018
          /\ CAPABILITY_INVOCATION \in m.flags
          /\ m.key_data = authority
          /\ m.fragment \in among
    BY <1>4 DEF FindAuthority
  <2>2. QED
    BY <1>2, <1>3, <2>1 DEF Proves
<1>5. CASE FindAuthority(data[d], EcdsaSecp256k1VerificationKey2019, recovered, among)
  <2>1. PICK m \in AllMethods(data[d]) :
          /\ m.method_type = EcdsaSecp256k1VerificationKey2019
          /\ CAPABILITY_INVOCATION \in m.flags
          /\ m.key_data \in recovered
          /\ m.fragment \in among
    BY <1>5 DEF FindAuthority
  <2>2. QED
    BY <1>1, <1>2, <1>3, <2>1 DEF Proves
<1>6. CASE FindAuthority(data[d], EcdsaSecp256k1RecoveryMethod2020,
                         {AddressOf[k] : k \in recovered}, among)
  <2>1. PICK m \in AllMethods(data[d]) :
          /\ m.method_type = EcdsaSecp256k1RecoveryMethod2020
          /\ CAPABILITY_INVOCATION \in m.flags
          /\ m.key_data \in {AddressOf[k] : k \in recovered}
          /\ m.fragment \in among
    BY <1>6 DEF FindAuthority
  <2>2. PICK k \in recovered : m.key_data = AddressOf[k]
    BY <2>1
  <2>3. QED
    BY <1>1, <1>2, <1>3, <2>1, <2>2 DEF Proves
<1>7. QED
  BY <1>4, <1>5, <1>6 DEF Authorised, IsAuthority

\* The key of a method whose owner signed.
LEMMA ProvesSigned ==
  ASSUME NEW k \in signers', NEW m, Proves(k, m)
  PROVE  SignedBy(m.key_data)'
BY DEF Proves, SignedBy

\* The facts about one instruction from which the theorems follow: it leaves
\* the account operable, keeps its protected methods, and adds guarded flags
\* only to methods whose owners signed.
StaysOperable(a, b) == InputsKeepControl /\ Operable(a) => Operable(b)
Keeps(a, b) == MethodsKept(a, b) /\ FlagsProven(a, b) /\ StaysOperable(a, b)

\* An instruction that leaves the methods alone has these properties.
LEMMA KeepsSame ==
  ASSUME NEW a, NEW b, AllMethods(a) = AllMethods(b)
  PROVE  Keeps(a, b)
BY OperableBy
   DEF Keeps, MethodsKept, FlagsProven, StaysOperable, SameMethod

\* An instruction on the methods has them.
LEMMA MethodStepKeeps ==
  ASSUME IInv, NEW d \in Dids, NEW authority \in SolKeys, MethodStep(d, authority)
  PROVE  Keeps(data[d], data'[d])
<1>0. ASSUME NEW b, NEW size, Write(d, b, size) PROVE data'[d] = b
  BY <1>0 DEF Write, IInv, TypeOK
<1>1. ASSUME NEW m \in MethodInputs, NEW eth \in Signatures(<<"method", m>>),
             AddVerificationMethod(d, authority, eth, m)
      PROVE  Keeps(data[d], data'[d])
  <2>1. m \in VerificationMethods
    BY InputAssumption
  <2>2. Authorised(d, authority, <<"method", m>>, eth, Fragments)
    BY <1>1 DEF AddVerificationMethod
  <2> DEFINE a == Counted(data[d], eth)
             b == SetVerificationMethods(a, AllMethods(a), {m})
  <2>3. Valid(d, a) /\ AllMethods(a) = AllMethods(data[d])
    BY <2>2, AuthorisedFacts
  <2>4. CanSetVerificationMethods(AllMethods(a), {m}) /\ data'[d] = b
    BY <1>0, <1>1 DEF AddVerificationMethod
  <2> HIDE DEF a
  <2>5. AllMethods(b) = AllMethods(data[d]) \cup {m}
    BY <2>1, <2>3, <2>4, AddMethods
  <2> HIDE DEF b
  <2>6. m.flags \subseteq KnownFlags /\ m.flags \cap GuardedFlags = {}
    BY <2>4 DEF CanSetVerificationMethods
  <2>7. MethodsKept(data[d], b) /\ FlagsProven(data[d], b)
    BY <2>5, <2>6 DEF MethodsKept, FlagsProven, SameMethod
  <2>8. StaysOperable(data[d], b)
    BY <2>5, <2>6 DEF StaysOperable, InputsKeepControl, Operable, Readable
  <2>9. QED
    BY <2>4, <2>7, <2>8 DEF Keeps
<1>2. ASSUME NEW f \in Fragments, NEW eth \in Signatures(<<"fragment", f>>),
             RemoveVerificationMethod(d, authority, eth, f)
      PROVE  Keeps(data[d], data'[d])
  <2>1. Authorised(d, authority, <<"fragment", f>>, eth, Fragments)
    BY <1>2 DEF RemoveVerificationMethod
  <2> DEFINE a == Counted(data[d], eth)
             b == RemoveMethod(a, f)
  <2>2. Valid(d, a) /\ AllMethods(a) = AllMethods(data[d])
    BY <2>1, AuthorisedFacts
  <2>3. ~HasProtected(data[d], {f}) /\ HasAuthority(b) /\ data'[d] = b
    BY <1>0, <1>2 DEF RemoveVerificationMethod
  <2> HIDE DEF a
  <2>5. /\ \A m \in AllMethods(a) : m.fragment # f => m \in AllMethods(b)
        /\ \A n \in AllMethods(b) :
             \/ n \in AllMethods(a)
             \/ n.flags = {} /\ SameMethod(n, a.initial_verification_method)
    BY <2>2, RemoveMethods
  <2> HIDE DEF b
  <2>6. MethodsKept(data[d], b)
    BY <2>2, <2>3, <2>5 DEF MethodsKept, HasProtected, SameMethod
  <2>7. FlagsProven(data[d], b)
    BY <2>2, <2>5 DEF FlagsProven, SameMethod
  <2>8. StaysOperable(data[d], b)
    BY <2>3, LockoutCheck DEF StaysOperable
  <2>9. QED
    BY <2>3, <2>6, <2>7, <2>8 DEF Keeps
<1>3. ASSUME NEW f \in Fragments, NEW flags \in FlagInputs,
             NEW eth \in Signatures(<<"flags", f, flags>>),
             SetVmFlags(d, authority, eth, f, flags)
      PROVE  Keeps(data[d], data'[d])
  <2>1. flags \in SUBSET (0..15)
    BY InputAssumption
  <2> DEFINE among == FilterFragment(f, flags)
             a == Counted(data[d], eth)
             b == WithFlags(a, f, flags)
  <2>2. Authorised(d, authority, <<"flags", f, flags>>, eth, among)
    BY <1>3 DEF SetVmFlags
  <2>3. Valid(d, a) /\ AllMethods(a) = AllMethods(data[d])
    BY <2>2, AuthorisedFacts
  <2>4. /\ flags \subseteq KnownFlags
        /\ Fragmented(AllMethods(a), f) # {}
        /\ HasAuthority(b) /\ data'[d] = b
    BY <1>0, <1>3, <2>3 DEF SetVmFlags
  <2> HIDE DEF a
  <2>5. /\ \A m \in AllMethods(data[d]) : \E n \in AllMethods(b) : SameMethod(m, n)
        /\ \A n \in AllMethods(b) :
             \/ n \in AllMethods(data[d])
             \/ /\ n.fragment = f /\ n.flags = flags
                /\ \E m \in AllMethods(data[d]) : SameMethod(n, m)
    BY <2>1, <2>3, <2>4, FlagMethods
  <2> HIDE DEF b
  <2>6. MethodsKept(data[d], b)
    BY <2>5 DEF MethodsKept
  <2>7. StaysOperable(data[d], b)
    BY <2>4, LockoutCheck DEF StaysOperable
  <2>8. FlagsProven(data[d], b)
    <3>1. SUFFICES ASSUME NEW n \in AllMethods(b), NEW g \in n.flags \cap GuardedFlags,
                          n \notin AllMethods(data[d])
                   PROVE  SignedBy(n.key_data)'
      BY DEF FlagsProven, SameMethod
    <3>2. PICK m \in AllMethods(data[d]) :
            SameMethod(n, m) /\ n.fragment = f /\ n.flags = flags
      BY <2>5, <3>1
    <3>3. among = {f}
      BY <3>2 DEF FilterFragment
    <3> HIDE DEF among
    <3>4. PICK k \in signers' : \E o \in AllMethods(data[d]) :
            o.fragment \in among /\ Proves(k, o)
      BY <2>2, AuthorisedBy
    <3>5. PICK o \in AllMethods(data[d]) : o.fragment = f /\ Proves(k, o)
      BY <3>3, <3>4
    <3>6. o = m
      BY <2>3, <3>2, <3>5, NamesOfAllMethods DEF UniqueByFragment, SameMethod
    <3>7. QED
      BY <3>2, <3>5, <3>6, ProvesSigned DEF SameMethod
  <2>9. QED
    BY <2>4, <2>6, <2>7, <2>8 DEF Keeps
<1>4. QED
  BY <1>1, <1>2, <1>3 DEF MethodStep

\* An instruction on services, controllers or the whole document has them.
LEMMA DocumentStepKeeps ==
  ASSUME IInv, NEW d \in Dids, NEW authority \in SolKeys, DocumentStep(d, authority)
  PROVE  Keeps(data[d], data'[d])
<1>0. ASSUME NEW b, NEW size, Write(d, b, size) PROVE data'[d] = b
  BY <1>0 DEF Write, IInv, TypeOK
<1>1. ASSUME NEW s \in ServiceInputs, NEW overwrite \in BOOLEAN,
             NEW eth \in Signatures(<<"service", s, overwrite>>),
             AddService(d, authority, eth, s, overwrite)
      PROVE  Keeps(data[d], data'[d])
  <2>1. Authorised(d, authority, <<"service", s, overwrite>>, eth, Fragments)
    BY <1>1 DEF AddService
  <2> DEFINE a == Counted(data[d], eth)
  <2>2. Valid(d, a) /\ AllMethods(a) = AllMethods(data[d])
    BY <2>1, AuthorisedFacts
  <2>3. data'[d] = AddedService(a, s)
    BY <1>0, <1>1 DEF AddService
  <2> HIDE DEF a
  <2>4. QED
    BY <2>2, <2>3, SameMethods, KeepsSame
<1>2. ASSUME NEW f \in Fragments, NEW eth \in Signatures(<<"fragment", f>>),
             RemoveService(d, authority, eth, f)
      PROVE  Keeps(data[d], data'[d])
  <2>1. Authorised(d, authority, <<"fragment", f>>, eth, Fragments)
    BY <1>2 DEF RemoveService
  <2> DEFINE a == Counted(data[d], eth)
             b == [a EXCEPT !.services = WithoutFirst(@, f)]
  <2>2. Valid(d, a) /\ AllMethods(a) = AllMethods(data[d])
    BY <2>1, AuthorisedFacts
  <2>3. data'[d] = b
    BY <1>0, <1>2 DEF RemoveService
  <2> HIDE DEF a
  <2>4. AllMethods(b) = AllMethods(a)
    BY <2>2, SameMethods
  <2>5. QED
    BY <2>2, <2>3, <2>4, KeepsSame
<1>3. ASSUME NEW arg \in ControllerInputs, NEW eth \in Signatures(<<"controllers", arg>>),
             SetControllersOf(d, authority, eth, arg)
      PROVE  Keeps(data[d], data'[d])
  <2>1. Authorised(d, authority, <<"controllers", arg>>, eth, Fragments)
    BY <1>3 DEF SetControllersOf
  <2> DEFINE a == Counted(data[d], eth)
  <2>2. Valid(d, a) /\ AllMethods(a) = AllMethods(data[d])
    BY <2>1, AuthorisedFacts
  <2>3. data'[d] = SetControllers(a, arg.native_controllers, arg.other_controllers)
    BY <1>0, <1>3 DEF SetControllersOf
  <2> HIDE DEF a
  <2>4. QED
    BY <2>2, <2>3, SameMethods, KeepsSame
<1>4. ASSUME NEW arg \in UpdateInputs, NEW eth \in Signatures(<<"update", arg>>),
             Update(d, authority, eth, arg)
      PROVE  Keeps(data[d], data'[d])
  <2>1. Authorised(d, authority, <<"update", arg>>, eth, Fragments)
    BY <1>4 DEF Update
  <2> DEFINE a == Counted(data[d], eth)
             ms == arg.verification_methods
             b == SetServices(a, arg.services)
             c == SetVerificationMethods(b, {}, ms)
             e == Updated(a, arg)
  <2>2. Valid(d, a) /\ AllMethods(a) = AllMethods(data[d])
    BY <2>1, AuthorisedFacts
  <2>3. /\ ~HasProtected(a, Fragments)
        /\ CanSetServices(arg.services)
        /\ CanSetVerificationMethods({}, ms)
        /\ HasAuthority(e) /\ data'[d] = e
    BY <1>0, <1>4 DEF Update
  <2>4. arg \in UpdateArgs
    BY InputAssumption
  <2> HIDE DEF a
  <2>6. Valid(d, b) /\ AllMethods(b) = AllMethods(a)
    BY <2>2, <2>3, <2>4, ServicesValid, SameMethods DEF UpdateArgs
  <2>7. b.initial_verification_method \in AllMethods(a)
    BY <2>6 DEF AllMethods
  <2> HIDE DEF b
  <2>8. Valid(d, c)
    BY <2>3, <2>4, <2>6, ReplaceMethodsValid DEF UpdateArgs, CanSetVerificationMethods
  <2>9. AllMethods(e) = AllMethods(c)
    BY <2>8, SameMethods DEF Updated, b
  <2>10. \A n \in AllMethods(c) :
           \/ n \in ms
           \/ /\ SameMethod(n, b.initial_verification_method)
              /\ n = b.initial_verification_method \/ \E m \in ms : n.flags = m.flags
    BY <2>4, <2>6, ReplaceMethods DEF UpdateArgs
  <2>11. \A m \in ms : m.flags \cap GuardedFlags = {}
    BY <2>3 DEF CanSetVerificationMethods
  <2>12. MethodsKept(data[d], e)
    <3>1. \A m \in AllMethods(a) : m.fragment \in Fragments
      BY <2>2 DEF Valid, DidAccounts, VerificationMethods, AllMethods
    <3>2. QED
      BY <2>2, <2>3, <3>1 DEF MethodsKept, HasProtected
  <2> HIDE DEF c
  <2>13. FlagsProven(data[d], e)
    BY <2>2, <2>7, <2>9, <2>10, <2>11 DEF FlagsProven, SameMethod
  <2>14. StaysOperable(data[d], e)
    BY <2>3, LockoutCheck DEF StaysOperable
  <2>15. QED
    BY <2>3, <2>12, <2>13, <2>14 DEF Keeps
<1>5. QED
  BY <1>1, <1>2, <1>3, <1>4 DEF DocumentStep

\* Resizing an account has them too; closing it ends its life.
LEMMA AccountStepKeeps ==
  ASSUME IInv, NEW d \in Dids, NEW authority \in SolKeys, AccountStep(d, authority)
  PROVE  \/ Keeps(data[d], data'[d])
         \/ data'[d] = NewAccount(d) /\ ~Persisted(d)'
<1>1. ASSUME NEW size \in Sizes, NEW eth \in Signatures(<<"size", size>>),
             Resize(d, authority, eth, size)
      PROVE  Keeps(data[d], data'[d])
  <2>1. Authorised(d, authority, <<"size", size>>, eth, Fragments)
    BY <1>1 DEF Resize
  <2>2. data'[d] = Counted(data[d], eth)
    BY <1>1 DEF Resize, Write, IInv, TypeOK
  <2>3. QED
    BY <2>1, <2>2, AuthorisedFacts, KeepsSame
<1>2. ASSUME NEW eth \in Signatures(<<>>), Close(d, authority, eth)
      PROVE  data'[d] = NewAccount(d) /\ ~Persisted(d)'
  BY <1>2 DEF Close, IInv, TypeOK, Persisted
<1>3. QED
  BY <1>1, <1>2 DEF AccountStep

\* An instruction changes the account of one DID only.
LEMMA OthersUntouched ==
  ASSUME IInv, NEW d \in Dids, NEW authority \in SolKeys,
         \/ MethodStep(d, authority)
         \/ DocumentStep(d, authority)
         \/ AccountStep(d, authority)
  PROVE  /\ Persisted(d)
         /\ \A e \in Dids \ {d} : 
              data'[e] = data[e] /\ owner'[e] = owner[e] /\ space'[e] = space[e]
<1>1. ASSUME NEW b, NEW size, Write(d, b, size)
      PROVE  \A e \in Dids \ {d} : 
               data'[e] = data[e] /\ owner'[e] = owner[e] /\ space'[e] = space[e]
  BY <1>1 DEF Write, IInv, TypeOK
<1>2. ASSUME NEW eth, Close(d, authority, eth)
      PROVE  \A e \in Dids \ {d} : 
               data'[e] = data[e] /\ owner'[e] = owner[e] /\ space'[e] = space[e]
  BY <1>2 DEF Close, IInv, TypeOK
<1>3. CASE MethodStep(d, authority)
  BY <1>1, <1>3 DEF MethodStep, AddVerificationMethod, RemoveVerificationMethod,
                    SetVmFlags, Authorised
<1>4. CASE DocumentStep(d, authority)
  BY <1>1, <1>4 DEF DocumentStep, AddService, RemoveService, SetControllersOf,
                    Update, Authorised
<1>5. CASE AccountStep(d, authority)
  BY <1>1, <1>2, <1>5 DEF AccountStep, Resize, Close, Authorised
<1>6. QED
  BY <1>3, <1>4, <1>5

-----------------------------------------------------------------------------
(* Every step of the program.                                              *)

\* A step is the creation of an account, its migration, or an instruction on
\* one that exists.
InstructionOn(d) ==
  \E authority \in SolKeys :
    \/ MethodStep(d, authority)
    \/ DocumentStep(d, authority)
    \/ AccountStep(d, authority)

\* initialize creates the account of its signer and leaves the others alone.
LEMMA InitializeFacts ==
  ASSUME IInv, NEW d \in Dids, NEW size, Initialize(d, size)
  PROVE  /\ ~Persisted(d) /\ Persisted(d)'
         /\ data'[d] = NewAccount(d) /\ signers' = {d}
         /\ \A e \in Dids \ {d} : 
              data'[e] = data[e] /\ owner'[e] = owner[e] /\ space'[e] = space[e]
BY DEF Initialize, Write, IInv, TypeOK, Persisted

\* migrate creates the account of the legacy document.
LEMMA MigrateFacts ==
  ASSUME IInv, NEW d \in Dids, NEW doc, Migrate(d, doc)
  PROVE  /\ ~Persisted(d) /\ Persisted(d)'
         /\ CanMigrate(doc) /\ doc.authority = d
         /\ data'[d] = Migrated(doc) /\ signers' = {}
         /\ \A e \in Dids \ {d} : 
              data'[e] = data[e] /\ owner'[e] = owner[e] /\ space'[e] = space[e]
BY DEF Migrate, Write, IInv, TypeOK, Persisted

\* Any other instruction keeps or closes the one account it is about.
LEMMA InstructionFacts ==
  ASSUME IInv, NEW d \in Dids, InstructionOn(d)
  PROVE  /\ Persisted(d)
         /\ \/ Keeps(data[d], data'[d])
            \/ data'[d] = NewAccount(d) /\ ~Persisted(d)'
         /\ \A e \in Dids \ {d} : 
              data'[e] = data[e] /\ owner'[e] = owner[e] /\ space'[e] = space[e]
<1>1. PICK authority \in SolKeys :
        \/ MethodStep(d, authority)
        \/ DocumentStep(d, authority)
        \/ AccountStep(d, authority)
  BY DEF InstructionOn
<1>2. \/ Keeps(data[d], data'[d])
      \/ data'[d] = NewAccount(d) /\ ~Persisted(d)'
  BY <1>1, MethodStepKeeps, DocumentStepKeeps, AccountStepKeeps
<1>3. QED
  BY <1>1, <1>2, OthersUntouched

\* Only closing ends the life of an account.
LEMMA ClosedOnly ==
  ASSUME IInv, NEW d \in Dids, InstructionOn(d), ~Persisted(d)'
  PROVE  data'[d] = NewAccount(d)
<1>1. ASSUME NEW b, NEW size PROVE ~Write(d, b, size)
  BY DEF Write, IInv, TypeOK, Persisted
<1>2. PICK authority \in SolKeys : AccountStep(d, authority)
  BY <1>1 DEF InstructionOn, MethodStep, AddVerificationMethod,
     RemoveVerificationMethod, SetVmFlags, DocumentStep, AddService, RemoveService,
     SetControllersOf, Update
<1>3. PICK eth : Close(d, authority, eth)
  BY <1>1, <1>2 DEF AccountStep, Resize
<1>4. QED
  BY <1>3 DEF Close, IInv, TypeOK

\* From the facts about the account that a step touches to all accounts: each
\* existing account that stays is kept.
LEMMA EveryStepKeeps ==
  ASSUME IInv, Next, NEW e \in Dids, Persisted(e), Persisted(e)'
  PROVE  Keeps(data[e], data'[e])
<1>1. PICK d \in Dids :
        \/ \E size \in Sizes : Initialize(d, size)
        \/ \E doc \in LegacyDocs : Migrate(d, doc)
        \/ InstructionOn(d)
  BY DEF Next, InstructionOn
<1>2. CASE e # d
  <2>1. data'[e] = data[e]
    BY <1>1, <1>2, InitializeFacts, MigrateFacts, InstructionFacts
  <2>2. QED
    BY <2>1, KeepsSame
<1>3. CASE e = d
  BY <1>1, <1>3, InitializeFacts, MigrateFacts, InstructionFacts
<1>4. QED
  BY <1>2, <1>3

\* If callers add no method of an unknown type and migrate no document that
\* lets nobody invoke capabilities, every account always has a method that can
\* authorise the next instruction.
THEOREM LockoutFree ==
  ASSUME InputsKeepControl
  PROVE  Spec => []NoLockout
<1>1. Init => NoLockout
  BY NewOperable DEF Init, NoLockout
<1>2. IInv /\ NoLockout /\ [Next]_vars => NoLockout'
  <2> SUFFICES ASSUME IInv, NoLockout, [Next]_vars, NEW e \in Dids
               PROVE  Operable(data'[e])
    BY DEF NoLockout
  <2>1. Operable(data[e])
    BY DEF NoLockout
  <2>2. CASE UNCHANGED vars
    BY <2>1, <2>2 DEF vars
  <2>3. ASSUME NEW d \in Dids, NEW size \in Sizes, Initialize(d, size)
        PROVE  Operable(data'[e])
    BY <2>1, <2>3, InitializeFacts, NewOperable
  <2>4. ASSUME NEW d \in Dids, NEW doc \in LegacyDocs, Migrate(d, doc)
        PROVE  Operable(data'[e])
    <3>1. doc \in LegacyDidAccounts /\ LegacyControl(doc) # {}
      BY InputAssumption DEF InputsKeepControl
    <3>2. QED
      BY <2>1, <2>4, <3>1, MigrateFacts, MigratedOperable
  <2>5. ASSUME NEW d \in Dids, InstructionOn(d)
        PROVE  Operable(data'[e])
    BY <2>1, <2>5, InstructionFacts, NewOperable DEF Keeps, StaysOperable
  <2>6. QED
    BY <2>2, <2>3, <2>4, <2>5 DEF Next, InstructionOn
<1>3. QED
  BY <1>1, <1>2, Invariance, PTL DEF Spec

\* No instruction removes or replaces a protected method of an account that
\* stays open.
THEOREM ProtectedMethodsStay == Spec => ProtectedStays
<1>1. IInv /\ [Next]_vars =>
        [\A d \in Dids :
           Persisted(d) /\ Persisted(d)' => MethodsKept(data[d], data'[d])]_vars
  BY EveryStepKeeps DEF Keeps
<1>2. QED
  BY <1>1, Invariance, PTL DEF Spec, ProtectedStays

\* A method gains OWNERSHIP_PROOF or PROTECTED only by its own signature.
THEOREM GuardedFlagsAreProven == Spec => OwnershipProven
<1>1. IInv /\ [Next]_vars =>
        [\A d \in Dids :
           Persisted(d) /\ Persisted(d)' => FlagsProven(data[d], data'[d])]_vars
  BY EveryStepKeeps DEF Keeps
<1>2. QED
  BY <1>1, Invariance, PTL DEF Spec, OwnershipProven

-----------------------------------------------------------------------------
(* The nonce of an account: a signature that was accepted once is never     *)
(* accepted again as long as the account is not closed.                    *)

\* The document that update writes has the nonce of the account it changes.
LEMMA UpdateNonce ==
  ASSUME NEW d, NEW a, Valid(d, a), NEW arg
  PROVE  Updated(a, arg).nonce = a.nonce
BY DEF Updated, SetServices, SetVerificationMethods, SetControllers,
       Valid, DidAccounts

\* A transaction that passes the constraints and is signed by an Ethereum key
\* carries a signature, and then counts it.
LEMMA CountedNonce ==
  ASSUME IInv, NEW d \in Dids, NEW authority \in SolKeys, NEW message,
         NEW eth \in Signatures(message), NEW among,
         Authorised(d, authority, message, eth, among),
         data'[d].nonce = Counted(data[d], eth).nonce
  PROVE  NonceMoves(d)
<1>1. data[d] \in DidAccounts /\ data[d].nonce \in Nat
  BY NonceAssumption DEF IInv, TypeOK, DidAccounts
<1>2. CASE eth = {}
  <2>1. Recovered(eth, message, data[d].nonce) = {}
    BY <1>2 DEF Recovered
  <2>2. signers' \cap EthKeys = {}
    BY <2>1, KeysAssumption DEF Authorised
  <2>3. data'[d].nonce = data[d].nonce
    BY <1>2 DEF Counted
  <2>4. QED
    BY <1>1, <2>2, <2>3 DEF NonceMoves
<1>3. CASE eth # {}
  <2>1. data'[d].nonce = data[d].nonce + 1
    BY <1>1, <1>3 DEF Counted, DidAccounts
  <2>2. QED
    BY <1>1, <2>1 DEF NonceMoves
<1>4. QED
  BY <1>2, <1>3

\* Each instruction on an account that stays open moves its nonce so.
LEMMA InstructionNonce ==
  ASSUME IInv, NEW d \in Dids, InstructionOn(d), Persisted(d)'
  PROVE  NonceMoves(d)
<1>0. ASSUME NEW b, NEW size, Write(d, b, size) PROVE data'[d] = b
  BY <1>0 DEF Write, IInv, TypeOK
<1> PICK authority \in SolKeys :
      \/ MethodStep(d, authority)
      \/ DocumentStep(d, authority)
      \/ AccountStep(d, authority)
  BY DEF InstructionOn
<1>1. ASSUME NEW m \in MethodInputs, NEW eth \in Signatures(<<"method", m>>),
             AddVerificationMethod(d, authority, eth, m)
      PROVE  NonceMoves(d)
  <2>1. Authorised(d, authority, <<"method", m>>, eth, Fragments)
    BY <1>1 DEF AddVerificationMethod
  <2> DEFINE a == Counted(data[d], eth)
  <2>2. Valid(d, a)
    BY <2>1, AuthorisedFacts
  <2>3. data'[d] = SetVerificationMethods(a, AllMethods(a), {m})
    BY <1>0, <1>1 DEF AddVerificationMethod
  <2>4. data'[d].nonce = a.nonce
    BY <2>2, <2>3, NonceUntouched
  <2>5. QED
    BY <2>1, <2>4, CountedNonce
<1>2. ASSUME NEW f \in Fragments, NEW eth \in Signatures(<<"fragment", f>>),
             RemoveVerificationMethod(d, authority, eth, f)
      PROVE  NonceMoves(d)
  <2>1. Authorised(d, authority, <<"fragment", f>>, eth, Fragments)
    BY <1>2 DEF RemoveVerificationMethod
  <2> DEFINE a == Counted(data[d], eth)
  <2>2. Valid(d, a)
    BY <2>1, AuthorisedFacts
  <2>3. data'[d] = RemoveMethod(a, f)
    BY <1>0, <1>2 DEF RemoveVerificationMethod
  <2>4. data'[d].nonce = a.nonce
    BY <2>2, <2>3, NonceUntouched
  <2>5. QED
    BY <2>1, <2>4, CountedNonce
<1>3. ASSUME NEW f \in Fragments, NEW flags \in FlagInputs,
             NEW eth \in Signatures(<<"flags", f, flags>>),
             SetVmFlags(d, authority, eth, f, flags)
      PROVE  NonceMoves(d)
  <2>1. Authorised(d, authority, <<"flags", f, flags>>, eth,
                   FilterFragment(f, flags))
    BY <1>3 DEF SetVmFlags
  <2> DEFINE a == Counted(data[d], eth)
  <2>2. Valid(d, a)
    BY <2>1, AuthorisedFacts
  <2>3. data'[d] = WithFlags(a, f, flags)
    BY <1>0, <1>3 DEF SetVmFlags
  <2>4. data'[d].nonce = a.nonce
    BY <2>2, <2>3, NonceUntouched
  <2>5. QED
    BY <2>1, <2>4, CountedNonce
<1>4. ASSUME NEW s \in ServiceInputs, NEW overwrite \in BOOLEAN,
             NEW eth \in Signatures(<<"service", s, overwrite>>),
             AddService(d, authority, eth, s, overwrite)
      PROVE  NonceMoves(d)
  <2>1. Authorised(d, authority, <<"service", s, overwrite>>, eth, Fragments)
    BY <1>4 DEF AddService
  <2> DEFINE a == Counted(data[d], eth)
  <2>2. Valid(d, a)
    BY <2>1, AuthorisedFacts
  <2>3. data'[d] = AddedService(a, s)
    BY <1>0, <1>4 DEF AddService
  <2>4. data'[d].nonce = a.nonce
    BY <2>2, <2>3, NonceUntouched
  <2>5. QED
    BY <2>1, <2>4, CountedNonce
<1>5. ASSUME NEW f \in Fragments, NEW eth \in Signatures(<<"fragment", f>>),
             RemoveService(d, authority, eth, f)
      PROVE  NonceMoves(d)
  <2>1. Authorised(d, authority, <<"fragment", f>>, eth, Fragments)
    BY <1>5 DEF RemoveService
  <2> DEFINE a == Counted(data[d], eth)
  <2>2. Valid(d, a)
    BY <2>1, AuthorisedFacts
  <2>3. data'[d] = [a EXCEPT !.services = WithoutFirst(@, f)]
    BY <1>0, <1>5 DEF RemoveService
  <2>4. data'[d].nonce = a.nonce
    BY <2>2, <2>3, NonceUntouched
  <2>5. QED
    BY <2>1, <2>4, CountedNonce
<1>6. ASSUME NEW arg \in ControllerInputs, NEW eth \in Signatures(<<"controllers", arg>>),
             SetControllersOf(d, authority, eth, arg)
      PROVE  NonceMoves(d)
  <2>1. Authorised(d, authority, <<"controllers", arg>>, eth, Fragments)
    BY <1>6 DEF SetControllersOf
  <2> DEFINE a == Counted(data[d], eth)
  <2>2. Valid(d, a)
    BY <2>1, AuthorisedFacts
  <2>3. data'[d] = SetControllers(a, arg.native_controllers, arg.other_controllers)
    BY <1>0, <1>6 DEF SetControllersOf
  <2>4. data'[d].nonce = a.nonce
    BY <2>2, <2>3, NonceUntouched
  <2>5. QED
    BY <2>1, <2>4, CountedNonce
<1>7. ASSUME NEW arg \in UpdateInputs, NEW eth \in Signatures(<<"update", arg>>),
             Update(d, authority, eth, arg)
      PROVE  NonceMoves(d)
  <2>1. Authorised(d, authority, <<"update", arg>>, eth, Fragments)
    BY <1>7 DEF Update
  <2> DEFINE a == Counted(data[d], eth)
  <2>2. Valid(d, a)
    BY <2>1, AuthorisedFacts
  <2>3. data'[d] = Updated(a, arg)
    BY <1>0, <1>7 DEF Update
  <2>4. data'[d].nonce = a.nonce
    BY <2>2, <2>3, UpdateNonce
  <2>5. QED
    BY <2>1, <2>4, CountedNonce
<1>8. ASSUME NEW size \in Sizes, NEW eth \in Signatures(<<"size", size>>),
             Resize(d, authority, eth, size)
      PROVE  NonceMoves(d)
  <2>1. Authorised(d, authority, <<"size", size>>, eth, Fragments)
    BY <1>8 DEF Resize
  <2>2. data'[d] = Counted(data[d], eth)
    BY <1>0, <1>8 DEF Resize
  <2>3. QED
    BY <2>1, <2>2, CountedNonce
<1>9. ASSUME NEW eth \in Signatures(<<>>), Close(d, authority, eth)
      PROVE  FALSE
  BY <1>9 DEF Close, IInv, TypeOK, Persisted
<1>10. QED
  BY <1>1, <1>2, <1>3, <1>4, <1>5, <1>6, <1>7, <1>8, <1>9
     DEF MethodStep, DocumentStep, AccountStep

\* In the life of an account its nonce never falls, and rises with every change
\* that an Ethereum key signed.
THEOREM SignaturesAreSpent == Spec => SignaturesSpent
<1>1. ASSUME IInv, Next, NEW e \in Dids, Persisted(e), Persisted(e)'
      PROVE  NonceMoves(e)
  <2>1. PICK d \in Dids :
          \/ \E size \in Sizes : Initialize(d, size)
          \/ \E doc \in LegacyDocs : Migrate(d, doc)
          \/ InstructionOn(d)
    BY <1>1 DEF Next, InstructionOn
  <2>2. CASE e # d
    <3>1. data'[e] = data[e] /\ space'[e] = space[e]
      BY <1>1, <2>1, <2>2, InitializeFacts, MigrateFacts, InstructionFacts
    <3>2. data[e].nonce \in Nat
      BY <1>1, NonceAssumption DEF IInv, TypeOK, DidAccounts
    <3>3. QED
      BY <3>1, <3>2 DEF NonceMoves
  <2>3. CASE e = d
    BY <1>1, <2>1, <2>3, InitializeFacts, MigrateFacts, InstructionNonce
  <2>4. QED
    BY <2>2, <2>3
<1>2. IInv /\ [Next]_vars =>
        [\A d \in Dids :
           Persisted(d) /\ Persisted(d)' => NonceMoves(d)]_vars
  BY <1>1
<1>3. QED
  BY <1>2, Invariance, PTL DEF Spec, SignaturesSpent

-----------------------------------------------------------------------------
(* Who controls an account.                                                *)

\* Only keys control accounts.
LEMMA ControlKeys ==
  ASSUME NEW a
  PROVE  ControlOf(a) \subseteq SolKeys \cup EthKeys
BY DEF ControlOf

\* A new account is controlled by the key it is named by.
LEMMA NewControl ==
  ASSUME NEW d \in SolKeys
  PROVE  ControlOf(NewAccount(d)) = {d}
<1> DEFINE i == NewAccount(d).initial_verification_method
<1>1. AllMethods(NewAccount(d)) = {i}
  BY DEF AllMethods, NewAccount, InitAccount
<1>2. /\ i.method_type = 0 /\ i.key_data = d
      /\ CAPABILITY_INVOCATION \in i.flags
  BY DEF NewAccount, InitAccount, Ed25519VerificationKey2018
<1>3. Readable(NewAccount(d))
  BY NewOperable DEF Operable
<1> HIDE DEF i
<1>4. \A k : Proves(k, i) <=> k = d
  BY <1>2 DEF Proves, Ed25519VerificationKey2018, EcdsaSecp256k1VerificationKey2019,
              EcdsaSecp256k1RecoveryMethod2020
<1>5. QED
  BY <1>1, <1>2, <1>3, <1>4 DEF ControlOf

\* An instruction on an account is signed by a key in control of it.
LEMMA InstructionSigned ==
  ASSUME NEW d \in Dids, InstructionOn(d)
  PROVE  signers' \cap ControlOf(data[d]) # {}
<1>1. PICK authority \in SolKeys :
        \/ MethodStep(d, authority)
        \/ DocumentStep(d, authority)
        \/ AccountStep(d, authority)
  BY DEF InstructionOn
<1>2. \E message : \E eth \in Signatures(message) : \E among :
        Authorised(d, authority, message, eth, among)
  <2>1. CASE MethodStep(d, authority)
    BY <2>1 DEF MethodStep, AddVerificationMethod, RemoveVerificationMethod, SetVmFlags
  <2>2. CASE DocumentStep(d, authority)
    BY <2>2 DEF DocumentStep, AddService, RemoveService, SetControllersOf, Update
  <2>3. CASE AccountStep(d, authority)
    BY <2>3 DEF AccountStep, Resize, Close
  <2>4. QED
    BY <1>1, <2>1, <2>2, <2>3
<1>3. PICK message : \E eth \in Signatures(message) : \E among :
        Authorised(d, authority, message, eth, among)
  BY <1>2
<1>4. Readable(data[d]) /\
      \E k \in signers' : \E m \in AllMethods(data[d]) :
        /\ k \in SolKeys \cup EthKeys
        /\ CAPABILITY_INVOCATION \in m.flags
        /\ Proves(k, m)
  BY <1>3, AuthorisedBy
<1>5. QED
  BY <1>4 DEF ControlOf

-----------------------------------------------------------------------------
(* The refinement.                                                         *)

\* The program starts where DidControl starts.
LEMMA ControlInit == Init => Control!Init
BY InputAssumption, NewControl DEF Init, Control!Init, Persisted

\* What the other DIDs see of a step on DID d.
LEMMA OnlyOneDid ==
  ASSUME NEW d, \A e \in Dids \ {d} : data'[e] = data[e] /\ owner'[e] = owner[e]
  PROVE  Control!OnlyFor(d)
BY DEF Control!OnlyFor, Persisted

\* Every step is a step of DidControl or leaves its variables alone.
LEMMA ControlStep == IInv /\ [Next]_vars => [Control!Next]_(Control!vars)
<1> SUFFICES ASSUME IInv, [Next]_vars PROVE [Control!Next]_(Control!vars)
  OBVIOUS
<1>0. Dids \subseteq SolKeys
  BY InputAssumption
<1>1. CASE UNCHANGED vars
  BY <1>1 DEF vars, Control!vars, Persisted
<1>2. ASSUME NEW d \in Dids, NEW size \in Sizes, Initialize(d, size)
      PROVE  Control!OnlyFor(d) /\ Control!Create(d)
  BY <1>0, <1>2, InitializeFacts, OnlyOneDid, NewControl DEF Control!Create
<1>3. ASSUME NEW d \in Dids, NEW doc \in LegacyDocs, Migrate(d, doc)
      PROVE  Control!OnlyFor(d) /\ Control!Import(d)
  BY <1>3, MigrateFacts, OnlyOneDid, ControlKeys DEF Control!Import
<1>4. ASSUME NEW d \in Dids, InstructionOn(d)
      PROVE  Control!OnlyFor(d) /\ (Control!Change(d) \/ Control!Delete(d))
  <2>1. Control!OnlyFor(d)
    BY <1>4, InstructionFacts, OnlyOneDid
  <2>2. Persisted(d) /\ signers' \cap ControlOf(data[d]) # {}
    BY <1>4, InstructionFacts, InstructionSigned
  <2>3. CASE Persisted(d)'
    BY <2>1, <2>2, <2>3, ControlKeys DEF Control!Change
  <2>4. CASE ~Persisted(d)'
    <3>1. data'[d] = NewAccount(d)
      BY <1>4, <2>4, ClosedOnly
    <3>2. QED
      BY <1>0, <2>1, <2>2, <2>4, <3>1, NewControl DEF Control!Delete
  <2>5. QED
    BY <2>1, <2>3, <2>4
<1>5. QED
  BY <1>1, <1>2, <1>3, <1>4 DEF Next, InstructionOn, Control!Next

\* The program implements the abstract specification of control.
THEOREM Refinement == Spec => ControlSpec
BY ControlInit, ControlStep, Invariance, PTL DEF Spec, ControlSpec, Control!Spec

-----------------------------------------------------------------------------
(* Migration.                                                              *)

\* Exactly the keys that a legacy document lets invoke capabilities control
\* the account that is made of it.
LEMMA MigratedControl ==
  ASSUME NEW doc \in LegacyDidAccounts, CanMigrate(doc)
  PROVE  ControlOf(Migrated(doc)) = LegacyControl(doc)
<1> DEFINE a == Migrated(doc)
           i == Migrated(doc).initial_verification_method
           listed == doc.listed[CAPABILITY_INVOCATION]
<1>1. /\ i \in AllMethods(a)
      /\ i.method_type = Ed25519VerificationKey2018
      /\ i.key_data = doc.authority
  BY MigratedValid DEF Valid, AllMethods
<1>2. \A n \in AllMethods(a) :
        \/ n = i
        \/ n \in MigratedMethods(doc) /\ n.fragment # DefaultFragment
  BY MigratedMethodsFacts
<1>3. \A m \in MigratedMethods(doc) :
        m.fragment # DefaultFragment => m \in AllMethods(a)
  BY MigratedMethodsFacts
<1>4. CAPABILITY_INVOCATION \in i.flags <=> listed = {} \/ DefaultFragment \in listed
  <2>1. i.flags \cap LegacyFlags = GetFlags(doc, DefaultFragment)
    BY <1>1, MigratedMethodsFacts, MigratedValid DEF Valid
  <2>2. CAPABILITY_INVOCATION \in LegacyFlags
    BY DEF LegacyFlags, CAPABILITY_INVOCATION
  <2>3. CAPABILITY_INVOCATION \in GetFlags(doc, DefaultFragment) <=>
          listed = {} \/ DefaultFragment \in listed
    BY <2>2 DEF GetFlags
  <2>4. QED
    BY <2>1, <2>2, <2>3
<1>5. Readable(a)
  BY MigratedReadable
<1> HIDE DEF a, i
<1>6. \A k, m : m.method_type = Ed25519VerificationKey2018 =>
        (Proves(k, m) <=> k \in SolKeys /\ m.key_data = k)
  BY DEF Proves, Ed25519VerificationKey2018, EcdsaSecp256k1VerificationKey2019,
         EcdsaSecp256k1RecoveryMethod2020
<1>7. doc.authority \in SolKeys /\ \A v \in doc.verification_method : v.pubkey \in SolKeys
  BY DEF LegacyDidAccounts
<1> HIDE DEF a, i
<1>8. ASSUME NEW k \in ControlOf(a)
      PROVE  k \in LegacyControl(doc)
  <2>1. PICK n \in AllMethods(a) : CAPABILITY_INVOCATION \in n.flags /\ Proves(k, n)
    BY <1>8 DEF ControlOf
  <2>2. CASE n = i
    BY <1>1, <1>4, <1>6, <2>1, <2>2 DEF LegacyControl
  <2>3. CASE n \in MigratedMethods(doc) /\ n.fragment # DefaultFragment
    <3>1. PICK v \in doc.verification_method :
            n = [fragment |-> v.id, flags |-> GetFlags(doc, v.id),
                 method_type |-> Ed25519VerificationKey2018, key_data |-> v.pubkey]
      BY <2>3 DEF MigratedMethods
    <3>2. k = v.pubkey
      BY <1>6, <2>1, <3>1
    <3>3. v.id \in listed \ {DefaultFragment}
      BY <2>1, <2>3, <3>1 DEF GetFlags
    <3>4. QED
      BY <3>2, <3>3 DEF LegacyControl
  <2>4. QED
    BY <1>2, <2>2, <2>3
<1>9. ASSUME NEW k \in LegacyControl(doc)
      PROVE  k \in ControlOf(a)
  <2>1. CASE k = doc.authority /\ (listed = {} \/ DefaultFragment \in listed)
    <3>1. k \in SolKeys /\ Proves(k, i)
      BY <1>1, <1>6, <1>7, <2>1
    <3>2. QED
      BY <1>1, <1>4, <1>5, <2>1, <3>1 DEF ControlOf
  <2>2. CASE \E v \in doc.verification_method :
               v.id \in listed \ {DefaultFragment} /\ k = v.pubkey
    <3>1. PICK v \in doc.verification_method :
            v.id \in listed \ {DefaultFragment} /\ k = v.pubkey
      BY <2>2
    <3> DEFINE m == [fragment |-> v.id, flags |-> GetFlags(doc, v.id),
                     method_type |-> Ed25519VerificationKey2018, key_data |-> v.pubkey]
    <3>2. m \in MigratedMethods(doc)
      BY DEF MigratedMethods
    <3>3. CAPABILITY_INVOCATION \in m.flags
      BY <3>1 DEF GetFlags, LegacyFlags, CAPABILITY_INVOCATION
    <3>4. /\ m.fragment # DefaultFragment /\ m.key_data = k
          /\ m.method_type = Ed25519VerificationKey2018
      BY <3>1
    <3> HIDE DEF m
    <3>5. m \in AllMethods(a) /\ k \in SolKeys /\ Proves(k, m)
      BY <1>3, <1>6, <1>7, <3>1, <3>2, <3>4
    <3>6. QED
      BY <1>5, <3>3, <3>5 DEF ControlOf
  <2>3. QED
    BY <1>9, <2>1, <2>2 DEF LegacyControl
<1>10. QED
  BY <1>8, <1>9 DEF a

\* Whichever legacy document is migrated, it hands the account to exactly the
\* keys that this document lets invoke capabilities.
THEOREM MigrationPreservesControl == Spec => MigrationKeepsControl
<1> DEFINE A == \A d \in Dids, doc \in LegacyDocs :
                  Migrate(d, doc) => ControlOf(data'[d]) = LegacyControl(doc)
<1>1. IInv /\ [Next]_vars => [A]_vars
  <2> SUFFICES ASSUME IInv, NEW d \in Dids, NEW doc \in LegacyDocs, Migrate(d, doc)
               PROVE  ControlOf(data'[d]) = LegacyControl(doc)
    OBVIOUS
  <2>1. data'[d] = Migrated(doc)
    BY MigrateFacts
  <2>2. doc \in LegacyDidAccounts /\ CanMigrate(doc)
    BY InputAssumption DEF Migrate
  <2>3. QED
    BY <2>1, <2>2, MigratedControl
<1>2. QED
  BY <1>1, Invariance, PTL DEF Spec, MigrationKeepsControl

\* A product grows with its factor.
LEMMA TimesMonotone ==
  ASSUME NEW c \in Nat, NEW m \in Nat, NEW n \in Nat, m <= n
  PROVE  c * m \in Nat /\ c * n \in Nat /\ c * m <= c * n
<1>1. c * (n - m) >= 0 /\ c * n = c * m + c * (n - m)
  OBVIOUS
<1>2. QED
  BY <1>1

\* The size post_migration_size computes is that of the migrated account, or
\* more, whatever the legacy document.
LEMMA MigratedSize ==
  ASSUME NEW doc \in LegacyDocs, CanMigrate(doc)
  PROVE  DISCRIMINATOR + Size(Migrated(doc)) <= PostMigrationSize(doc)
<1> DEFINE a == Migrated(doc)
<1>0. /\ doc \in LegacyDidAccounts
      /\ IsFiniteSet(doc.verification_method)
      /\ IsFiniteSet(doc.service) /\ IsFiniteSet(doc.controller)
  BY InputAssumption, FiniteAssumption
<1>1. /\ a.services = doc.service /\ a.native_controllers = doc.controller
      /\ a.other_controllers = {}
  BY DEF Migrated, SetControllers, SetServices, SetVerificationMethods, InitAccount
<1>2. /\ Cardinality(a.verification_methods) \in Nat
      /\ Cardinality(doc.verification_method) \in Nat
      /\ Cardinality(a.verification_methods) <= Cardinality(doc.verification_method)
  BY <1>0, MigratedCount, FS_CardinalityType
<1>3. Cardinality(doc.service) \in Nat /\ Cardinality(doc.controller) \in Nat
  BY <1>0, FS_CardinalityType
<1>4. Cardinality(a.other_controllers) = 0
  BY <1>1, FS_EmptySet
<1>5. VmSize \in Nat /\ ServiceSize \in Nat /\ OtherSize \in Nat
  BY SizeAssumption
<1>6. /\ VmSize * Cardinality(a.verification_methods) \in Nat
      /\ VmSize * Cardinality(doc.verification_method) \in Nat
      /\ VmSize * Cardinality(a.verification_methods) <=
           VmSize * Cardinality(doc.verification_method)
  BY <1>2, <1>5, TimesMonotone
<1>7. /\ ServiceSize * Cardinality(doc.service) \in Nat
      /\ OtherSize * Cardinality(a.other_controllers) = 0
  BY <1>3, <1>4, <1>5
<1>8. Size(a) = 76 + VmSize * Cardinality(a.verification_methods)
                  + ServiceSize * Cardinality(doc.service)
                  + 32 * Cardinality(doc.controller)
  BY <1>1, <1>3, <1>6, <1>7 DEF Size, INITIAL_SIZE, CONTROLLER_SIZE
<1>9. PostMigrationSize(doc) =
        76 + VmSize * Cardinality(doc.verification_method)
           + ServiceSize * Cardinality(doc.service)
           + 32 * Cardinality(doc.controller) + 8
  BY DEF PostMigrationSize, INITIAL_SIZE, CONTROLLER_SIZE, DISCRIMINATOR
<1>10. ASSUME NEW x \in Nat, NEW y \in Nat, NEW s \in Nat, NEW c \in Nat, x <= y
       PROVE  8 + (76 + x + s + 32 * c) <= 76 + y + s + 32 * c + 8
  BY <1>10
<1>11. 8 + Size(a) <= PostMigrationSize(doc)
  BY <1>3, <1>6, <1>7, <1>8, <1>9, <1>10
<1>12. QED
  BY <1>11 DEF DISCRIMINATOR

\* In no state is a legacy document of a DID stuck for want of space: what
\* migrate allocates with post_migration_size holds what it writes.
THEOREM MigrationHasSpace == Spec => []MigrationFits
<1>1. MigrationFits
  BY MigratedSize DEF MigrationFits
<1>2. QED
  BY <1>1, PTL
=============================================================================
