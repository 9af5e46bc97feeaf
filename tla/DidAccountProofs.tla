-------------------------- MODULE DidAccountProofs --------------------------
(***************************************************************************)
(* Lemmas about the operators of DidAccount and LegacyDidAccount, for every*)
(* value of their constants: each operation of the program leaves an       *)
(* account that is valid.                                                  *)
(***************************************************************************)
EXTENDS LegacyDidAccount, FiniteSetTheorems, WellFoundedInduction, TLAPS

\* A set of natural numbers that has 0 and the successor of each of its members
\* has them all: the least number that it lacks would be neither.
LEMMA Induction ==
  ASSUME NEW S, 0 \in S, \A n \in Nat : n \in S => n + 1 \in S
  PROVE  \A n \in Nat : n \in S
<1> DEFINE T == {n \in Nat : n \notin S}
<1>1. SUFFICES ASSUME T # {} PROVE FALSE
  OBVIOUS
<1>2. PICK x \in T : \A y \in T : ~ (<<y, x>> \in OpToRel(<, Nat))
  BY <1>1, NatLessThanWellFounded, WFMin
<1>3. x \in Nat /\ x # 0 /\ x \notin S
  OBVIOUS
<1>4. x - 1 \in Nat /\ x - 1 < x
  BY <1>3
<1>5. <<x - 1, x>> \in OpToRel(<, Nat)
  BY <1>3, <1>4 DEF OpToRel
<1>6. x - 1 \in S
  BY <1>2, <1>4, <1>5
<1>7. QED
  BY <1>3, <1>4, <1>6

\* The account DidAccount::new makes is valid.
LEMMA NewValid ==
  ASSUME NEW d \in SolKeys
  PROVE  Valid(d, NewAccount(d))
BY DefaultAssumption, NonceAssumption
   DEF Valid, NewAccount, InitAccount, DidAccounts, VerificationMethods, KeyData,
       UniqueByFragment, Fragmented, Ed25519VerificationKey2018,
       CAPABILITY_INVOCATION, OWNERSHIP_PROOF, PROTECTED

\* Counting a signature changes nothing but the nonce.
LEMMA CountedValid ==
  ASSUME NEW d, NEW a, Valid(d, a), NEW eth, CanCount(a, eth)
  PROVE  /\ Valid(d, Counted(a, eth))
         /\ AllMethods(Counted(a, eth)) = AllMethods(a)
BY NonceAssumption
   DEF Valid, Counted, CanCount, DidAccounts, AllMethods

\* Removing a method leaves a valid account.
LEMMA RemoveMethodValid ==
  ASSUME NEW d, NEW a, Valid(d, a), NEW f
  PROVE  Valid(d, RemoveMethod(a, f))
<1>1. CASE f = a.initial_verification_method.fragment
  BY <1>1 DEF Valid, RemoveMethod, DidAccounts, VerificationMethods
<1>2. CASE f # a.initial_verification_method.fragment
  <2>1. RemoveMethod(a, f) =
          [a EXCEPT !.verification_methods = WithoutFirst(@, f)]
    BY <1>2 DEF RemoveMethod
  <2>2. WithoutFirst(a.verification_methods, f) \subseteq a.verification_methods
    BY DEF WithoutFirst
  <2>3. QED
    BY <2>1, <2>2 DEF Valid, DidAccounts, UniqueByFragment, Fragmented
<1>3. QED
  BY <1>1, <1>2

\* Overwriting the flags of a method that exists leaves a valid account.
LEMMA WithFlagsValid ==
  ASSUME NEW d, NEW a, Valid(d, a), NEW f, NEW flags \in SUBSET (0..15),
         Fragmented(AllMethods(a), f) # {}
  PROVE  Valid(d, WithFlags(a, f, flags))
<1>1. CASE f = a.initial_verification_method.fragment
  BY <1>1 DEF Valid, WithFlags, DidAccounts, VerificationMethods
<1>2. CASE f # a.initial_verification_method.fragment
  <2> DEFINE m == CHOOSE x \in Fragmented(a.verification_methods, f) : TRUE
             n == [m EXCEPT !.flags = flags]
  <2>1. m \in a.verification_methods /\ m.fragment = f
    BY <1>2 DEF Fragmented, AllMethods
  <2>2. m \in VerificationMethods
    BY <2>1 DEF Valid, DidAccounts
  <2>3. WithFlags(a, f, flags) =
          [a EXCEPT !.verification_methods = (@ \ {m}) \cup {n}]
    BY <1>2 DEF WithFlags
  <2> HIDE DEF m
  <2>4. n \in VerificationMethods /\ n.fragment = f
    BY <2>1, <2>2 DEF VerificationMethods
  <2> HIDE DEF n
  <2>5. UniqueByFragment((a.verification_methods \ {m}) \cup {n})
    BY <2>1, <2>4 DEF Valid, UniqueByFragment
  <2>6. Fragmented((a.verification_methods \ {m}) \cup {n}, DefaultFragment) = {}
    BY <1>2, <2>1, <2>4 DEF Valid, Fragmented
  <2>7. QED
    BY SMTT(30), <2>3, <2>4, <2>5, <2>6 DEF Valid, DidAccounts
<1>3. QED
  BY <1>1, <1>2

\* When add_verification_method succeeds, set_verification_methods finds the
\* initial method among the existing ones: the account gains exactly the new
\* method.
LEMMA AddMethodEffect ==
  ASSUME NEW d, NEW a, Valid(d, a), NEW m \in VerificationMethods,
         CanSetVerificationMethods(AllMethods(a), {m})
  PROVE  SetVerificationMethods(a, AllMethods(a), {m}) =
           [a EXCEPT !.verification_methods = @ \cup {m}]
<1> DEFINE first == a.initial_verification_method
           named == Fragmented(AllMethods(a) \cup {m}, first.fragment)
<1>1. m.fragment # first.fragment /\ m # first
  BY DEF CanSetVerificationMethods, AllMethods
<1>2. named = {first}
  BY <1>1 DEF Valid, Fragmented, AllMethods
<1>3. (CHOOSE x \in named : TRUE) = first
  BY <1>2
<1>4. first \notin a.verification_methods
  BY DEF Valid, Fragmented
<1>5. (AllMethods(a) \cup {m}) \ {first} = a.verification_methods \cup {m}
  BY <1>1, <1>4 DEF AllMethods
<1>6. SetVerificationMethods(a, AllMethods(a), {m}) =
        [a EXCEPT !.initial_verification_method.flags = first.flags,
                  !.verification_methods = (AllMethods(a) \cup {m}) \ {first}]
  BY <1>2, <1>3 DEF SetVerificationMethods
<1>7. [a EXCEPT !.initial_verification_method.flags = first.flags,
                !.verification_methods = a.verification_methods \cup {m}] =
      [a EXCEPT !.verification_methods = a.verification_methods \cup {m}]
  BY ZenonT(60) DEF Valid, DidAccounts, VerificationMethods
<1>8. QED
  BY <1>5, <1>6, <1>7

\* Adding a method leaves a valid account.
LEMMA AddMethodValid ==
  ASSUME NEW d, NEW a, Valid(d, a), NEW m \in VerificationMethods,
         CanSetVerificationMethods(AllMethods(a), {m})
  PROVE  Valid(d, SetVerificationMethods(a, AllMethods(a), {m}))
<1>1. UniqueByFragment(a.verification_methods \cup {m})
  BY DEF CanSetVerificationMethods, AllMethods, Valid, UniqueByFragment
<1>2. Fragmented(a.verification_methods \cup {m}, DefaultFragment) = {}
  BY DEF CanSetVerificationMethods, AllMethods, Valid, Fragmented
<1>3. Valid(d, [a EXCEPT !.verification_methods = a.verification_methods \cup {m}])
  BY <1>1, <1>2 DEF Valid, DidAccounts
<1>4. QED
  BY <1>3, AddMethodEffect

\* Replacing all methods, as update and migrate do, leaves a valid account: a
\* "default" among them gives its flags to the initial method and is dropped.
LEMMA ReplaceMethodsValid ==
  ASSUME NEW d, NEW a, Valid(d, a), NEW ms \in SUBSET VerificationMethods,
         UniqueByFragment(ms)
  PROVE  Valid(d, SetVerificationMethods(a, {}, ms))
<1> DEFINE named == Fragmented({} \cup ms, a.initial_verification_method.fragment)
           n == CHOOSE m \in named : TRUE
<1>0. named = Fragmented(ms, DefaultFragment)
  BY DEF Valid
<1>1. CASE named = {}
  <2>1. SetVerificationMethods(a, {}, ms) = [a EXCEPT !.verification_methods = ms]
    BY <1>1 DEF SetVerificationMethods
  <2>2. QED
    BY <1>0, <1>1, <2>1 DEF Valid, DidAccounts
<1>2. CASE named # {}
  <2>1. n \in ms /\ n.fragment = DefaultFragment
    BY <1>0, <1>2 DEF Fragmented
  <2>2. SetVerificationMethods(a, {}, ms) =
          [a EXCEPT !.initial_verification_method.flags = n.flags,
                    !.verification_methods = ms \ {n}]
    BY <1>2 DEF SetVerificationMethods
  <2> HIDE DEF n, named
  <2>3. UniqueByFragment(ms \ {n})
    BY DEF UniqueByFragment
  <2>4. Fragmented(ms \ {n}, DefaultFragment) = {}
    BY <2>1 DEF UniqueByFragment, Fragmented
  <2>5. n.flags \in SUBSET (0..15)
    BY <2>1 DEF VerificationMethods
  <2>6. Valid(d, [a EXCEPT !.initial_verification_method.flags = n.flags])
    BY <2>5 DEF Valid, DidAccounts, VerificationMethods
  <2>7. Valid(d, [[a EXCEPT !.initial_verification_method.flags = n.flags]
                    EXCEPT !.verification_methods = ms \ {n}])
    BY <2>3, <2>4, <2>6 DEF Valid, DidAccounts
  <2>8. QED
    BY <2>2, <2>7 DEF Valid, DidAccounts
<1>3. QED
  BY <1>1, <1>2

\* The service operations leave a valid account.
LEMMA ServicesValid ==
  ASSUME NEW d, NEW a, Valid(d, a)
  PROVE  /\ \A ss \in SUBSET Services :
              CanSetServices(ss) => Valid(d, SetServices(a, ss))
         /\ \A s \in Services : Valid(d, AddedService(a, s))
         /\ \A f : Valid(d, [a EXCEPT !.services = WithoutFirst(@, f)])
<1>1. ASSUME NEW ss \in SUBSET Services, CanSetServices(ss)
      PROVE  Valid(d, SetServices(a, ss))
  BY <1>1 DEF Valid, DidAccounts, SetServices, CanSetServices
<1>2. ASSUME NEW s \in Services PROVE Valid(d, AddedService(a, s))
  BY DEF Valid, DidAccounts, AddedService, UniqueByFragment
<1>3. ASSUME NEW f
      PROVE  Valid(d, [a EXCEPT !.services = WithoutFirst(@, f)])
  BY DEF Valid, DidAccounts, WithoutFirst, UniqueByFragment
<1>4. QED
  BY <1>1, <1>2, <1>3

\* Setting the controllers leaves a valid account.
LEMMA ControllersLemma ==
  ASSUME NEW d, NEW a, Valid(d, a),
         NEW native \in SUBSET SolKeys, NEW other \in SUBSET OtherDids,
         d \notin native, other \subseteq ForeignDids
  PROVE  Valid(d, SetControllers(a, native, other))
BY DEF Valid, DidAccounts, SetControllers

\* What update writes is valid.
LEMMA UpdatedValid ==
  ASSUME NEW d, NEW a, Valid(d, a), NEW arg \in UpdateArgs,
         CanSetServices(arg.services),
         CanSetVerificationMethods({}, arg.verification_methods),
         CanSetControllers(a, arg.native_controllers, arg.other_controllers)
  PROVE  Valid(d, Updated(a, arg))
<1>1. Valid(d, SetServices(a, arg.services))
  BY ServicesValid DEF UpdateArgs
<1>2. Valid(d, SetVerificationMethods(SetServices(a, arg.services), {},
                                      arg.verification_methods))
  BY <1>1, ReplaceMethodsValid DEF UpdateArgs, CanSetVerificationMethods
<1>3. QED
  BY <1>2, ControllersLemma DEF Updated, UpdateArgs, CanSetControllers, Valid

\* What migrate writes is valid.
LEMMA MigratedValid ==
  ASSUME NEW doc \in LegacyDidAccounts, CanMigrate(doc)
  PROVE  Valid(doc.authority, Migrated(doc))
<1> DEFINE flags == GetFlags(doc, DefaultFragment) \cup GuardedFlags
           blank == InitAccount(doc.authority, flags)
           named == SetVerificationMethods(blank, {}, MigratedMethods(doc))
<1>1. \A f : GetFlags(doc, f) \in SUBSET (0..15)
  BY DEF GetFlags, LegacyFlags, CAPABILITY_INVOCATION
<1>2. flags \in SUBSET (0..15)
  BY <1>1 DEF GuardedFlags, OWNERSHIP_PROOF, PROTECTED
<1>3. Valid(doc.authority, blank)
  <2> HIDE DEF flags
  <2> QED
    BY <1>2, DefaultAssumption, NonceAssumption
       DEF Valid, InitAccount, DidAccounts, VerificationMethods, KeyData,
           UniqueByFragment, Fragmented, Ed25519VerificationKey2018,
           LegacyDidAccounts
<1>4. MigratedMethods(doc) \in SUBSET VerificationMethods
  BY <1>1 DEF MigratedMethods, VerificationMethods, LegacyDidAccounts, KeyData,
              Ed25519VerificationKey2018
<1>5. Valid(doc.authority, named)
  BY <1>3, <1>4, ReplaceMethodsValid DEF CanMigrate
<1> HIDE DEF named
<1>6. Valid(doc.authority, SetServices(named, doc.service))
  BY <1>5, ServicesValid DEF CanMigrate, LegacyDidAccounts
<1>7. QED
  BY <1>6, ControllersLemma DEF Migrated, CanMigrate, LegacyDidAccounts, named

\* What the handlers write leaves the nonce alone.
LEMMA NonceUntouched ==
  ASSUME NEW d, NEW a, Valid(d, a)
  PROVE  /\ \A f : RemoveMethod(a, f).nonce = a.nonce
         /\ \A f, flags : WithFlags(a, f, flags).nonce = a.nonce
         /\ \A E, I : SetVerificationMethods(a, E, I).nonce = a.nonce
         /\ \A s : AddedService(a, s).nonce = a.nonce
         /\ \A S : [a EXCEPT !.services = S].nonce = a.nonce
         /\ \A n, o : SetControllers(a, n, o).nonce = a.nonce
<1>1. \A f : RemoveMethod(a, f).nonce = a.nonce
  BY DEF RemoveMethod, Valid, DidAccounts
<1>2. \A f, flags : WithFlags(a, f, flags).nonce = a.nonce
  BY DEF WithFlags, Valid, DidAccounts
<1>3. \A E, I : SetVerificationMethods(a, E, I).nonce = a.nonce
  BY DEF SetVerificationMethods, Valid, DidAccounts
<1>4. /\ \A s : AddedService(a, s).nonce = a.nonce
      /\ \A S : [a EXCEPT !.services = S].nonce = a.nonce
      /\ \A n, o : SetControllers(a, n, o).nonce = a.nonce
  BY DEF AddedService, SetControllers, Valid, DidAccounts
<1>5. QED
  BY <1>1, <1>2, <1>3, <1>4

\* What the handlers write has finite lists, if what they are given has.
LEMMA FiniteUntouched ==
  ASSUME NEW d, NEW a, Valid(d, a), FiniteLists(a)
  PROVE  /\ \A f : FiniteLists(RemoveMethod(a, f))
         /\ \A f, flags : FiniteLists(WithFlags(a, f, flags))
         /\ \A E, I : IsFiniteSet(E \cup I) =>
              FiniteLists(SetVerificationMethods(a, E, I))
         /\ \A S : IsFiniteSet(S) => FiniteLists(SetServices(a, S))
         /\ \A s : FiniteLists(AddedService(a, s))
         /\ \A f : FiniteLists([a EXCEPT !.services = WithoutFirst(@, f)])
         /\ \A n, o : IsFiniteSet(n) /\ IsFiniteSet(o) =>
              FiniteLists(SetControllers(a, n, o))
<1>1. \A S, T : IsFiniteSet(S) /\ T \subseteq S => IsFiniteSet(T)
  BY FS_Subset
<1>2. \A S, x : IsFiniteSet(S) => IsFiniteSet(S \cup {x})
  BY FS_AddElement
<1>3. ASSUME NEW S, NEW f, IsFiniteSet(S)
      PROVE  IsFiniteSet(WithoutFirst(S, f))
  BY <1>1, <1>3 DEF WithoutFirst
<1>4. \A f : FiniteLists(RemoveMethod(a, f))
  BY <1>3 DEF FiniteLists, RemoveMethod, Valid, DidAccounts
<1>5. ASSUME NEW f, NEW flags
      PROVE  FiniteLists(WithFlags(a, f, flags))
  <2>1. CASE f = a.initial_verification_method.fragment
    BY <2>1 DEF FiniteLists, WithFlags, Valid, DidAccounts
  <2>2. CASE f # a.initial_verification_method.fragment
    <3> DEFINE m == CHOOSE x \in Fragmented(a.verification_methods, f) : TRUE
               S == (a.verification_methods \ {m}) \cup {[m EXCEPT !.flags = flags]}
    <3>1. WithFlags(a, f, flags) = [a EXCEPT !.verification_methods = S]
      BY <2>2 DEF WithFlags
    <3>2. IsFiniteSet(S)
      <4> DEFINE rest == a.verification_methods \ {m}
      <4>1. IsFiniteSet(a.verification_methods) /\ rest \subseteq a.verification_methods
        BY DEF FiniteLists
      <4>2. IsFiniteSet(rest)
        BY <1>1, <4>1
      <4> HIDE DEF rest, m
      <4>3. IsFiniteSet(rest \cup {[m EXCEPT !.flags = flags]})
        BY <1>2, <4>2
      <4>4. QED
        BY <4>3 DEF rest
    <3> HIDE DEF S
    <3>3. QED
      BY <3>1, <3>2 DEF FiniteLists, Valid, DidAccounts
  <2>3. QED
    BY <2>1, <2>2
<1>6. ASSUME NEW E, NEW I, IsFiniteSet(E \cup I)
      PROVE  FiniteLists(SetVerificationMethods(a, E, I))
  <2> DEFINE M == E \cup I
  <2>1. \A S \in SUBSET M : IsFiniteSet(S)
    BY <1>1, <1>6
  <2>2. \E S \in SUBSET M : \E m :
          \/ SetVerificationMethods(a, E, I) = [a EXCEPT !.verification_methods = S]
          \/ SetVerificationMethods(a, E, I) =
               [a EXCEPT !.initial_verification_method.flags = m.flags,
                         !.verification_methods = S]
    BY DEF SetVerificationMethods
  <2>3. QED
    BY <2>1, <2>2 DEF FiniteLists, Valid, DidAccounts
<1>7. \A S : IsFiniteSet(S) => FiniteLists(SetServices(a, S))
  BY DEF FiniteLists, SetServices, Valid, DidAccounts
<1>8. \A s : FiniteLists(AddedService(a, s))
  BY <1>1, <1>2 DEF FiniteLists, AddedService, Valid, DidAccounts
<1>9. \A f : FiniteLists([a EXCEPT !.services = WithoutFirst(@, f)])
  BY <1>3 DEF FiniteLists, Valid, DidAccounts
<1>10. \A n, o : IsFiniteSet(n) /\ IsFiniteSet(o) => FiniteLists(SetControllers(a, n, o))
  BY DEF FiniteLists, SetControllers, Valid, DidAccounts
<1>11. QED
  BY <1>4, <1>5, <1>6, <1>7, <1>8, <1>9, <1>10

\* The methods of a migrated account are no more than those of its document.
LEMMA MigratedCount ==
  ASSUME NEW doc \in LegacyDidAccounts, IsFiniteSet(doc.verification_method)
  PROVE  /\ IsFiniteSet(Migrated(doc).verification_methods)
         /\ Cardinality(Migrated(doc).verification_methods) <=
              Cardinality(doc.verification_method)
<1> DEFINE F(m) == [fragment |-> m.id, flags |-> GetFlags(doc, m.id),
                    method_type |-> Ed25519VerificationKey2018, key_data |-> m.pubkey]
           T == {F(m) : m \in doc.verification_method}
<1>1. MigratedMethods(doc) = T
  BY DEF MigratedMethods
<1>2. IsFiniteSet(T) /\ Cardinality(T) <= Cardinality(doc.verification_method)
  <2> DEFINE f == [m \in doc.verification_method |-> F(m)]
  <2>1. f \in Surjection(doc.verification_method, T)
    BY DEF Surjection
  <2>2. QED
    BY <2>1, FS_Surjection
<1>3. Migrated(doc).verification_methods \subseteq T
  BY <1>1 DEF Migrated, SetControllers, SetServices, SetVerificationMethods, InitAccount
<1>4. QED
  BY <1>2, <1>3, FS_Subset, FS_CardinalityType

\* What migrate asks for is a number of bytes, and what it writes is finite.
LEMMA MigratedFinite ==
  ASSUME NEW doc \in LegacyDidAccounts,
         IsFiniteSet(doc.verification_method),
         IsFiniteSet(doc.service), IsFiniteSet(doc.controller)
  PROVE  PostMigrationSize(doc) \in Nat /\ FiniteLists(Migrated(doc))
<1>1. PostMigrationSize(doc) \in Nat
  <2>1. /\ Cardinality(doc.verification_method) \in Nat
        /\ Cardinality(doc.service) \in Nat
        /\ Cardinality(doc.controller) \in Nat
    BY FS_CardinalityType
  <2>2. QED
    BY <2>1, SizeAssumption
       DEF PostMigrationSize, INITIAL_SIZE, CONTROLLER_SIZE, DISCRIMINATOR
<1>2. /\ Migrated(doc).services = doc.service
      /\ Migrated(doc).native_controllers = doc.controller
      /\ Migrated(doc).other_controllers = {}
  BY DEF Migrated, SetControllers, SetServices, SetVerificationMethods, InitAccount
<1>3. QED
  BY <1>1, <1>2, MigratedCount, FS_EmptySet DEF FiniteLists
=============================================================================
