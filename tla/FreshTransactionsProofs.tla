---------------------- MODULE FreshTransactionsProofs -----------------------
(***************************************************************************)
(* A transaction of DidSolTransactionBuilder that lands on the account it  *)
(* was built from does what its chain of calls asked for, for every value  *)
(* of the constants.  Its execution is followed side by side with that of  *)
(* the operations by themselves; the inductive invariant FreshInv says that *)
(* the chain was built from the one account that was seen.                 *)
(***************************************************************************)
EXTENDS AllocationProofs

-----------------------------------------------------------------------------
(* The operations of an instance, executed one by one.                     *)

\* No size on the way is larger than the one that an allocation asks for.
LEMMA GrowthBounded ==
  ASSUME NEW a, IsDocument(a), NEW size \in Nat,
         NEW general, general \in Seq(InstrOf(General))
  PROVE  \A n \in 0..Len(general) :
           Growth(a, size, general)[n].size <= MaxRequiredSize(a, size, general)
<1> DEFINE after == Growth(a, size, general)
           Good(m) == /\ Followed(after[m]) /\ after[m].max \in Int
                      /\ \A n \in 0..m :
                           after[n].size \in Int /\ after[n].size <= after[m].max
           S == {m \in Nat : m <= Len(general) => Good(m)}
<1>0. Len(general) \in Nat
  OBVIOUS
<1>1. 0 \in S
  <2>1. after[0] = [account |-> a, size |-> size, max |-> size]
    BY GrowthStart
  <2> HIDE DEF after
  <2>2. Good(0)
    BY <2>1 DEF Followed
  <2>3. QED
    BY <2>2
<1>2. ASSUME NEW m \in Nat, m \in S
      PROVE  m + 1 \in S
  <2>1. SUFFICES ASSUME m + 1 <= Len(general) PROVE Good(m + 1)
    OBVIOUS
  <2> DEFINE g == after[m]
             next == Change(g.account, g.size, general[m + 1])
             max == IF next.size > g.max THEN next.size ELSE g.max
  <2>2. after[m + 1] = Grown(g, general[m + 1])
    BY <1>0, <2>1, GrowthStep
  <2>3. Good(m)
    BY <1>0, <1>2, <2>1
  <2>4. general[m + 1] \in InstrOf(General)
    <3>1. m + 1 \in 1..Len(general)
      BY <2>1
    <3>2. QED
      BY <3>1, ElementOfSeq
  <2>5. Followed(next)
    <3> HIDE DEF after
    <3>1. QED
      BY <2>3, <2>4, ChangeFollowed DEF Followed
  <2>6. after[m + 1] = [account |-> next.account, size |-> next.size, max |-> max]
    BY <2>2 DEF Grown
  <2> HIDE DEF after, next
  <2>7. max \in Int /\ next.size <= max /\ g.max <= max
    BY <2>3, <2>5 DEF Followed
  <2>8. /\ after[m + 1].account = next.account /\ after[m + 1].size = next.size
        /\ after[m + 1].max = max
    BY <2>6
  <2> HIDE DEF max
  <2>9. Followed(after[m + 1])
    BY <2>5, <2>8 DEF Followed
  <2>10. ASSUME NEW n \in 0..(m + 1)
         PROVE  after[n].size \in Int /\ after[n].size <= after[m + 1].max
    <3>1. CASE n = m + 1
      BY <2>5, <2>7, <2>8, <3>1 DEF Followed
    <3>2. CASE n \in 0..m
      <4>1. after[n].size \in Int /\ after[n].size <= g.max
        BY <2>3, <3>2
      <4>2. QED
        BY <2>3, <2>7, <2>8, <4>1
    <3>3. QED
      BY <3>1, <3>2
  <2>11. QED
    BY <2>7, <2>8, <2>9, <2>10
<1> HIDE DEF S
<1>3. \A m \in Nat : m \in S
  BY <1>1, <1>2, Induction
<1>4. Good(Len(general))
  BY <1>0, <1>3 DEF S
<1>5. QED
  BY <1>4 DEF MaxRequiredSize

\* The account that the operations start from, and an operation as it is meant
\* for an account.
Ready(b, before) ==
  IF Allocates(b)
  THEN [before EXCEPT !.exists = TRUE, !.space = Enough,
                      !.data = IF before.exists THEN @ ELSE NewAccount(Did)]
  ELSE before
Meant(b, a, i) == IF Signable(i) THEN SignedFor(a, i, b.ethSigner) ELSE i

\* The signature of an instruction, if its kind has one.
SignaturesOf(i, signer, nonce) ==
  IF Signable(i) THEN {[key |-> k, message |-> i.arg, nonce |-> nonce] : k \in signer}
  ELSE {}

LEMMA EnoughIsNat == Enough \in Nat
BY SMT DEF Enough

\* Ideal satisfies its own recursion equation.
LEMMA IdealDefined ==
  ASSUME NEW b, NEW before, NEW signers, Len(Operations(b)) \in Nat
  PROVE  Ideal(b, before, signers) =
           [n \in 0..Len(Operations(b)) |->
              IF n = 0 THEN {Ready(b, before)}
              ELSE UNION {Outcome(a, Meant(b, a, Operations(b)[n]), signers) :
                            a \in Ideal(b, before, signers)[n - 1]}]
<1> DEFINE ready == Ready(b, before)
           Next1(set, n) ==
             UNION {Outcome(a, Meant(b, a, Operations(b)[n]), signers) : a \in set}
           Steps(f, k) ==
             f = [n \in 0..k |-> IF n = 0 THEN {ready} ELSE Next1(f[n - 1], n)]
           S == {k \in Nat : \E f : Steps(f, k)}
<1>0. Ideal(b, before, signers) =
        CHOOSE f : f = [n \in 0..Len(Operations(b)) |->
                          IF n = 0 THEN {ready} ELSE Next1(f[n - 1], n)]
  BY DEF Ideal, Ready, Meant
<1> HIDE DEF ready, Next1
<1>1. 0 \in S
  <2>1. Steps([n \in 0..0 |-> {ready}], 0)
    OBVIOUS
  <2>2. QED
    BY <2>1
<1>2. ASSUME NEW k \in Nat, k \in S
      PROVE  k + 1 \in S
  <2>1. PICK f : Steps(f, k)
    BY <1>2
  <2> DEFINE last == Next1(f[k], k + 1)
             g == [n \in 0..(k + 1) |-> IF n = k + 1 THEN last ELSE f[n]]
  <2>2. \A n \in 0..k : g[n] = f[n]
    OBVIOUS
  <2>3. g[k + 1] = last
    OBVIOUS
  <2>4. \A n \in 0..(k + 1) : n # 0 => n - 1 \in 0..k
    OBVIOUS
  <2>5. \A n \in 0..k : f[n] = IF n = 0 THEN {ready} ELSE Next1(f[n - 1], n)
    BY <2>1
  <2>6. Steps(g, k + 1)
    <3>1. SUFFICES ASSUME NEW n \in 0..(k + 1)
                   PROVE  g[n] = IF n = 0 THEN {ready} ELSE Next1(g[n - 1], n)
      OBVIOUS
    <3> HIDE DEF g
    <3>2. CASE n \in 0..k
      BY <2>2, <2>4, <2>5, <3>2
    <3>3. CASE n = k + 1
      <4>1. n # 0 /\ n - 1 = k /\ n - 1 \in 0..k
        BY <3>3
      <4>2. QED
        BY <2>2, <2>3, <3>3, <4>1
    <3>4. QED
      BY <3>2, <3>3
  <2> HIDE DEF g, Steps
  <2>7. QED
    BY <2>6
<1> HIDE DEF S
<1>3. \A k \in Nat : k \in S
  BY <1>1, <1>2, Induction
<1> USE DEF S
<1>4. \E f : Steps(f, Len(Operations(b)))
  BY <1>3
<1>5. Steps(Ideal(b, before, signers), Len(Operations(b)))
  BY <1>0, <1>4
<1>6. QED
  BY <1>5 DEF ready, Next1

LEMMA IdealStart ==
  ASSUME NEW b, NEW before, NEW signers, Len(Operations(b)) \in Nat
  PROVE  Ideal(b, before, signers)[0] = {Ready(b, before)}
<1> DEFINE after == Ideal(b, before, signers)
<1>1. after = [n \in 0..Len(Operations(b)) |->
                 IF n = 0 THEN {Ready(b, before)}
                 ELSE UNION {Outcome(a, Meant(b, a, Operations(b)[n]), signers) :
                               a \in after[n - 1]}]
  BY IdealDefined
<1> HIDE DEF after
<1>2. after[0] = {Ready(b, before)}
  BY <1>1
<1>3. QED
  BY <1>2 DEF after

LEMMA IdealFrom ==
  ASSUME NEW b, NEW before, NEW signers, Len(Operations(b)) \in Nat,
         NEW n \in Nat, n + 1 <= Len(Operations(b)),
         NEW c \in Ideal(b, before, signers)[n + 1]
  PROVE  \E a \in Ideal(b, before, signers)[n] :
           c \in Outcome(a, Meant(b, a, Operations(b)[n + 1]), signers)
<1> DEFINE after == Ideal(b, before, signers)
<1>1. after = [m \in 0..Len(Operations(b)) |->
                 IF m = 0 THEN {Ready(b, before)}
                 ELSE UNION {Outcome(a, Meant(b, a, Operations(b)[m]), signers) :
                               a \in after[m - 1]}]
  BY IdealDefined
<1>0. c \in after[n + 1]
  OBVIOUS
<1> HIDE DEF after
<1>2. n + 1 \in 0..Len(Operations(b)) /\ n + 1 # 0 /\ (n + 1) - 1 = n
  OBVIOUS
<1>3. after[n + 1] = UNION {Outcome(a, Meant(b, a, Operations(b)[n + 1]), signers) :
                              a \in after[(n + 1) - 1]}
  BY <1>1, <1>2
<1>4. \E a \in after[n] : c \in Outcome(a, Meant(b, a, Operations(b)[n + 1]), signers)
  BY <1>0, <1>2, <1>3
<1>5. QED
  BY <1>4 DEF after

\* An operation of an instance, and as it is meant.
LEMMA MeantTyped ==
  ASSUME NEW b, NEW a, NEW i \in InstrOf(AllNames)
  PROVE  /\ Typed(i) /\ Typed(Meant(b, a, i)) /\ i.eth = {}
         /\ Meant(b, a, i).name = i.name /\ Meant(b, a, i).arg = i.arg
         /\ Meant(b, a, i).authority = i.authority /\ Meant(b, a, i).payer = i.payer
         /\ Meant(b, a, i).eth = SignaturesOf(i, b.ethSigner, a.data.nonce)
<1>1. i.name \in AllNames /\ i \in InstructionsOf(i.name)
  BY InstrOfNames
<1>2. /\ i = [name |-> i.name, arg |-> i.arg, authority |-> i.authority,
              payer |-> i.payer, eth |-> {}]
      /\ i.arg \in ArgumentsOf(i.name)
  BY <1>1 DEF InstructionsOf
<1>3. i.name \in InstructionNames
  BY <1>1 DEF AllNames, ChainNames, Operation, InstructionNames, Modifying
<1>4. QED
  BY <1>2, <1>3 DEF Meant, SignedFor, SignaturesOf, Typed

\* Every account on the way is well-formed.
LEMMA IdealAccounts ==
  ASSUME NEW b, IsBuilder(b), NEW before, IsAccount(before), NEW signers
  PROVE  \A n \in 0..Len(Operations(b)) :
           \A a \in Ideal(b, before, signers)[n] : IsAccount(a)
<1> DEFINE after == Ideal(b, before, signers)
           all == Operations(b)
           S == {n \in Nat : n <= Len(all) => \A a \in after[n] : IsAccount(a)}
<1>0. all \in Seq(InstrOf(AllNames)) /\ Len(all) \in Nat
  <2>1. all \in Seq(InstrOf(AllNames))
    BY ListsTyped
  <2>2. QED
    BY <2>1, LenProperties
<1>a. \A n \in Nat : n + 1 <= Len(all) => all[n + 1] \in InstrOf(AllNames)
  <2>1. SUFFICES ASSUME NEW n \in Nat, n + 1 <= Len(all)
                 PROVE  all[n + 1] \in InstrOf(AllNames)
    OBVIOUS
  <2>2. n + 1 \in 1..Len(all)
    BY <1>0, <2>1
  <2> HIDE DEF all
  <2>3. QED
    BY <1>0, <2>2, ElementOfSeq
<1>1. 0 \in S
  <2>1. after[0] = {Ready(b, before)}
    BY <1>0, IdealStart
  <2>2. IsAccount(Ready(b, before))
    <3>1. /\ before.exists \in BOOLEAN /\ before.legacy \in SUBSET LegacyAccounts
          /\ before = [exists |-> before.exists, data |-> before.data,
                       space |-> before.space, legacy |-> before.legacy]
          /\ Valid(Did, before.data) /\ FiniteLists(before.data)
          /\ \A doc, other \in before.legacy : doc = other
      BY DEF IsAccount
    <3>2. Valid(Did, NewAccount(Did)) /\ FiniteLists(NewAccount(Did))
      BY NewValid, DidAssumption, FS_EmptySet DEF FiniteLists, NewAccount, InitAccount
    <3> DEFINE data == IF before.exists THEN before.data ELSE NewAccount(Did)
    <3>3. Valid(Did, data) /\ FiniteLists(data)
      BY <3>1, <3>2
    <3>4. data \in DidAccounts
      BY <3>3 DEF Valid
    <3>5. Allocates(b) => Ready(b, before) =
            [exists |-> TRUE, data |-> data, space |-> Enough, legacy |-> before.legacy]
      BY <3>1 DEF Ready
    <3>6. CASE Allocates(b)
      <4> HIDE DEF data
      <4> DEFINE legacy == before.legacy
                 r == [exists |-> TRUE, data |-> data, space |-> Enough, legacy |-> legacy]
      <4>1. r.data = data /\ r.legacy = legacy
        OBVIOUS
      <4>2. Ready(b, before) = r /\ legacy \in SUBSET LegacyAccounts
        BY <3>1, <3>5, <3>6
      <4>3. r \in [exists: BOOLEAN, data: DidAccounts, space: Nat,
                  legacy: SUBSET LegacyAccounts]
        <5> HIDE DEF legacy
        <5>1. QED
          BY <3>4, <4>2, EnoughIsNat
      <4>4. \A doc, other \in legacy : doc = other
        BY <3>1
      <4> HIDE DEF r, legacy
      <4>5. IsAccount(r)
        BY <3>3, <4>1, <4>3, <4>4 DEF IsAccount
      <4>6. QED
        BY <4>2, <4>5
    <3>7. CASE ~Allocates(b)
      BY <3>7 DEF Ready
    <3>8. QED
      BY <3>6, <3>7
  <2> HIDE DEF after
  <2>3. QED
    BY <2>1, <2>2
<1>2. ASSUME NEW n \in Nat, n \in S
      PROVE  n + 1 \in S
  <2>1. SUFFICES ASSUME n + 1 <= Len(all), NEW c \in after[n + 1]
                 PROVE  IsAccount(c)
    OBVIOUS
  <2>2. PICK a \in after[n] : c \in Outcome(a, Meant(b, a, all[n + 1]), signers)
    BY <1>0, <2>1, IdealFrom
  <2>3. IsAccount(a)
    BY <1>0, <1>2, <2>1
  <2>4. Typed(Meant(b, a, all[n + 1]))
    BY <1>a, <2>1, MeantTyped
  <2>5. QED
    BY <2>2, <2>3, <2>4, OutcomeAccount
<1> HIDE DEF S
<1>3. \A n \in Nat : n \in S
  BY <1>1, <1>2, Induction
<1>4. QED
  BY <1>0, <1>3 DEF S

-----------------------------------------------------------------------------
(* The size that an allocation asks for is enough on the whole way.        *)

\* What an allocation starts from, and what it asks for.
First(x) == IF x.exists THEN x.data ELSE DefaultAccount
FirstSize(x) == IF x.exists THEN TotalNativeAccountSize(x.data)
                ELSE INITIAL_MIN_ACCOUNT_SIZE
Required(b, x) == MaxRequiredSize(First(x), FirstSize(x), b.general)
Growing(b, x) == Growth(First(x), FirstSize(x), b.general)

\* It starts from the content that the operations start from.
FirstData(x) == IF x.exists THEN x.data ELSE NewAccount(Did)

LEMMA FirstTracked ==
  ASSUME NEW x, IsAccount(x)
  PROVE  /\ IsDocument(First(x)) /\ FirstSize(x) \in Nat
         /\ Valid(Did, FirstData(x)) /\ FiniteLists(FirstData(x))
         /\ Follows(First(x), FirstData(x))
         /\ FirstSize(x) = DISCRIMINATOR + Size(FirstData(x))
<1>1. Valid(Did, x.data) /\ FiniteLists(x.data)
  BY DEF IsAccount
<1>2. Valid(Did, NewAccount(Did)) /\ FiniteLists(NewAccount(Did))
  BY NewValid, DidAssumption, FS_EmptySet DEF FiniteLists, NewAccount, InitAccount
<1>3. IsDocument(DefaultAccount)
  <2>1. DefaultAccount \in DidAccounts
    BY DidAssumption, DefaultAssumption, NonceAssumption
       DEF DefaultAccount, InitAccount, DidAccounts, VerificationMethods, KeyData,
           Ed25519VerificationKey2018, CAPABILITY_INVOCATION
  <2>2. FiniteLists(DefaultAccount)
    BY FS_EmptySet DEF FiniteLists, DefaultAccount, InitAccount
  <2>3. QED
    BY <2>1, <2>2 DEF IsDocument
<1>4. CASE x.exists
  <2>1. First(x) = x.data /\ FirstData(x) = x.data
        /\ FirstSize(x) = TotalNativeAccountSize(x.data)
    BY <1>4 DEF First, FirstData, FirstSize
  <2>2. TotalNativeAccountSize(x.data) = DISCRIMINATOR + Size(x.data)
    <3>1. /\ Cardinality(x.data.verification_methods) \in Nat
          /\ Cardinality(x.data.services) \in Nat
          /\ Cardinality(x.data.native_controllers) \in Nat
          /\ Cardinality(x.data.other_controllers) \in Nat
      BY <1>1, SizeParts
    <3>2. VmSize \in Nat /\ ServiceSize \in Nat /\ OtherSize \in Nat
      BY SizesAreNumbers
    <3>3. /\ VmSize * Cardinality(x.data.verification_methods) \in Nat
          /\ ServiceSize * Cardinality(x.data.services) \in Nat
          /\ 32 * Cardinality(x.data.native_controllers) \in Nat
          /\ OtherSize * Cardinality(x.data.other_controllers) \in Nat
      BY <3>1, <3>2
    <3> DEFINE u == VmSize * Cardinality(x.data.verification_methods)
               v == ServiceSize * Cardinality(x.data.services)
               w == 32 * Cardinality(x.data.native_controllers)
               z == OtherSize * Cardinality(x.data.other_controllers)
    <3>4. /\ TotalNativeAccountSize(x.data) = INITIAL_MIN_ACCOUNT_SIZE + u + v + w + z
          /\ Size(x.data) = INITIAL_SIZE + u + v + w + z
      BY DEF TotalNativeAccountSize, Size, CONTROLLER_SIZE
    <3> HIDE DEF u, v, w, z
    <3>5. u \in Nat /\ v \in Nat /\ w \in Nat /\ z \in Nat
      BY <3>3 DEF u, v, w, z
    <3>6. QED
      BY <3>4, <3>5, SMT DEF INITIAL_MIN_ACCOUNT_SIZE, INITIAL_SIZE, DISCRIMINATOR
  <2>3. IsDocument(x.data) /\ UniqueByFragment(x.data.verification_methods)
    BY <1>1 DEF IsDocument, Valid
  <2>4. TotalNativeAccountSize(x.data) \in Nat
    BY <1>1, SizesAreNumbers
  <2>5. Follows(x.data, x.data)
    BY <2>3 DEF Follows
  <2>6. QED
    BY <1>1, <2>1, <2>2, <2>3, <2>4, <2>5
<1>5. CASE ~x.exists
  <2>1. First(x) = DefaultAccount /\ FirstData(x) = NewAccount(Did)
        /\ FirstSize(x) = INITIAL_MIN_ACCOUNT_SIZE
    BY <1>5 DEF First, FirstData, FirstSize
  <2> DEFINE new == NewAccount(Did)
  <2>2. /\ new.verification_methods = {} /\ new.services = {}
        /\ new.native_controllers = {} /\ new.other_controllers = {}
        /\ DefaultAccount.verification_methods = {} /\ DefaultAccount.services = {}
        /\ DefaultAccount.native_controllers = {} /\ DefaultAccount.other_controllers = {}
    BY DEF NewAccount, DefaultAccount, InitAccount
  <2> HIDE DEF new
  <2>3. Follows(DefaultAccount, new)
    BY <1>3, <2>2 DEF Follows, UniqueByFragment
  <2>4. Size(new) = INITIAL_SIZE
    <3>1. Cardinality({}) = 0 /\ VmSize \in Nat /\ ServiceSize \in Nat /\ OtherSize \in Nat
      BY FS_EmptySet, SizesAreNumbers
    <3>2. QED
      BY <2>2, <3>1 DEF Size, INITIAL_SIZE, CONTROLLER_SIZE
  <2>5. INITIAL_MIN_ACCOUNT_SIZE = DISCRIMINATOR + INITIAL_SIZE
        /\ INITIAL_MIN_ACCOUNT_SIZE \in Nat
    BY SMT DEF INITIAL_MIN_ACCOUNT_SIZE, INITIAL_SIZE, DISCRIMINATOR
  <2>6. QED
    BY <1>2, <1>3, <2>1, <2>3, <2>4, <2>5 DEF new
<1>6. QED
  BY <1>4, <1>5

LEMMA TwoLists ==
  ASSUME NEW S, NEW s \in Seq(S), NEW t \in Seq(S)
  PROVE  /\ s \o t \in Seq(S) /\ Len(s \o t) = Len(s) + Len(t)
         /\ Len(s) \in Nat /\ Len(t) \in Nat
         /\ \A p \in 1..Len(s) : (s \o t)[p] = s[p]
         /\ \A p \in 1..Len(t) : (s \o t)[Len(s) + p] = t[p]
         /\ \A p \in 1..Len(s \o t) :
              \/ p \in 1..Len(s)
              \/ p - Len(s) \in 1..Len(t) /\ (s \o t)[p] = t[p - Len(s)]
<1>1. /\ s \o t \in Seq(S) /\ Len(s \o t) = Len(s) + Len(t)
      /\ \A p \in 1..(Len(s) + Len(t)) :
           (s \o t)[p] = IF p <= Len(s) THEN s[p] ELSE t[p - Len(s)]
  BY ConcatProperties
<1>2. Len(s) \in Nat /\ Len(t) \in Nat
  OBVIOUS
<1>3. PICK u : u = s \o t
  OBVIOUS
<1>4. PICK m \in Nat : m = Len(s)
  BY <1>2
<1>5. PICK n \in Nat : n = Len(t)
  BY <1>2
<1>6. Len(u) = m + n /\ \A p \in 1..(m + n) : u[p] = IF p <= m THEN s[p] ELSE t[p - m]
  BY <1>1, <1>3, <1>4, <1>5
<1>7. \A p \in 1..m : u[p] = s[p]
  BY <1>6
<1>8. ASSUME NEW p \in 1..n PROVE u[m + p] = t[p]
  <2>1. m + p \in 1..(m + n) /\ ~(m + p <= m) /\ (m + p) - m = p
    OBVIOUS
  <2>2. u[m + p] = t[(m + p) - m]
    BY <1>6, <2>1
  <2>3. QED
    BY <2>1, <2>2
<1>9. ASSUME NEW p \in 1..(m + n), ~(p \in 1..m)
      PROVE  p - m \in 1..n /\ u[p] = t[p - m]
  BY <1>6, <1>9
<1>10. QED
  BY <1>1, <1>2, <1>3, <1>4, <1>5, <1>7, <1>8, <1>9

\* The places of the operations of an instance that makes no account.
LEMMA OperationPlaces ==
  ASSUME NEW b, IsBuilder(b), b.init = <<>>
  PROVE  /\ Len(b.resize) \in Nat /\ Len(b.general) \in Nat
         /\ Len(Operations(b)) \in Nat
         /\ Len(b.resize) + Len(b.general) <= Len(Operations(b))
         /\ \A p \in 1..Len(b.resize) : Operations(b)[p] = b.resize[p]
         /\ \A p \in 1..Len(b.general) :
              Operations(b)[Len(b.resize) + p] = b.general[p]
         /\ \A p \in 1..Len(Operations(b)) :
              Len(b.resize) + Len(b.general) < p =>
                Operations(b)[p].name \in {"close", "close_legacy"}
<1>1. PICK S : /\ b.resize \in Seq(S) /\ b.general \in Seq(S)
               /\ b.close \in Seq(S) /\ b.post \in Seq(S)
  BY ListsTyped
<1>2. /\ \A p \in 1..Len(b.close) : b.close[p].name = "close"
      /\ \A p \in 1..Len(b.post) : b.post[p].name = "close_legacy"
  <2>1. b.close \in Seq(InstrOf({"close"})) /\ b.post \in Seq(InstrOf({"close_legacy"}))
    BY DEF IsBuilder
  <2>2. QED
    BY <2>1, ElementOfSeq, InstrOfNames
<1>3. PICK r \in Seq(S) : r = b.resize
  BY <1>1
<1>4. PICK g \in Seq(S) : g = b.general
  BY <1>1
<1>5. PICK c \in Seq(S) : c = b.close
  BY <1>1
<1>6. PICK o \in Seq(S) : o = b.post
  BY <1>1
<1>7. PICK s1 \in Seq(S) : s1 = r \o g
  BY TwoLists
<1>8. PICK s2 \in Seq(S) : s2 = s1 \o c
  BY TwoLists
<1>9. PICK s3 \in Seq(S) : s3 = s2 \o o
  BY TwoLists
<1>10. Operations(b) = s3
  <2>1. b.init \o b.resize = r
    BY <1>3
  <2>2. Operations(b) = (((b.init \o b.resize) \o b.general) \o b.close) \o b.post
    BY DEF Operations, InstructionChain
  <2>3. Operations(b) = ((r \o g) \o c) \o o
    BY <2>1, <2>2, <1>4, <1>5, <1>6, Zenon
  <2>4. QED
    BY <2>3, <1>7, <1>8, <1>9, Zenon
<1>11. /\ Len(r) \in Nat /\ Len(g) \in Nat /\ Len(c) \in Nat /\ Len(o) \in Nat
       /\ Len(s1) = Len(r) + Len(g) /\ Len(s2) = Len(s1) + Len(c)
       /\ Len(s3) = Len(s2) + Len(o)
  BY <1>7, <1>8, <1>9, TwoLists
<1>12. PICK nr \in Nat : nr = Len(r)
  BY <1>11
<1>13. PICK ng \in Nat : ng = Len(g)
  BY <1>11
<1>14. PICK nc \in Nat : nc = Len(c)
  BY <1>11
<1>15. PICK no \in Nat : no = Len(o)
  BY <1>11
<1>16. Len(s1) = nr + ng /\ Len(s2) = nr + ng + nc /\ Len(s3) = nr + ng + nc + no
  BY <1>11, <1>12, <1>13, <1>14, <1>15
<1>17. \A p \in 1..(nr + ng) : s3[p] = s1[p]
  <2>1. \A p \in 1..(nr + ng) : s2[p] = s1[p]
    BY <1>8, <1>16, TwoLists
  <2>2. \A p \in 1..(nr + ng + nc) : s3[p] = s2[p]
    BY <1>9, <1>16, TwoLists
  <2>3. \A p \in 1..(nr + ng) : p \in 1..(nr + ng + nc)
    OBVIOUS
  <2>4. QED
    BY <2>1, <2>2, <2>3, Zenon
<1>18. ASSUME NEW p \in 1..nr PROVE s3[p] = r[p]
  <2>1. s1[p] = r[p]
    BY <1>7, <1>12, TwoLists
  <2>2. QED
    BY <1>17, <2>1
<1>19. ASSUME NEW p \in 1..ng PROVE s3[nr + p] = g[p]
  <2>1. s1[nr + p] = g[p]
    BY <1>7, <1>12, <1>13, TwoLists
  <2>2. nr + p \in 1..(nr + ng)
    OBVIOUS
  <2>3. QED
    BY <1>17, <2>1, <2>2
<1>20. ASSUME NEW p \in 1..Len(s3), nr + ng < p
       PROVE  s3[p].name \in {"close", "close_legacy"}
  <2>1. CASE p \in 1..(nr + ng + nc)
    <3>1. s3[p] = s2[p]
      BY <1>9, <1>16, <2>1, TwoLists
    <3>2. ~(p \in 1..Len(s1)) /\ p \in 1..Len(s2)
      BY <1>16, <1>20, <2>1
    <3>3. p - Len(s1) \in 1..Len(c) /\ s2[p] = c[p - Len(s1)]
      BY <1>8, <3>2, TwoLists
    <3>4. QED
      BY <1>2, <1>5, <3>1, <3>3
  <2>2. CASE ~(p \in 1..(nr + ng + nc))
    <3>1. ~(p \in 1..Len(s2)) /\ p \in 1..Len(s3)
      BY <1>16, <2>2
    <3>2. p - Len(s2) \in 1..Len(o) /\ s3[p] = o[p - Len(s2)]
      BY <1>9, <3>1, TwoLists
    <3>3. QED
      BY <1>2, <1>6, <3>2
  <2>3. QED
    BY <2>1, <2>2
<1>21. /\ nr = Len(b.resize) /\ ng = Len(b.general) /\ r = b.resize /\ g = b.general
  BY <1>3, <1>4, <1>12, <1>13
<1>22. Len(s3) \in Nat /\ nr + ng <= Len(s3)
  BY <1>16
<1>23. QED
  BY <1>10, <1>18, <1>19, <1>20, <1>21, <1>22

\* Growing along one operation.
LEMMA GrowingStep ==
  ASSUME NEW b, IsBuilder(b), NEW x, IsAccount(x),
         NEW p \in Nat, p + 1 <= Len(b.general),
         NEW a, Valid(Did, a), FiniteLists(a), Tracked(Growing(b, x)[p], a),
         NEW c \in Modified(a, b.general[p + 1])
  PROVE  Tracked(Growing(b, x)[p + 1], c)
<1> DEFINE i == b.general[p + 1]
           g == Growing(b, x)[p]
           n == Change(g.account, g.size, i)
<1>1. b.general \in Seq(InstrOf(General)) /\ Len(b.general) \in Nat
  BY DEF IsBuilder
<1>2. i \in InstrOf(General)
  <2>1. p + 1 \in 1..Len(b.general)
    BY <1>1
  <2>2. QED
    BY <1>1, <2>1, ElementOfSeq
<1>3. Growing(b, x)[p + 1] = Grown(g, i)
  BY <1>1, GrowthStep DEF Growing
<1> HIDE DEF i, g
<1>4. Follows(g.account, a) /\ g.size = DISCRIMINATOR + Size(a)
  BY DEF Tracked, g
<1>5. Tracked(n, c)
  <2>1. c \in Modified(a, i)
    BY DEF i
  <2>2. QED
    BY <1>2, <1>4, <2>1, ChangeTracked
<1> HIDE DEF n
<1>6. Grown(g, i).account = n.account /\ Grown(g, i).size = n.size
  BY DEF Grown, n
<1>7. QED
  BY <1>3, <1>5, <1>6 DEF Tracked

\* A counted account is followed as before.
LEMMA CountedTracked ==
  ASSUME NEW a, Valid(Did, a), FiniteLists(a), NEW eth, CanCount(a, eth),
         NEW n, Tracked(n, a)
  PROVE  /\ Valid(Did, Counted(a, eth)) /\ FiniteLists(Counted(a, eth))
         /\ Tracked(n, Counted(a, eth)) /\ Size(Counted(a, eth)) = Size(a)
<1> DEFINE c == Counted(a, eth)
<1>1. Valid(Did, c)
  BY CountedValid
<1>2. /\ c.verification_methods = a.verification_methods /\ c.services = a.services
      /\ c.native_controllers = a.native_controllers
      /\ c.other_controllers = a.other_controllers
  BY DEF Counted, Valid, DidAccounts
<1> HIDE DEF c
<1>3. FiniteLists(c) /\ Size(c) = Size(a)
  BY <1>2 DEF FiniteLists, Size
<1>4. Tracked(n, c)
  BY <1>2, <1>3 DEF Tracked, Follows
<1>5. QED
  BY <1>1, <1>3, <1>4 DEF c

\* What a handler makes of an account does not depend on its signatures.
LEMMA ModifiedUnsigned ==
  ASSUME NEW a, NEW i, NEW j, j.name = i.name, j.arg = i.arg
  PROVE  Modified(a, j) = Modified(a, i)
BY DEF Modified

\* How far an allocation has followed the operations after the first n.
Place(b, n) == IF n <= Len(b.resize) THEN 0 ELSE n - Len(b.resize)

LEMMA IdealTracked ==
  ASSUME NEW b, IsBuilder(b), b.init = <<>>, Allocates(b),
         NEW x, IsAccount(x), NEW signers
  PROVE  \A n \in 0..(Len(b.resize) + Len(b.general)) :
           \A a \in Ideal(b, x, signers)[n] :
             a.exists /\ Tracked(Growing(b, x)[Place(b, n)], a.data)
<1> DEFINE after == Ideal(b, x, signers)
           all == Operations(b)
           Good(n, a) == a.exists /\ Tracked(Growing(b, x)[Place(b, n)], a.data)
<1>0. PICK q \in Nat : q = Len(b.resize)
  BY OperationPlaces
<1>1. PICK g \in Nat : g = Len(b.general)
  BY OperationPlaces
<1> DEFINE S == {n \in Nat : n <= q + g => \A a \in after[n] : Good(n, a)}
<1>2. /\ Len(all) \in Nat /\ q + g <= Len(all)
      /\ \A p \in 1..q : all[p] = b.resize[p]
      /\ \A p \in 1..g : all[q + p] = b.general[p]
  BY <1>0, <1>1, OperationPlaces
<1>3. all \in Seq(InstrOf(AllNames))
  BY ListsTyped
<1>4. \A p \in 1..q : b.resize[p].name = "resize"
  <2>1. b.resize \in Seq(InstrOf({"resize"}))
    BY DEF IsBuilder
  <2>2. QED
    BY <1>0, <2>1, ElementOfSeq, InstrOfNames
<1>5. \A p \in 1..g : b.general[p].name \in General
  <2>1. b.general \in Seq(InstrOf(General))
    BY DEF IsBuilder
  <2>2. QED
    BY <1>1, <2>1, ElementOfSeq, InstrOfNames
<1>6. 0 \in S
  <2>1. after[0] = {Ready(b, x)}
    BY <1>2, IdealStart
  <2>2. Ready(b, x).exists /\ Ready(b, x).data = FirstData(x)
    BY DEF Ready, FirstData, IsAccount
  <2>3. Growing(b, x)[0] = [account |-> First(x), size |-> FirstSize(x), max |-> FirstSize(x)]
    BY <1>1, GrowthStart DEF Growing
  <2>4. Tracked(Growing(b, x)[0], FirstData(x))
    BY <2>3, FirstTracked DEF Tracked
  <2>5. Place(b, 0) = 0
    BY <1>0 DEF Place
  <2>6. Good(0, Ready(b, x))
    BY <2>2, <2>4, <2>5
  <2> HIDE DEF after, Good
  <2>7. QED
    BY <2>1, <2>6
<1>7. ASSUME NEW n \in Nat, n \in S
      PROVE  n + 1 \in S
  <2>1. SUFFICES ASSUME n + 1 <= q + g, NEW c \in after[n + 1]
                 PROVE  Good(n + 1, c)
    OBVIOUS
  <2> DEFINE o == all[n + 1]
  <2>a. n + 1 <= Len(all) /\ Len(all) \in Nat
    BY <1>2, <2>1
  <2>2. PICK a \in after[n] : c \in Outcome(a, Meant(b, a, o), signers)
    BY <2>1, <2>a, IdealFrom
  <2>3. Good(n, a)
    BY <1>7, <2>1
  <2>4. IsAccount(a)
    BY <1>2, <2>1, IdealAccounts
  <2>5. n + 1 \in 1..Len(all) /\ o \in InstrOf(AllNames)
    <3>1. n + 1 \in 1..Len(all)
      BY <1>2, <2>1
    <3> HIDE DEF all
    <3>2. QED
      BY <1>3, <3>1, ElementOfSeq
  <2> HIDE DEF all, after
  <2> DEFINE i == Meant(b, a, o)
             counted == Counted(a.data, i.eth)
  <2>6. Typed(i) /\ i.name = o.name /\ i.arg = o.arg
    <3> HIDE DEF o
    <3>1. \A j \in InstrOf(AllNames) :
            /\ Typed(Meant(b, a, j)) /\ Meant(b, a, j).name = j.name
            /\ Meant(b, a, j).arg = j.arg
      BY MeantTyped
    <3>2. QED
      BY <2>5, <3>1
  <2>7. Valid(Did, a.data) /\ FiniteLists(a.data) /\ a.data.nonce \in 0..MaxNonce
    BY <2>4 DEF IsAccount, Valid, DidAccounts
  <2>8. CanCount(a.data, i.eth) /\ o.name \in Modifying
    <3>1. o.name \in Modifying
      <4>1. CASE n + 1 <= q
        <5>1. n + 1 \in 1..q
          BY <4>1
        <5>2. QED
          BY <1>2, <1>4, <5>1 DEF Modifying
      <4>2. CASE ~(n + 1 <= q)
        <5>1. (n + 1) - q \in 1..g /\ q + ((n + 1) - q) = n + 1
          BY <2>1, <4>2
        <5>2. o = b.general[(n + 1) - q]
          BY <1>2, <5>1
        <5>3. QED
          BY <1>5, <5>1, <5>2 DEF Modifying, General, Operation
      <4>3. QED
        BY <4>1, <4>2
    <3> HIDE DEF o, i
    <3>2. Modifies(a, i, c)
      BY <2>2, <2>6, <3>1, OutcomeCases
         DEF ClosesLegacy, Initializes, Migrates, Closes, Modifying, i
    <3>3. QED
      BY <3>1, <3>2 DEF Modifies, Authorised
  <2> HIDE DEF i
  <2>9. PICK e \in Modified(counted, i) : c = Stored(a, e, Bytes(i, a))
    <3> USE DEF i
    <3>1. QED
      BY <2>2, <2>6, <2>8, OutcomeGiven
  <2>10. c.exists /\ c.data = e
    BY <2>4, <2>9, StoredFields
  <2>11. /\ Valid(Did, counted) /\ FiniteLists(counted)
         /\ Tracked(Growing(b, x)[Place(b, n)], counted)
    BY <2>3, <2>7, <2>8, CountedTracked
  <2> HIDE DEF counted
  <2>12. CASE n + 1 <= q
    <3>1. Place(b, n) = 0 /\ Place(b, n + 1) = 0
      BY <1>0, <2>12 DEF Place
    <3>2. o.name = "resize"
      <4>1. n + 1 \in 1..q
        BY <2>12
      <4>2. QED
        BY <1>2, <1>4, <4>1
    <3>3. e = counted
      BY <2>6, <2>9, <3>2 DEF Modified
    <3>4. QED
      BY <2>10, <2>11, <3>1, <3>3
  <2>13. CASE ~(n + 1 <= q)
    <3>1. PICK p \in Nat : p = n - q
      BY <2>13
    <3>a. p + 1 \in 1..g /\ p + 1 <= g /\ n + 1 = q + (p + 1) /\ p + 1 = (n + 1) - q
      BY <2>1, <2>13, <3>1
    <3>b. Place(b, n + 1) = p + 1
      BY <1>0, <2>13, <3>a DEF Place
    <3>c. Place(b, n) = p
      <4>1. n <= q => n = q /\ p = 0
        BY <2>13, <3>1
      <4>2. QED
        BY <1>0, <3>1, <4>1 DEF Place
    <3>2. /\ p + 1 \in 1..g /\ p + 1 <= g /\ n + 1 = q + (p + 1)
          /\ Place(b, n) = p /\ Place(b, n + 1) = p + 1
      BY <3>a, <3>b, <3>c
    <3>3. o = b.general[p + 1]
      BY <1>2, <3>2
    <3>4. e \in Modified(counted, o)
      BY <2>6, <2>9, ModifiedUnsigned
    <3> HIDE DEF o
    <3>5. Tracked(Growing(b, x)[p + 1], e)
      BY <1>1, <2>11, <3>2, <3>3, <3>4, GrowingStep
    <3>6. QED
      BY <2>10, <3>2, <3>5
  <2>14. QED
    BY <2>12, <2>13
<1> HIDE DEF S
<1>8. \A n \in Nat : n \in S
  BY <1>6, <1>7, Induction
<1>9. \A n \in 0..(q + g) : \A a \in after[n] : Good(n, a)
  BY <1>8 DEF S
<1>10. QED
  BY <1>0, <1>1, <1>9

\* Every operation that writes the account finds the bytes it needs.
LEMMA RoomForAll ==
  ASSUME NEW b, IsBuilder(b), b.init = <<>>, Allocates(b),
         NEW x, IsAccount(x), NEW signers,
         NEW n \in 1..Len(Operations(b)),
         Operations(b)[n].name \in Modifying \ {"resize"},
         NEW c \in Ideal(b, x, signers)[n]
  PROVE  DISCRIMINATOR + Size(c.data) <= Required(b, x)
<1>0. PICK q \in Nat : q = Len(b.resize)
  BY OperationPlaces
<1>1. PICK g \in Nat : g = Len(b.general)
  BY OperationPlaces
<1>2. n <= q + g
  <2>1. /\ Len(Operations(b)) \in Nat
        /\ q + g < n => Operations(b)[n].name \in {"close", "close_legacy"}
    BY <1>0, <1>1, OperationPlaces
  <2>2. Operations(b)[n].name \notin {"close", "close_legacy"}
    BY DEF Modifying
  <2>3. QED
    BY <2>1, <2>2
<1>3. n \in 0..(q + g)
  BY <1>2
<1>4. Tracked(Growing(b, x)[Place(b, n)], c.data)
  BY <1>0, <1>1, <1>3, IdealTracked
<1>5. Place(b, n) \in 0..g
  BY <1>0, <1>2 DEF Place
<1>6. b.general \in Seq(InstrOf(General))
  BY DEF IsBuilder
<1>7. Growing(b, x)[Place(b, n)].size <= Required(b, x)
  BY <1>1, <1>5, <1>6, FirstTracked, GrowthBounded DEF Growing, Required
<1>8. QED
  BY <1>4, <1>7 DEF Tracked

-----------------------------------------------------------------------------
(* The nonces of a transaction.                                            *)

\* How many instructions before one are signed, and a chain with its
\* signatures.
Before(all, p) == Cardinality({q \in 1..(p - 1) : Signable(all[q])})
SignedAs(chain, all, signer, nonce) ==
  /\ Len(all) \in Nat /\ Len(chain) = Len(all)
  /\ \A p \in 1..Len(all) :
       chain[p] = [name |-> all[p].name, arg |-> all[p].arg,
                   authority |-> all[p].authority, payer |-> all[p].payer,
                   eth |-> SignaturesOf(all[p], signer, nonce + Before(all, p))]

LEMMA BeforeCounts ==
  ASSUME NEW all
  PROVE  /\ Before(all, 1) = 0
         /\ \A p \in Nat : Before(all, p + 1) \in Nat
         /\ \A p \in Nat : Before(all, (p + 1) + 1) =
              Before(all, p + 1) + (IF Signable(all[p + 1]) THEN 1 ELSE 0)
<1> DEFINE S(n) == {q \in 1..n : Signable(all[q])}
<1>1. ASSUME NEW n \in Nat
      PROVE  IsFiniteSet(S(n)) /\ Cardinality(S(n)) \in Nat
  <2>1. IsFiniteSet(1..n) /\ S(n) \subseteq 1..n
    BY FS_Interval
  <2>2. QED
    BY <2>1, FS_Subset, FS_CardinalityType
<1>2. S(0) = {}
  OBVIOUS
<1>3. ASSUME NEW n \in Nat
      PROVE  Cardinality(S(n + 1)) =
               Cardinality(S(n)) + (IF Signable(all[n + 1]) THEN 1 ELSE 0)
  <2>1. n + 1 \notin S(n)
    OBVIOUS
  <2>2. S(n + 1) = IF Signable(all[n + 1]) THEN S(n) \cup {n + 1} ELSE S(n)
    <3>1. 1..(n + 1) = (1..n) \cup {n + 1}
      OBVIOUS
    <3>2. S(n + 1) = S(n) \cup {q \in {n + 1} : Signable(all[q])}
      BY <3>1, Zenon
    <3>3. {q \in {n + 1} : Signable(all[q])} =
            IF Signable(all[n + 1]) THEN {n + 1} ELSE {}
      BY Zenon
    <3> HIDE DEF S
    <3>4. QED
      BY <3>2, <3>3
  <2> HIDE DEF S
  <2>3. QED
    BY <1>1, <2>1, <2>2, FS_AddElement
<1>4. Before(all, 1) = Cardinality(S(0))
      /\ \A n \in Nat : Before(all, n + 1) = Cardinality(S(n))
  <2>1. \A n \in Nat : (n + 1) - 1 = n
    OBVIOUS
  <2>2. QED
    BY <2>1 DEF Before
<1> HIDE DEF S
<1>5. Before(all, 1) = 0
  BY <1>2, <1>4, FS_EmptySet
<1>6. \A p \in Nat : Before(all, p + 1) \in Nat
  BY <1>1, <1>4
<1>7. ASSUME NEW p \in Nat
      PROVE  Before(all, (p + 1) + 1) =
               Before(all, p + 1) + (IF Signable(all[p + 1]) THEN 1 ELSE 0)
  <2>1. p + 1 \in Nat
    OBVIOUS
  <2>2. Before(all, (p + 1) + 1) = Cardinality(S(p + 1))
    BY <1>4, <2>1
  <2>3. Before(all, p + 1) = Cardinality(S(p))
    BY <1>4
  <2>4. QED
    BY <1>3, <2>2, <2>3
<1>8. QED
  BY <1>5, <1>6, <1>7

\* A function on the first numbers is a sequence.
LEMMA FunctionIsSeq ==
  ASSUME NEW S, NEW n \in Nat, NEW s \in [1..n -> S]
  PROVE  s \in Seq(S) /\ Len(s) = n
OBVIOUS

\* What ethSignInstructions makes of the operations of an instance.
LEMMA SignedChain ==
  ASSUME NEW b, IsBuilder(b), NEW signer, NEW nonce
  PROVE  SignedAs(Signed(InstructionChain(b), signer, nonce) \o b.post,
                  Operations(b), signer, nonce)
<1>1. PICK chain \in Seq(InstrOf(AllNames)) : chain = InstructionChain(b)
  BY ListsTyped
<1>2. PICK post \in Seq(InstrOf(AllNames)) : post = b.post
  BY ListsTyped
<1>3. PICK all \in Seq(InstrOf(AllNames)) : all = Operations(b) /\ all = chain \o post
  BY <1>1, <1>2, ListsTyped DEF Operations
<1> DEFINE N == Len(chain)
           signed == Signed(chain, signer, nonce)
           X == {signed[p] : p \in 1..N} \cup InstrOf(AllNames)
           AsRecord(i, eth) == [name |-> i.name, arg |-> i.arg,
                                authority |-> i.authority, payer |-> i.payer,
                                eth |-> eth]
<1>4. N \in Nat /\ DOMAIN chain = 1..N /\ \A p \in 1..N : chain[p] \in InstrOf(AllNames)
  BY ElementOfSeq
<1>5. \A i \in InstrOf(AllNames) : \A e : /\ i = AsRecord(i, {})
                                          /\ [i EXCEPT !.eth = e] = AsRecord(i, e)
  <2>1. \A i \in InstrOf(AllNames) : i = AsRecord(i, {})
    BY InstrOfNames DEF InstructionsOf
  <2> SUFFICES ASSUME NEW i \in InstrOf(AllNames), NEW e
               PROVE  [i EXCEPT !.eth = e] = AsRecord(i, e)
    BY <2>1
  <2>2. i = AsRecord(i, {})
    BY <2>1
  <2>3. QED
    BY <2>2
<1>6. ASSUME NEW p \in 1..N
      PROVE  signed[p] = AsRecord(chain[p], SignaturesOf(chain[p], signer, nonce + Before(chain, p)))
  <2>1. signed[p] = IF Signable(chain[p])
                    THEN [chain[p] EXCEPT !.eth =
                            SignaturesOf(chain[p], signer, nonce + Before(chain, p))]
                    ELSE chain[p]
    BY <1>4 DEF Signed, SignaturesOf, Before
  <2> HIDE DEF signed
  <2>2. CASE Signable(chain[p])
    <3>1. chain[p] \in InstrOf(AllNames)
      BY <1>4
    <3> DEFINE e == SignaturesOf(chain[p], signer, nonce + Before(chain, p))
    <3> HIDE DEF e, AsRecord
    <3>2. [chain[p] EXCEPT !.eth = e] = AsRecord(chain[p], e)
      BY <1>5, <3>1
    <3>3. QED
      BY <2>1, <2>2, <3>2 DEF e
  <2>3. CASE ~Signable(chain[p])
    <3>1. chain[p] \in InstrOf(AllNames)
      BY <1>4
    <3>2. SignaturesOf(chain[p], signer, nonce + Before(chain, p)) = {}
      BY <2>3 DEF SignaturesOf
    <3> HIDE DEF AsRecord
    <3>3. chain[p] = AsRecord(chain[p], {})
      BY <1>5, <3>1
    <3>4. QED
      BY <2>1, <2>3, <3>2, <3>3
  <2>4. QED
    BY <2>2, <2>3
<1>7. signed \in [1..N -> X]
  BY <1>4 DEF Signed
<1> HIDE DEF signed
<1>8. signed \in Seq(X) /\ Len(signed) = N /\ post \in Seq(X)
  <2>1. signed \in Seq(X) /\ Len(signed) = N
    <3> HIDE DEF X, N
    <3>1. N \in Nat
      BY <1>4
    <3>2. QED
      BY <1>7, <3>1, FunctionIsSeq, Zenon
  <2>2. post \in Seq(X)
    BY SeqMonotonic
  <2>3. QED
    BY <2>1, <2>2
<1> HIDE DEF X
<1>9. /\ Len(signed \o post) = N + Len(post) /\ Len(post) \in Nat
      /\ \A p \in 1..N : (signed \o post)[p] = signed[p]
      /\ \A p \in 1..(N + Len(post)) : p \notin 1..N =>
           p - N \in 1..Len(post) /\ (signed \o post)[p] = post[p - N]
  <2>1. PICK s \in Seq(X) : s = signed
    BY <1>8
  <2>2. PICK t \in Seq(X) : t = post
    BY <1>8
  <2>3. PICK u : u = s \o t
    OBVIOUS
  <2>4. /\ Len(u) = Len(s) + Len(t) /\ Len(t) \in Nat
        /\ \A p \in 1..Len(s) : u[p] = s[p]
        /\ \A p \in 1..Len(u) :
             \/ p \in 1..Len(s)
             \/ p - Len(s) \in 1..Len(t) /\ u[p] = t[p - Len(s)]
    BY <2>3, TwoLists
  <2>5. Len(s) = N /\ u = signed \o post
    BY <1>8, <2>1, <2>2, <2>3
  <2> HIDE DEF N
  <2>6. QED
    BY <2>1, <2>2, <2>4, <2>5
<1>10. /\ Len(all) = N + Len(post)
       /\ \A p \in 1..N : all[p] = chain[p]
       /\ \A p \in 1..(N + Len(post)) : p \notin 1..N =>
            p - N \in 1..Len(post) /\ all[p] = post[p - N]
  BY <1>3, TwoLists
<1>11. ASSUME NEW p \in 1..N
       PROVE  Before(all, p) = Before(chain, p)
  <2>1. \A q \in 1..(p - 1) : all[q] = chain[q]
    BY <1>4, <1>10
  <2>2. {q \in 1..(p - 1) : Signable(all[q])} = {q \in 1..(p - 1) : Signable(chain[q])}
    BY <2>1
  <2>3. QED
    BY <2>2 DEF Before
<1>12. ASSUME NEW p \in 1..Len(all)
       PROVE  (signed \o post)[p] =
                AsRecord(all[p], SignaturesOf(all[p], signer, nonce + Before(all, p)))
  <2>1. CASE p \in 1..N
    <3> HIDE DEF AsRecord
    <3>1. /\ (signed \o post)[p] = signed[p] /\ all[p] = chain[p]
          /\ Before(all, p) = Before(chain, p)
      BY <1>9, <1>10, <1>11, <2>1
    <3>2. signed[p] = AsRecord(chain[p], SignaturesOf(chain[p], signer, nonce + Before(chain, p)))
      BY <1>6, <2>1
    <3>3. QED
      BY <3>1, <3>2
  <2>2. CASE p \notin 1..N
    <3>1. p - N \in 1..Len(post) /\ (signed \o post)[p] = post[p - N] /\ all[p] = post[p - N]
      BY <1>9, <1>10, <2>2
    <3>2. post[p - N] \in InstrOf(AllNames)
      BY <3>1, ElementOfSeq
    <3>3. ~Signable(post[p - N])
      <4>1. b.post \in Seq(InstrOf({"close_legacy"}))
        BY DEF IsBuilder
      <4>2. b.post[p - N] \in InstrOf({"close_legacy"})
        BY <1>2, <3>1, <4>1, ElementOfSeq
      <4>3. QED
        BY <1>2, <4>2, InstrOfNames DEF Signable
    <3>4. post[p - N] = AsRecord(post[p - N], {})
      BY <1>5, <3>2
    <3> HIDE DEF AsRecord
    <3>5. SignaturesOf(all[p], signer, nonce + Before(all, p)) = {}
      BY <3>1, <3>3 DEF SignaturesOf
    <3>6. QED
      BY <3>1, <3>4, <3>5
  <2>3. QED
    BY <2>1, <2>2
<1>13. Len(all) \in Nat /\ Len(signed \o post) = Len(all)
  BY <1>4, <1>9, <1>10
<1>14. SignedAs(signed \o post, all, signer, nonce)
  BY <1>12, <1>13 DEF SignedAs
<1>15. QED
  BY <1>1, <1>2, <1>3, <1>14 DEF signed

\* The nonce that is read, and the nonces along a transaction that is signed
\* for it and finds the account as it was read.
NonceRead(x) == IF x.exists THEN x.data.nonce ELSE 0

LEMMA NewNonce ==
  ASSUME NEW a, IsAccount(a), NEW i, Typed(i), NEW signers,
         NEW c \in Outcome(a, i, signers), ~a.exists, c.exists
  PROVE  c.data.nonce = 0 /\ i.name \in Making
<1>0. i.name \in Making
  BY OutcomeNonce DEF Making
<1>1. CASE Initializes(a, i, c)
  <2>1. c.data = NewAccount(Did)
    BY <1>1 DEF Initializes, IsAccount
  <2>2. QED
    BY <1>0, <2>1 DEF NewAccount, InitAccount
<1>2. CASE Migrates(a, i, c)
  <2>1. PICK doc \in a.legacy : c.data = Migrated(doc)
    BY <1>2 DEF Migrates, IsAccount
  <2> DEFINE blank == InitAccount(doc.authority, GetFlags(doc, DefaultFragment) \cup GuardedFlags)
             named == SetVerificationMethods(blank, {}, MigratedMethods(doc))
             served == SetServices(named, doc.service)
  <2>2. Migrated(doc) = SetControllers(served, doc.controller, {})
    BY DEF Migrated
  <2>3. \A m : /\ DOMAIN m = DOMAIN blank =>
                   DOMAIN SetServices(m, doc.service) = DOMAIN m
               /\ DOMAIN m = DOMAIN blank =>
                   SetServices(m, doc.service).nonce = m.nonce
               /\ DOMAIN m = DOMAIN blank =>
                   SetControllers(m, doc.controller, {}).nonce = m.nonce
    BY DEF SetServices, SetControllers, InitAccount
  <2>4. blank.nonce = 0
    BY DEF InitAccount
  <2>5. DOMAIN named = DOMAIN blank /\ named.nonce = blank.nonce
    <3>1. "nonce" \in DOMAIN blank
      BY DEF InitAccount
    <3> HIDE DEF blank
    <3>2. QED
      BY <3>1 DEF SetVerificationMethods
  <2> HIDE DEF blank, named
  <2>6. DOMAIN served = DOMAIN blank /\ served.nonce = 0
    BY <2>3, <2>4, <2>5
  <2> HIDE DEF served
  <2>7. Migrated(doc).nonce = 0
    BY <2>2, <2>3, <2>6
  <2>8. QED
    BY <1>0, <2>1, <2>7
<1>3. CASE ClosesLegacy(a, i, c) \/ Closes(a, i, c) \/ Modifies(a, i, c)
  BY <1>0, <1>3 DEF ClosesLegacy, Closes, Modifies, Modifying, Making
<1>4. QED
  BY <1>1, <1>2, <1>3, OutcomeCases

LEMMA RunCounts ==
  ASSUME NEW x, IsAccount(x), NEW chain, TypedChain(chain), OrderedChain(chain),
         NEW all, NEW signer, SignedAs(chain, all, signer, NonceRead(x)), NEW signers
  PROVE  \A m \in 0..Len(chain) : \A r \in Run(x, chain, signers)[m] :
           r.exists =>
             /\ r.data.nonce <= NonceRead(x) + m
             /\ signer # {} => r.data.nonce = NonceRead(x) + Before(all, m + 1)
<1> DEFINE run == Run(x, chain, signers)
           n0 == NonceRead(x)
           Good(m, r) ==
             r.exists =>
               /\ r.data.nonce <= n0 + m
               /\ signer # {} => r.data.nonce = n0 + Before(all, m + 1)
           S == {m \in Nat : m <= Len(chain) => \A r \in run[m] : Good(m, r)}
<1>0. /\ Len(chain) \in Nat
      /\ \A a : IsAccount(a) => a.data.nonce \in Nat
      /\ n0 \in Nat
  BY NonceAssumption DEF TypedChain, IsAccount, Valid, DidAccounts, NonceRead
<1>1. 0 \in S
  <2>1. run[0] = {x}
    BY <1>0, RunSteps
  <2>2. x.exists => n0 = x.data.nonce /\ n0 <= n0
    BY <1>0 DEF NonceRead
  <2>3. Before(all, 0 + 1) = 0
    BY BeforeCounts
  <2> HIDE DEF n0
  <2>4. Good(0, x)
    BY <1>0, <2>2, <2>3
  <2> HIDE DEF Good
  <2>5. QED
    BY <2>1, <2>4
<1>2. ASSUME NEW m \in Nat, m \in S
      PROVE  m + 1 \in S
  <2>1. SUFFICES ASSUME m + 1 <= Len(chain), NEW c \in run[m + 1], c.exists
                 PROVE  /\ c.data.nonce <= n0 + (m + 1)
                        /\ signer # {} =>
                             c.data.nonce = n0 + Before(all, (m + 1) + 1)
    OBVIOUS
  <2>2. PICK a \in run[m] : c \in Outcome(a, chain[m + 1], signers)
    BY <1>0, <2>1, RunFrom
  <2>3. IsAccount(a) /\ Good(m, a)
    BY <1>0, <1>2, <2>1, RunAccount
  <2> DEFINE i == chain[m + 1]
  <2>4. /\ Typed(i) /\ (i.name \in Making => m + 1 = 1)
        /\ i.name \in {"initialize", "migrate", "close_legacy"} => i.eth = {}
    <3>1. m + 1 \in 1..Len(chain)
      BY <1>0, <2>1
    <3>2. QED
      BY <3>1 DEF TypedChain, OrderedChain, Making
  <2>5. /\ i.name = all[m + 1].name
        /\ i.eth = SignaturesOf(all[m + 1], signer, n0 + Before(all, m + 1))
    <3>1. m + 1 \in 1..Len(all)
      BY <1>0, <2>1 DEF SignedAs
    <3>2. \A p \in 1..Len(all) :
            chain[p] = [name |-> all[p].name, arg |-> all[p].arg,
                        authority |-> all[p].authority, payer |-> all[p].payer,
                        eth |-> SignaturesOf(all[p], signer, n0 + Before(all, p))]
      BY DEF SignedAs
    <3>3. i = [name |-> all[m + 1].name, arg |-> all[m + 1].arg,
               authority |-> all[m + 1].authority, payer |-> all[m + 1].payer,
               eth |-> SignaturesOf(all[m + 1], signer, n0 + Before(all, m + 1))]
      BY <3>1, <3>2
    <3> HIDE DEF i
    <3>4. QED
      BY <3>3
  <2>6. /\ Before(all, (m + 1) + 1) =
             Before(all, m + 1) + (IF Signable(all[m + 1]) THEN 1 ELSE 0)
        /\ Before(all, m + 1) \in Nat
    BY BeforeCounts
  <2>7. signer # {} => (i.eth = {} <=> ~Signable(all[m + 1]))
    BY <2>5 DEF SignaturesOf
  <2> HIDE DEF i, n0
  <2>8. CASE a.exists
    <3>1. c.data.nonce = IF i.eth = {} \/ i.name = "close_legacy" THEN a.data.nonce
                         ELSE a.data.nonce + 1
      BY <2>1, <2>2, <2>3, <2>4, <2>8, OutcomeNonce DEF i
    <3>2. c.data.nonce = IF i.eth = {} THEN a.data.nonce ELSE a.data.nonce + 1
      BY <2>4, <3>1
    <3>3. /\ a.data.nonce \in Nat /\ a.data.nonce <= n0 + m
          /\ signer # {} => a.data.nonce = n0 + Before(all, m + 1)
      BY <1>0, <2>3, <2>8
    <3>4. n0 \in Nat /\ c.data.nonce <= n0 + (m + 1)
      BY <1>0, <3>2, <3>3
    <3>5. PICK k, e :
            /\ k \in Nat /\ k = Before(all, m + 1) /\ e = Before(all, (m + 1) + 1)
            /\ e = k + (IF Signable(all[m + 1]) THEN 1 ELSE 0)
      BY <2>6, Zenon
    <3>6. signer # {} => c.data.nonce = n0 + e
      <4>1. signer # {} => a.data.nonce = n0 + k
        BY <3>3, <3>5
      <4> HIDE DEF run, Good, S
      <4>2. QED
        BY <2>7, <3>2, <3>4, <3>5, <4>1
    <3>7. QED
      BY <3>4, <3>5, <3>6
  <2>9. CASE ~a.exists
    <3>1. c.data.nonce = 0 /\ i.name \in Making
      BY <2>1, <2>2, <2>3, <2>4, <2>9, NewNonce DEF i
    <3>2. m = 0
      BY <2>4, <3>1
    <3>3. a = x
      <4>1. run[0] = {x}
        BY <1>0, RunSteps
      <4> HIDE DEF run
      <4>2. QED
        BY <2>2, <3>2, <4>1
    <3>4. n0 = 0
      BY <2>9, <3>3 DEF n0, NonceRead
    <3>5. ~Signable(all[m + 1])
      BY <2>5, <3>1 DEF Signable, Making
    <3>6. Before(all, m + 1) = 0
      <4>1. m + 1 = 1
        BY <3>2
      <4>2. QED
        BY <4>1, BeforeCounts
    <3>7. Before(all, (m + 1) + 1) = 0
      BY <2>6, <3>5, <3>6
    <3> DEFINE e == Before(all, (m + 1) + 1)
    <3> HIDE DEF e
    <3>8. e = 0
      BY <3>7 DEF e
    <3>9. c.data.nonce <= n0 + (m + 1) /\ c.data.nonce = n0 + e
      BY <3>1, <3>2, <3>4, <3>8
    <3>10. QED
      BY <3>9 DEF e
  <2>10. QED
    BY <2>8, <2>9
<1> HIDE DEF S
<1>3. \A m \in Nat : m \in S
  BY <1>1, <1>2, Induction
<1>4. \A m \in 0..Len(chain) : \A r \in run[m] : Good(m, r)
  BY <1>0, <1>3 DEF S
<1>5. QED
  BY <1>4

-----------------------------------------------------------------------------
(* What allocation adds to the operations of an instance.                  *)

Prepared(b, x) ==
  IF Allocates(b) THEN Allocated(b, x) ELSE [builder |-> b, thrown |-> FALSE]

Allocation(b, x) ==
  IF x.exists
  THEN [Instruction("resize", Required(b, x), b.resizeAuthority) EXCEPT !.payer = AllocPayer(b)]
  ELSE [Instruction("initialize", Required(b, x), Did) EXCEPT !.payer = AllocPayer(b)]

\* If the operations can be executed to the end, so can those before each.
LEMMA IdealNonempty ==
  ASSUME NEW b, NEW x, NEW signers, Len(Operations(b)) \in Nat,
         Intended(b, x, signers) # {}
  PROVE  \A n \in 0..Len(Operations(b)) : Ideal(b, x, signers)[n] # {}
<1> DEFINE after == Ideal(b, x, signers)
           S == {m \in Nat : m <= Len(Operations(b)) =>
                               after[Len(Operations(b)) - m] # {}}
<1>0. PICK L \in Nat : L = Len(Operations(b))
  OBVIOUS
<1>1. 0 \in S
  <2>1. after[L] # {}
    BY <1>0 DEF Intended
  <2>2. L - 0 = L
    BY <1>0
  <2> HIDE DEF after
  <2>3. QED
    BY <1>0, <2>1, <2>2
<1>2. ASSUME NEW m \in Nat, m \in S
      PROVE  m + 1 \in S
  <2>1. SUFFICES ASSUME m + 1 <= L PROVE after[L - (m + 1)] # {}
    BY <1>0
  <2>2. PICK n \in Nat : n = L - (m + 1)
    BY <2>1
  <2>3. n + 1 = L - m /\ n + 1 <= L /\ m <= L
    BY <2>1, <2>2
  <2>4. after[n + 1] # {}
    BY <1>0, <1>2, <2>3
  <2>5. after[n] # {}
    BY <1>0, <2>3, <2>4, IdealFrom
  <2>6. QED
    BY <2>2, <2>5
<1> HIDE DEF S
<1>3. \A m \in Nat : m \in S
  BY <1>1, <1>2, Induction
<1>4. ASSUME NEW n \in 0..L PROVE after[n] # {}
  <2>1. PICK m \in Nat : m = L - n
    BY <1>4
  <2>2. L - m = n /\ m <= L
    BY <1>4, <2>1
  <2>3. QED
    BY <1>0, <1>3, <2>2 DEF S
<1>5. QED
  BY <1>0, <1>4

\* An account that automatic allocation provides cannot be made once more.
LEMMA NothingMade ==
  ASSUME NEW b, IsBuilder(b), Allocates(b), NEW x, IsAccount(x), NEW signers,
         Intended(b, x, signers) # {}
  PROVE  b.init = <<>>
<1>1. SUFFICES ASSUME b.init # <<>> PROVE FALSE
  OBVIOUS
<1>2. b.init \in Seq(InstrOf(Making)) /\ Operations(b) \in Seq(InstrOf(AllNames))
  BY ListsTyped DEF IsBuilder
<1>3. Len(b.init) \in Nat /\ 1 \in 1..Len(b.init) /\ Len(Operations(b)) \in Nat
  BY <1>1, <1>2
<1>4. /\ 1 \in 1..Len(Operations(b)) /\ Operations(b)[1] = b.init[1]
      /\ b.init[1] \in InstrOf(Making)
  BY <1>2, <1>3, PlacesKept, ElementOfSeq
<1>5. PICK c : c \in Ideal(b, x, signers)[0 + 1]
  <2>1. Ideal(b, x, signers)[1] # {}
    BY <1>3, <1>4, IdealNonempty
  <2>2. 0 + 1 = 1
    OBVIOUS
  <2>3. QED
    BY <2>1, <2>2
<1>6. PICK a \in Ideal(b, x, signers)[0] :
        c \in Outcome(a, Meant(b, a, Operations(b)[0 + 1]), signers)
  <2>1. 0 \in Nat /\ 0 + 1 <= Len(Operations(b))
    BY <1>3, <1>4
  <2>2. QED
    BY <1>3, <1>5, <2>1, IdealFrom
<1> DEFINE i == Operations(b)[1]
<1>7. a.exists
  <2>1. a = Ready(b, x)
    BY <1>3, <1>6, IdealStart
  <2>2. Ready(b, x).exists
    BY DEF Ready, IsAccount
  <2>3. QED
    BY <2>1, <2>2
<1>8. i \in InstrOf(AllNames) /\ i.name \in Making
  BY <1>2, <1>4, ElementOfSeq, InstrOfNames
<1>9. Typed(Meant(b, a, i)) /\ Meant(b, a, i).name \in Making
  <2> HIDE DEF i
  <2>1. Meant(b, a, i).name = i.name /\ Typed(Meant(b, a, i))
    BY <1>8, MeantTyped, Zenon
  <2>2. QED
    BY <1>8, <2>1
<1>10. c \in Outcome(a, Meant(b, a, i), signers)
  <2>1. 0 + 1 = 1
    OBVIOUS
  <2>2. QED
    BY <1>6, <2>1
<1> HIDE DEF i
<1>11. QED
  BY <1>7, <1>9, <1>10, OutcomeCases
     DEF ClosesLegacy, Initializes, Migrates, Closes, Modifies, Making, Modifying

\* An allocation comes first.
LEMMA AllocationFirst ==
  ASSUME NEW b, IsBuilder(b), b.init = <<>>, NEW i,
         NEW now, \/ now = [b EXCEPT !.init = <<i>>]
                  \/ b.resize = <<>> /\ now = [b EXCEPT !.resize = <<i>>]
  PROVE  /\ Operations(now) = <<i>> \o Operations(b)
         /\ now.post = b.post /\ now.ethSigner = b.ethSigner
<1> DEFINE S == InstrOf(AllNames) \cup {i}
<1>1. /\ b.resize \in Seq(S) /\ b.general \in Seq(S) /\ b.close \in Seq(S)
      /\ b.post \in Seq(S) /\ <<i>> \in Seq(S) /\ <<>> \in Seq(S)
  <2>1. InstrOf(AllNames) \subseteq S /\ i \in S
    OBVIOUS
  <2> HIDE DEF S
  <2>2. QED
    BY <2>1, ListsTyped
<1>2. /\ now.general = b.general /\ now.close = b.close /\ now.post = b.post
      /\ now.ethSigner = b.ethSigner
      /\ \/ now.init = <<i>> /\ now.resize = b.resize
         \/ now.init = <<>> /\ now.resize = <<i>> /\ b.resize = <<>>
  BY DEF IsBuilder
<1> HIDE DEF S
<1>3. /\ <<>> \o b.resize = b.resize
      /\ <<>> \o <<i>> = <<i>> /\ <<i>> \o <<>> = <<i>>
  BY <1>1, ConcatEmptySeq
<1>4. now.init \o now.resize = <<i>> \o b.resize
  BY <1>2, <1>3, Zenon
<1>5. Operations(now) = (((<<i>> \o b.resize) \o b.general) \o b.close) \o b.post
  BY <1>2, <1>4, Zenon DEF Operations, InstructionChain
<1>6. Operations(b) = ((b.resize \o b.general) \o b.close) \o b.post
  BY <1>3, Zenon DEF Operations, InstructionChain
<1>7. PICK f \in Seq(S), r \in Seq(S), g \in Seq(S), c \in Seq(S), p \in Seq(S) :
        f = <<i>> /\ r = b.resize /\ g = b.general /\ c = b.close /\ p = b.post
  BY <1>1
<1>8. PICK all : all = Operations(b)
  OBVIOUS
<1>9. f \o all = (((f \o r) \o g) \o c) \o p
  <2>1. PICK rg \in Seq(S) : rg = r \o g
    BY ConcatProperties
  <2>2. PICK rgc \in Seq(S) : rgc = rg \o c
    BY ConcatProperties
  <2>3. (f \o rgc) \o p = f \o (rgc \o p)
    BY SMTT(30)
  <2>4. (f \o rg) \o c = f \o rgc
    <3>1. (f \o rg) \o c = f \o (rg \o c)
      BY SMTT(30)
    <3>2. QED
      BY Zenon, <2>2, <3>1
  <2>5. (f \o r) \o g = f \o rg
    <3>1. (f \o r) \o g = f \o (r \o g)
      BY SMTT(30)
    <3>2. QED
      BY Zenon, <2>1, <3>1
  <2>6. all = rgc \o p
    BY <1>6, <1>7, <1>8, <2>1, <2>2
  <2>7. QED
    BY Zenon, <2>3, <2>4, <2>5, <2>6
<1>10. QED
  BY <1>2, <1>5, <1>7, <1>8, <1>9

LEMMA QueuedMaking ==
  ASSUME NEW b, NEW i, ~Queued(b, i).thrown
  PROVE  /\ i.name = "initialize" => Queued(b, i).builder = [b EXCEPT !.init = <<i>>]
         /\ i.name = "resize" => /\ b.resize = <<>>
                                 /\ Queued(b, i).builder = [b EXCEPT !.resize = <<i>>]
<1> SUFFICES ASSUME i.name \in {"initialize", "resize"}
             PROVE  /\ b[Slot(i)] = <<>>
                    /\ Queued(b, i).builder = [b EXCEPT ![Slot(i)] = <<i>>]
  BY DEF Slot
<1> DEFINE q == [builder |-> b, thrown |-> FALSE]
<1>1. Slot(i) # "general"
  BY DEF Slot
<1>2. Queued(b, i) = IF b[Slot(i)] # <<>> THEN [q EXCEPT !.thrown = TRUE]
                     ELSE [q EXCEPT !.builder[Slot(i)] = Append(@, i)]
  BY <1>1 DEF Queued, QueuedOne
<1>3. b[Slot(i)] = <<>>
  BY <1>2
<1>4. Queued(b, i).builder = [b EXCEPT ![Slot(i)] = Append(@, i)]
  BY <1>2, <1>3
<1>5. Append(b[Slot(i)], i) = <<i>>
  BY <1>3
<1>6. QED
  BY <1>3, <1>4, <1>5

LEMMA PreparedOperations ==
  ASSUME NEW b, IsBuilder(b), b.init = <<>>, NEW x, IsAccount(x),
         ~Allocated(b, x).thrown
  PROVE  \/ x.exists /\ Required(b, x) <= x.space /\ Allocated(b, x).builder = b
         \/ /\ x.exists => b.resize = <<>> /\ x.space < Required(b, x)
            /\ Operations(Allocated(b, x).builder) = <<Allocation(b, x)>> \o Operations(b)
            /\ Allocated(b, x).builder.post = b.post
<1> DEFINE making == [Instruction("initialize", Required(b, x), Did) EXCEPT !.payer = AllocPayer(b)]
           growing == [Instruction("resize", Required(b, x), b.resizeAuthority)
                         EXCEPT !.payer = AllocPayer(b)]
<1>1. Allocated(b, x) =
        IF ~x.exists THEN Queued(b, making)
        ELSE IF x.space < Required(b, x) THEN Queued(b, growing)
        ELSE [builder |-> b, thrown |-> FALSE]
  BY DEF Allocated, Required, First, FirstSize
<1>2. making.name = "initialize" /\ growing.name = "resize"
  BY DEF Instruction
<1>3. Allocation(b, x) = IF x.exists THEN growing ELSE making
  BY DEF Allocation
<1>4. Required(b, x) \in Int /\ x.space \in Int
  <2>1. b.general \in Seq(InstrOf(General)) /\ x.space \in Nat
    BY DEF IsBuilder, IsAccount
  <2>2. QED
    BY <2>1, FirstTracked, RequiredIsNat DEF Required
<1> HIDE DEF making, growing
<1>5. CASE ~x.exists
  <2>1. Allocated(b, x) = Queued(b, making) /\ Allocation(b, x) = making
    BY <1>1, <1>3, <1>5
  <2>2. PICK i : i = making
    OBVIOUS
  <2>3. i.name = "initialize" /\ ~Queued(b, i).thrown
    BY <1>2, <2>1, <2>2
  <2>4. Queued(b, i).builder = [b EXCEPT !.init = <<i>>]
    BY <2>3, QueuedMaking
  <2>5. /\ Operations(Queued(b, i).builder) = <<i>> \o Operations(b)
        /\ Queued(b, i).builder.post = b.post
    BY <2>4, AllocationFirst
  <2>6. QED
    BY <1>5, <2>1, <2>2, <2>5
<1>6. CASE x.exists /\ x.space < Required(b, x)
  <2>1. Allocated(b, x) = Queued(b, growing) /\ Allocation(b, x) = growing
    BY <1>1, <1>3, <1>6
  <2>2. PICK i : i = growing
    OBVIOUS
  <2>3. i.name = "resize" /\ ~Queued(b, i).thrown
    BY <1>2, <2>1, <2>2
  <2>4. b.resize = <<>> /\ Queued(b, i).builder = [b EXCEPT !.resize = <<i>>]
    BY <2>3, QueuedMaking
  <2>5. /\ Operations(Queued(b, i).builder) = <<i>> \o Operations(b)
        /\ Queued(b, i).builder.post = b.post
    BY <2>4, AllocationFirst
  <2>6. QED
    BY <1>6, <2>1, <2>2, <2>4, <2>5
<1>7. CASE x.exists /\ ~(x.space < Required(b, x))
  BY <1>1, <1>4, <1>7
<1>8. QED
  BY <1>5, <1>6, <1>7

-----------------------------------------------------------------------------
(* The chain and the operations, side by side.                             *)

\* What a transaction has made of the account that its chain should make: the
\* same but for the nonce, in the same space or with what was asked for.
Fits(b, x, a, r) ==
  /\ Match(a, r)
  /\ \/ r.space = a.space
     \/ Allocates(b) /\ Required(b, x) <= r.space

\* What an operation needs of the account of the transaction.
LEMMA RoomIsThere ==
  ASSUME NEW b, IsBuilder(b), Allocates(b) => b.init = <<>>,
         NEW x, IsAccount(x), NEW signers,
         NEW n \in 1..Len(Operations(b)), NEW i, i.name = Operations(b)[n].name,
         NEW a, IsAccount(a), NEW r, IsAccount(r), Fits(b, x, a, r),
         NEW c \in Ideal(b, x, signers)[n], IsAccount(c), c \in Outcome(a, i, signers)
  PROVE  Room(i, r, c)
<1>1. SUFFICES ASSUME i.name \in Modifying \ {"resize"}
               PROVE  DISCRIMINATOR + Size(c.data) <= r.space
  BY DEF Room
<1>2. CASE r.space = a.space
  <2>1. PICK e : /\ DISCRIMINATOR + Size(e) <= Bytes(i, a)
                 /\ c = Stored(a, e, Bytes(i, a))
    BY <1>1, OutcomeGiven
  <2>2. Bytes(i, a) = r.space
    BY <1>1, <1>2 DEF Bytes
  <2>3. c.data = e
    BY <2>1, StoredFields
  <2>4. QED
    BY <2>1, <2>2, <2>3
<1>3. CASE Allocates(b) /\ Required(b, x) <= r.space
  <2>1. DISCRIMINATOR + Size(c.data) <= Required(b, x)
    BY <1>1, <1>3, RoomForAll
  <2>2. /\ DISCRIMINATOR + Size(c.data) \in Int /\ Required(b, x) \in Int
        /\ r.space \in Int
    <3>1. b.general \in Seq(InstrOf(General)) /\ r.space \in Nat
      BY DEF IsBuilder, IsAccount
    <3>2. Required(b, x) \in Nat
      BY <3>1, FirstTracked, RequiredIsNat DEF Required
    <3>3. DISCRIMINATOR \in Nat /\ Size(c.data) \in Nat
      BY SizeParts DEF IsAccount, DISCRIMINATOR
    <3>4. QED
      BY <3>1, <3>2, <3>3
  <2>3. QED
    BY <1>3, <2>1, <2>2
<1>4. QED
  BY <1>2, <1>3 DEF Fits

LEMMA MeantNamed ==
  ASSUME NEW b, NEW a, NEW o \in InstrOf(AllNames)
  PROVE  Typed(Meant(b, a, o)) /\ Meant(b, a, o).name = o.name
BY MeantTyped

LEMMA CallsAlike ==
  ASSUME NEW b, NEW a, NEW r, Match(a, r), NEW o \in InstrOf(AllNames),
         NEW j, NEW nonce,
         j.name = o.name, j.arg = o.arg, j.authority = o.authority, j.payer = o.payer,
         j.eth = SignaturesOf(o, b.ethSigner, nonce),
         r.exists /\ b.ethSigner # {} => r.data.nonce = nonce
  PROVE  SameCall(a, Meant(b, a, o), r, j, b.ethSigner)
<1> DEFINE i == Meant(b, a, o)
           Over(n) == {[key |-> k, message |-> o.arg, nonce |-> n] : k \in b.ethSigner}
<1>a. /\ i.name = o.name /\ i.arg = o.arg /\ i.authority = o.authority
      /\ i.payer = o.payer
      /\ i.eth = SignaturesOf(o, b.ethSigner, a.data.nonce)
  BY MeantTyped
<1> HIDE DEF i
<1>1. i.eth = IF Signable(o) THEN Over(a.data.nonce) ELSE {}
  BY <1>a DEF SignaturesOf
<1>2. j.eth = IF Signable(o) THEN Over(nonce) ELSE {}
  BY DEF SignaturesOf
<1>3. b.ethSigner = {} => \A n : Over(n) = {}
  OBVIOUS
<1> HIDE DEF Over
<1>4. a.exists =>
        \/ i.eth = {} /\ j.eth = {}
        \/ i.eth = Over(a.data.nonce) /\ j.eth = Over(r.data.nonce)
  <2>1. CASE b.ethSigner = {} \/ ~Signable(o)
    BY <1>1, <1>2, <1>3, <2>1
  <2>2. CASE b.ethSigner # {} /\ Signable(o)
    BY <1>1, <1>2, <2>2 DEF Match
  <2>3. QED
    BY <2>1, <2>2
<1>5. QED
  BY <1>a, <1>4 DEF SameCall, i, Over

LEMMA Lockstep ==
  ASSUME NEW b, IsBuilder(b), Allocates(b) => b.init = <<>>,
         NEW x, IsAccount(x), NEW signers,
         NEW chain, TypedChain(chain), OrderedChain(chain),
         NEW all, SignedAs(chain, all, b.ethSigner, NonceRead(x)),
         NEW shift \in Nat, Len(all) = shift + Len(Operations(b)),
         \A p \in 1..Len(Operations(b)) : all[shift + p] = Operations(b)[p],
         NonceRead(x) + Len(chain) <= MaxNonce,
         \E r \in Run(x, chain, signers)[shift] : Fits(b, x, Ready(b, x), r)
  PROVE  \A n \in 0..Len(Operations(b)) : \A a \in Ideal(b, x, signers)[n] :
           \E r \in Run(x, chain, signers)[shift + n] : Fits(b, x, a, r)
<1> DEFINE run == Run(x, chain, signers)
           ideal == Ideal(b, x, signers)
           S == {n \in Nat : n <= Len(Operations(b)) =>
                   \A a \in ideal[n] : \E r \in run[shift + n] : Fits(b, x, a, r)}
<1>0. Operations(b) \in Seq(InstrOf(AllNames)) /\ Len(Operations(b)) \in Nat
  <2>1. Operations(b) \in Seq(InstrOf(AllNames))
    BY ListsTyped
  <2>2. QED
    BY <2>1
<1>1. Len(chain) = shift + Len(Operations(b)) /\ Len(chain) \in Nat
  BY <1>0 DEF SignedAs
<1>2. 0 \in S
  <2>1. ideal[0] = {Ready(b, x)}
    BY <1>0, IdealStart
  <2>2. shift + 0 = shift
    OBVIOUS
  <2>3. \E r \in run[shift + 0] : Fits(b, x, Ready(b, x), r)
    BY <2>2
  <2> HIDE DEF ideal, run
  <2>4. QED
    BY <2>1, <2>3
<1>3. ASSUME NEW n \in Nat, n \in S
      PROVE  n + 1 \in S
  <2>1. SUFFICES ASSUME n + 1 <= Len(Operations(b)), NEW c \in ideal[n + 1]
                 PROVE  \E d \in run[shift + (n + 1)] : Fits(b, x, c, d)
    OBVIOUS
  <2>2. PICK m \in Nat : m = shift + n
    OBVIOUS
  <2>3. /\ shift + (n + 1) = m + 1 /\ m + 1 \in 1..Len(chain) /\ m \in 0..Len(chain)
        /\ n + 1 \in 1..Len(Operations(b)) /\ n \in 0..Len(Operations(b))
        /\ n + 1 \in 0..Len(Operations(b)) /\ (m + 1) - 1 = m
    BY <1>0, <1>1, <2>1, <2>2
  <2>4. PICK o \in InstrOf(AllNames) : o = Operations(b)[n + 1]
    BY <1>0, <2>3, ElementOfSeq
  <2>5. PICK a \in ideal[n] : c \in Outcome(a, Meant(b, a, o), signers)
    BY <1>0, <2>1, <2>4, IdealFrom
  <2>6. PICK r \in run[m] : Fits(b, x, a, r)
    BY <1>0, <1>3, <2>1, <2>2, <2>3
  <2>7. IsAccount(a) /\ IsAccount(c)
    BY <2>3, <2>5, IdealAccounts
  <2>8. IsAccount(r)
    BY <2>3, <2>6, RunAccount
  <2>9. /\ r.exists => r.data.nonce <= NonceRead(x) + m
        /\ r.exists /\ b.ethSigner # {} =>
             r.data.nonce = NonceRead(x) + Before(all, m + 1)
    BY <2>3, <2>6, RunCounts
  <2>10. r.exists => r.data.nonce < MaxNonce
    <3>1. NonceRead(x) \in Nat
      BY DEF NonceRead, IsAccount, DidAccounts
    <3>2. r.data.nonce \in Nat /\ MaxNonce \in Nat
      BY <2>8, NonceAssumption DEF IsAccount, DidAccounts
    <3>3. QED
      BY <1>1, <2>3, <2>9, <3>1, <3>2
  <2> DEFINE j == chain[m + 1]
             i == Meant(b, a, o)
  <2>11. all[m + 1] = o
    <3>1. shift + (n + 1) = m + 1
      BY <2>3
    <3>2. QED
      BY <2>3, <2>4, <3>1
  <2>12. /\ j.name = o.name /\ j.arg = o.arg /\ j.authority = o.authority
         /\ j.payer = o.payer
         /\ j.eth = SignaturesOf(o, b.ethSigner, NonceRead(x) + Before(all, m + 1))
    <3>1. m + 1 \in 1..Len(all)
      BY <1>0, <1>1, <2>3
    <3>2. \A p \in 1..Len(all) :
            chain[p] = [name |-> all[p].name, arg |-> all[p].arg,
                        authority |-> all[p].authority, payer |-> all[p].payer,
                        eth |-> SignaturesOf(all[p], b.ethSigner,
                                             NonceRead(x) + Before(all, p))]
      BY DEF SignedAs
    <3>3. j = [name |-> o.name, arg |-> o.arg, authority |-> o.authority, payer |-> o.payer,
               eth |-> SignaturesOf(o, b.ethSigner, NonceRead(x) + Before(all, m + 1))]
      BY <2>11, <3>1, <3>2
    <3> HIDE DEF j
    <3>4. QED
      BY <3>3
  <2> HIDE DEF j
  <2>13. Match(a, r)
    BY <2>6 DEF Fits
  <2>14. SameCall(a, i, r, j, b.ethSigner)
    BY <2>9, <2>12, <2>13, CallsAlike
  <2>15. Typed(i) /\ i.name = o.name
    BY MeantNamed
  <2> HIDE DEF i
  <2>16. c \in Outcome(a, i, signers)
    BY <2>5 DEF i
  <2>17. Room(i, r, c)
    BY <2>1, <2>3, <2>4, <2>6, <2>7, <2>8, <2>15, <2>16, RoomIsThere
  <2>18. PICK d \in Outcome(r, j, signers) :
           /\ Match(c, d)
           /\ IF i.name \in (Modifying \ {"resize"}) \cup {"close_legacy"}
              THEN c.space = a.space /\ d.space = r.space
              ELSE d.space = c.space
    BY <2>7, <2>8, <2>10, <2>13, <2>14, <2>15, <2>16, <2>17, OutcomeMatch
  <2>19. Fits(b, x, c, d)
    BY <2>6, <2>18 DEF Fits
  <2>20. d \in run[m + 1]
    <3>1. \A e : e \in run[m + 1] <=>
                 \E y \in run[(m + 1) - 1] : e \in Outcome(y, chain[m + 1], signers)
      BY <1>1, <2>3, RunSteps
    <3>2. QED
      BY <2>3, <2>6, <2>18, <3>1 DEF j
  <2>21. QED
    BY <2>3, <2>19, <2>20
<1> HIDE DEF S
<1>4. \A n \in Nat : n \in S
  BY <1>2, <1>3, Induction
<1>5. QED
  BY <1>0, <1>4 DEF S

\* The start of the operations, with what an allocation asks for.
LEMMA FirstRequired ==
  ASSUME NEW b, IsBuilder(b), NEW x, IsAccount(x)
  PROVE  /\ Required(b, x) \in Nat
         /\ DISCRIMINATOR + Size(FirstData(x)) <= Required(b, x)
<1>1. b.general \in Seq(InstrOf(General)) /\ Len(b.general) \in Nat
  BY DEF IsBuilder
<1>2. IsDocument(First(x)) /\ FirstSize(x) \in Nat
  BY FirstTracked
<1>3. Required(b, x) \in Nat
  BY <1>1, <1>2, RequiredIsNat DEF Required
<1>4. Growth(First(x), FirstSize(x), b.general)[0].size <= Required(b, x)
  BY <1>1, <1>2, GrowthBounded DEF Required
<1>5. Growth(First(x), FirstSize(x), b.general)[0].size = FirstSize(x)
  <2>1. Growth(First(x), FirstSize(x), b.general)[0] =
          [account |-> First(x), size |-> FirstSize(x), max |-> FirstSize(x)]
    BY <1>1, GrowthStart
  <2>2. QED
    BY <2>1
<1>6. DISCRIMINATOR + Size(FirstData(x)) = FirstSize(x)
  BY FirstTracked
<1>7. QED
  BY <1>3, <1>4, <1>5, <1>6

LEMMA ReadyFields ==
  ASSUME NEW b, NEW x, IsAccount(x)
  PROVE  /\ ~Allocates(b) => Ready(b, x) = x
         /\ Allocates(b) => /\ Ready(b, x).exists = TRUE
                            /\ Ready(b, x).data = FirstData(x)
                            /\ Ready(b, x).legacy = x.legacy
BY DEF Ready, FirstData, IsAccount

LEMMA SameNonce ==
  ASSUME NEW x \in DidAccounts
  PROVE  WithNonce(x, x.nonce) = x
BY DEF WithNonce, DidAccounts

\* An instance that allocates has allocated when its transaction reaches the
\* operations.
LEMMA ResizeFits ==
  ASSUME NEW b, IsBuilder(b), Allocates(b), NEW x, IsAccount(x), x.exists,
         NEW j, j.name = "resize", j.arg = Required(b, x), Authorised(x.data, j),
         NEW signers, SignersOf(j) \subseteq signers
  PROVE  \E r \in Outcome(x, j, signers) : Fits(b, x, Ready(b, x), r)
<1> DEFINE c == Counted(x.data, j.eth)
           r == Stored(x, c, Required(b, x))
<1>1. /\ Valid(Did, x.data) /\ FiniteLists(x.data) /\ x.data \in DidAccounts
      /\ CanCount(x.data, j.eth)
  BY DEF IsAccount, Authorised
<1>2. Size(c) = Size(x.data)
  BY <1>1 DEF Counted, Size, DidAccounts
<1>3. c = WithNonce(x.data, c.nonce)
  BY <1>1 DEF Counted, WithNonce, DidAccounts
<1>4. FirstData(x) = x.data
  BY DEF FirstData
<1>5. Bytes(j, x) = Required(b, x)
  BY DEF Bytes
<1>6. DISCRIMINATOR + Size(c) <= Required(b, x)
  BY <1>2, <1>4, FirstRequired
<1>7. c \in Modified(c, j)
  BY DEF Modified
<1> HIDE DEF c
<1>8. r \in Outcome(x, j, signers)
  BY <1>5, <1>6, <1>7, OutcomeMade DEF Modifying, c
<1>9. r.exists /\ r.data = c /\ r.space = Required(b, x) /\ r.legacy = x.legacy
  BY StoredFields
<1> HIDE DEF r
<1>10. Match(Ready(b, x), r)
  BY <1>3, <1>4, <1>9, ReadyFields DEF Match
<1>11. Fits(b, x, Ready(b, x), r)
  BY <1>9, <1>10, FirstRequired DEF Fits
<1>12. QED
  BY <1>8, <1>11

LEMMA InitializeFits ==
  ASSUME NEW b, IsBuilder(b), Allocates(b), NEW x, IsAccount(x), ~x.exists,
         NEW j, j.name = "initialize", j.arg = Required(b, x), j.authority = Did,
         NEW signers, SignersOf(j) \subseteq signers
  PROVE  \E r \in Outcome(x, j, signers) : Fits(b, x, Ready(b, x), r)
<1> DEFINE r == Stored(x, NewAccount(Did), Required(b, x))
<1>1. FirstData(x) = NewAccount(Did)
  BY DEF FirstData
<1>2. DISCRIMINATOR + Size(NewAccount(Did)) <= Required(b, x)
  BY <1>1, FirstRequired
<1>3. r \in Outcome(x, j, signers)
  BY <1>2, OutcomeMade
<1>4. /\ r.exists /\ r.data = NewAccount(Did) /\ r.space = Required(b, x)
      /\ r.legacy = x.legacy
  BY StoredFields
<1> HIDE DEF r
<1>5. WithNonce(NewAccount(Did), NewAccount(Did).nonce) = NewAccount(Did)
  BY NewValid, DidAssumption, SameNonce DEF Valid
<1>6. Match(Ready(b, x), r)
  BY <1>1, <1>4, <1>5, ReadyFields DEF Match
<1>7. Fits(b, x, Ready(b, x), r)
  BY <1>4, <1>6, FirstRequired DEF Fits
<1>8. QED
  BY <1>3, <1>7

LEMMA NothingFits ==
  ASSUME NEW b, IsBuilder(b), NEW x, IsAccount(x),
         ~Allocates(b) \/ (x.exists /\ Required(b, x) <= x.space)
  PROVE  Fits(b, x, Ready(b, x), x)
<1>1. WithNonce(x.data, x.data.nonce) = x.data
  BY SameNonce DEF IsAccount
<1>2. CASE ~Allocates(b)
  BY <1>1, <1>2, ReadyFields DEF Fits, Match
<1>3. CASE Allocates(b) /\ x.exists /\ Required(b, x) <= x.space
  BY <1>1, <1>3, ReadyFields DEF Fits, Match, FirstData
<1>4. QED
  BY <1>2, <1>3

Allowed(x, chain, signer, signers) ==
  \A p \in 1..Len(chain) :
    chain[p].name \in {"initialize", "resize"} =>
      /\ SignersOf(chain[p]) \subseteq signers
      /\ x.exists => Authorised(x.data, SignedFor(x, chain[p], signer))

Reaches(b, x, chain, all, signers, shift) ==
  /\ Len(all) = shift + Len(Operations(b))
  /\ \A p \in 1..Len(Operations(b)) : all[shift + p] = Operations(b)[p]
  /\ \E r \in Run(x, chain, signers)[shift] : Fits(b, x, Ready(b, x), r)

LEMMA Started ==
  ASSUME NEW b, IsBuilder(b), Allocates(b) => b.init = <<>>,
         NEW x, IsAccount(x), ~Prepared(b, x).thrown, NEW signers,
         NEW all, all = Operations(Prepared(b, x).builder),
         NEW chain, SignedAs(chain, all, b.ethSigner, NonceRead(x)), TypedChain(chain),
         Allowed(x, chain, b.ethSigner, signers)
  PROVE  \E shift \in Nat : Reaches(b, x, chain, all, signers, shift)
<1>0. /\ Operations(b) \in Seq(InstrOf(AllNames)) /\ Len(Operations(b)) \in Nat
      /\ Len(chain) = Len(all) /\ Len(chain) \in Nat
  <2>1. Operations(b) \in Seq(InstrOf(AllNames))
    BY ListsTyped
  <2>2. QED
    BY <2>1 DEF SignedAs
<1>1. CASE Prepared(b, x).builder = b
           /\ (~Allocates(b) \/ (x.exists /\ Required(b, x) <= x.space))
  <2>1. x \in Run(x, chain, signers)[0]
    <3>1. Run(x, chain, signers)[0] = {x}
      BY <1>0, RunSteps
    <3>2. QED
      BY <3>1
  <2>2. Fits(b, x, Ready(b, x), x)
    BY <1>1, NothingFits
  <2>3. /\ Len(all) = 0 + Len(Operations(b))
        /\ \A p \in 1..Len(Operations(b)) : all[0 + p] = Operations(b)[p]
    BY <1>0, <1>1
  <2>4. QED
    BY <2>1, <2>2, <2>3 DEF Reaches
<1>2. CASE /\ Allocates(b) /\ all = <<Allocation(b, x)>> \o Operations(b)
  <2> DEFINE first == Allocation(b, x)
             S == InstrOf(AllNames) \cup {first}
  <2>1. PICK f \in Seq(S), o \in Seq(S) : f = <<first>> /\ o = Operations(b)
    <3>1. InstrOf(AllNames) \subseteq S /\ first \in S
      OBVIOUS
    <3> HIDE DEF S, first
    <3>2. Operations(b) \in Seq(S) /\ <<first>> \in Seq(S)
      BY <1>0, <3>1
    <3>3. QED
      BY <3>2
  <2> HIDE DEF S
  <2>2. all = f \o o /\ Len(f) = 1 /\ f[1] = first
    BY <1>2, <2>1
  <2>3. /\ Len(all) = 1 + Len(o) /\ \A p \in 1..Len(f) : all[p] = f[p]
        /\ \A p \in 1..Len(o) : all[Len(f) + p] = o[p]
    <3>1. /\ Len(f \o o) = Len(f) + Len(o)
          /\ \A p \in 1..Len(f) : (f \o o)[p] = f[p]
          /\ \A p \in 1..Len(o) : (f \o o)[Len(f) + p] = o[p]
      BY TwoLists
    <3>2. QED
      BY <2>2, <3>1
  <2>4. /\ Len(all) = 1 + Len(Operations(b)) /\ all[1] = first
        /\ \A p \in 1..Len(Operations(b)) : all[1 + p] = Operations(b)[p]
    BY <2>1, <2>2, <2>3
  <2> DEFINE j == chain[1]
  <2>5. 1 \in 1..Len(all) /\ 1 \in 1..Len(chain)
    BY <1>0, <2>4
  <2>6. j = [name |-> first.name, arg |-> first.arg, authority |-> first.authority,
             payer |-> first.payer,
             eth |-> SignaturesOf(first, b.ethSigner, NonceRead(x) + Before(all, 1))]
    BY <2>4, <2>5 DEF SignedAs
  <2>7. NonceRead(x) + Before(all, 1) = NonceRead(x)
    <3>1. Before(all, 1) = 0
      BY BeforeCounts
    <3>2. NonceRead(x) \in Int
      BY DEF NonceRead, IsAccount, DidAccounts
    <3>3. QED
      BY <3>1, <3>2
  <2>8. /\ first.name = IF x.exists THEN "resize" ELSE "initialize"
        /\ first.arg = Required(b, x)
        /\ ~x.exists => first.authority = Did
    BY DEF Allocation, Instruction
  <2> HIDE DEF first, j
  <2>9. /\ j.name = first.name /\ j.arg = first.arg /\ j.authority = first.authority
        /\ j.payer = first.payer
        /\ j.eth = SignaturesOf(first, b.ethSigner, NonceRead(x))
    BY <2>6, <2>7
  <2>10. /\ SignersOf(j) \subseteq signers
         /\ x.exists => Authorised(x.data, SignedFor(x, j, b.ethSigner))
    <3>1. j.name \in {"initialize", "resize"}
      BY <2>8, <2>9
    <3>2. QED
      BY <2>5, <3>1 DEF j, Allowed
  <2>11. \E r \in Outcome(x, j, signers) : Fits(b, x, Ready(b, x), r)
    <3>1. CASE x.exists
      <4>1. SignedFor(x, j, b.ethSigner) = j
        <5>1. j.eth = {[key |-> k, message |-> j.arg, nonce |-> x.data.nonce] :
                          k \in b.ethSigner}
          BY <2>8, <2>9, <3>1 DEF SignaturesOf, Signable, NonceRead
        <5>2. [j EXCEPT !.eth = j.eth] = j
          BY <2>6
        <5>3. QED
          BY <5>1, <5>2 DEF SignedFor
      <4>2. QED
        BY <1>2, <2>8, <2>9, <2>10, <3>1, <4>1, ResizeFits
    <3>2. CASE ~x.exists
      BY <1>2, <2>8, <2>9, <2>10, <3>2, InitializeFits
    <3>3. QED
      BY <3>1, <3>2
  <2>12. PICK r \in Outcome(x, j, signers) : Fits(b, x, Ready(b, x), r)
    BY <2>11
  <2>13. r \in Run(x, chain, signers)[1]
    <3>1. Run(x, chain, signers)[0] = {x}
      BY <1>0, RunSteps
    <3>2. \A e : e \in Run(x, chain, signers)[1] <=>
                 \E y \in Run(x, chain, signers)[1 - 1] : e \in Outcome(y, chain[1], signers)
      BY <1>0, <2>5, RunSteps
    <3>3. 1 - 1 = 0
      OBVIOUS
    <3>4. QED
      BY <2>12, <3>1, <3>2, <3>3 DEF j
  <2>14. QED
    BY <2>4, <2>12, <2>13 DEF Reaches
<1>3. QED
  <2>1. CASE ~Allocates(b)
    <3>1. Prepared(b, x).builder = b
      BY <2>1 DEF Prepared
    <3>2. QED
      BY <1>1, <2>1, <3>1
  <2>2. CASE Allocates(b)
    <3>1. Prepared(b, x) = Allocated(b, x)
      BY <2>2 DEF Prepared
    <3>2. QED
      BY <1>1, <1>2, <2>2, <3>1, PreparedOperations
  <2>3. QED
    BY <2>1, <2>2

\* Documents that match are the same.
DocumentOf(a) ==
  [exists |-> a.exists, data |-> [a.data EXCEPT !.nonce = 0], legacy |-> a.legacy]

LEMMA MatchingDocuments ==
  ASSUME NEW a, IsAccount(a), NEW r, Match(a, r)
  PROVE  DocumentOf(r) = DocumentOf(a)
<1>1. r.exists = a.exists /\ r.legacy = a.legacy
      /\ r.data = [a.data EXCEPT !.nonce = r.data.nonce]
  BY DEF Match, WithNonce
<1>2. [r.data EXCEPT !.nonce = 0] = [a.data EXCEPT !.nonce = 0]
  <2>1. PICK m : m = r.data.nonce
    OBVIOUS
  <2>2. r.data = [a.data EXCEPT !.nonce = m]
    BY <1>1, <2>1
  <2>3. [[a.data EXCEPT !.nonce = m] EXCEPT !.nonce = 0] = [a.data EXCEPT !.nonce = 0]
    BY DEF IsAccount, DidAccounts
  <2>4. QED
    BY <2>2, <2>3
<1>3. QED
  BY <1>1, <1>2 DEF DocumentOf

\* The chain of a transaction that was built from an account.
LEMMA PreparedSigned ==
  ASSUME NEW b, IsBuilder(b), NEW x, IsAccount(x), ~Prepared(b, x).thrown
  PROVE  SignedAs(Signed(InstructionChain(Prepared(b, x).builder), b.ethSigner,
                         NonceRead(x)) \o b.post,
                  Operations(Prepared(b, x).builder), b.ethSigner, NonceRead(x))
<1> DEFINE now == Prepared(b, x).builder
<1>1. IsBuilder(now) /\ now.post = b.post
  <2>1. CASE Allocates(b)
    <3>1. Prepared(b, x) = Allocated(b, x)
      BY <2>1 DEF Prepared
    <3>2. IsBuilder(now) /\ Extends(b, now)
      BY <2>1, <3>1, AllocatedIsQueue, AllocatedExtends DEF IsQueue
    <3> HIDE DEF now
    <3>3. QED
      BY <3>2 DEF Extends, IsBuilder
  <2>2. CASE ~Allocates(b)
    <3>1. Prepared(b, x) = [builder |-> b, thrown |-> FALSE]
      BY <2>2 DEF Prepared
    <3>2. now = b
      BY <3>1
    <3>3. QED
      BY <3>2
  <2>3. QED
    BY <2>1, <2>2
<1> HIDE DEF now
<1>2. SignedAs(Signed(InstructionChain(now), b.ethSigner, NonceRead(x)) \o now.post,
               Operations(now), b.ethSigner, NonceRead(x))
  BY <1>1, SignedChain
<1>3. QED
  BY <1>1, <1>2 DEF now

\* A transaction that lands on the account it was built from.
LEMMA FreshWorks ==
  ASSUME NEW b, IsBuilder(b), NEW x, IsAccount(x), ~Prepared(b, x).thrown,
         NEW chain, TypedChain(chain), OrderedChain(chain),
         NEW all, all = Operations(Prepared(b, x).builder),
         SignedAs(chain, all, b.ethSigner, NonceRead(x)),
         NEW signers, Intended(b, x, signers) # {},
         Allowed(x, chain, b.ethSigner, signers),
         NonceRead(x) + Len(chain) <= MaxNonce
  PROVE  Documents(Execute(x, chain, signers)) = Documents(Intended(b, x, signers))
<1> DEFINE result == Execute(x, chain, signers)
           intended == Intended(b, x, signers)
<1>0. /\ Operations(b) \in Seq(InstrOf(AllNames)) /\ Len(Operations(b)) \in Nat
      /\ Len(chain) \in Nat
  <2>1. Operations(b) \in Seq(InstrOf(AllNames))
    BY ListsTyped
  <2>2. Len(Operations(b)) \in Nat
    BY <2>1
  <2>3. QED
    BY <2>1, <2>2 DEF TypedChain
<1>2. Allocates(b) => b.init = <<>>
  BY NothingMade
<1>4. PICK shift \in Nat : Reaches(b, x, chain, all, signers, shift)
  BY <1>2, Started
<1>5. \A n \in 0..Len(Operations(b)) : \A a \in Ideal(b, x, signers)[n] :
        \E r \in Run(x, chain, signers)[shift + n] : Fits(b, x, a, r)
  BY <1>2, <1>4, Lockstep DEF Reaches
<1>6. /\ intended = Ideal(b, x, signers)[Len(Operations(b))]
      /\ result = Run(x, chain, signers)[Len(chain)]
      /\ Len(chain) = shift + Len(Operations(b))
  BY <1>4 DEF Intended, Execute, SignedAs, Reaches
<1>7. \A a \in intended : \E r \in result : Match(a, r)
  <2>1. Len(Operations(b)) \in 0..Len(Operations(b))
    BY <1>0
  <2> HIDE DEF intended, result
  <2>2. QED
    BY <1>5, <1>6, <2>1 DEF Fits
<1>8. \A a \in intended : IsAccount(a)
  <2>1. Len(Operations(b)) \in 0..Len(Operations(b))
    BY <1>0
  <2> HIDE DEF intended
  <2>2. QED
    BY <1>6, <2>1, IdealAccounts
<1>9. \A r, q \in result : r = q
  <2> HIDE DEF result
  <2>1. Len(chain) \in 0..Len(chain)
    BY <1>0
  <2>2. \A r, q \in Run(x, chain, signers)[Len(chain)] : r = q
    BY <2>1, RunAccount
  <2>3. QED
    BY <1>6, <2>2
<1>10. PICK a \in intended : TRUE
  OBVIOUS
<1> HIDE DEF intended, result
<1>11. PICK r \in result : TRUE
  BY <1>7, <1>10
<1>12. \A d \in intended : DocumentOf(r) = DocumentOf(d)
  BY <1>7, <1>8, <1>9, <1>11, MatchingDocuments
<1>13. Documents(result) = {DocumentOf(d) : d \in result}
       /\ Documents(intended) = {DocumentOf(d) : d \in intended}
  BY DEF Documents, DocumentOf
<1>14. {DocumentOf(d) : d \in result} = {DocumentOf(d) : d \in intended}
  BY <1>9, <1>10, <1>11, <1>12
<1>15. QED
  BY <1>13, <1>14 DEF intended, result

-----------------------------------------------------------------------------
(* Transactions that were built from one account.                          *)

\* Of a caller that is alone: its instance is as it asked, with the allocation
\* of the account that was read, and its chain is signed for the nonce of the
\* same account if only one was seen.
FromAccount(b, seen, chain) ==
  \A x : seen = {x} =>
    /\ ~Prepared(b, x).thrown
    /\ chain = Signed(InstructionChain(Prepared(b, x).builder), b.ethSigner, NonceRead(x))
                 \o b.post

Fresh(c) ==
  call[c].pc # "idle" /\ call[c].alone =>
    \A job \in call[c].job :
      LET b == Alone(c, job) IN
      /\ call[c].pc = "chain" => call[c].seen = {} /\ ~Allocates(b)
      /\ call[c].pc = "nonce" =>
           IF Allocates(b)
           THEN \E x : /\ call[c].seen = {x} /\ ~Allocated(b, x).thrown
                       /\ builder[InstanceOf[c]] = Allocated(b, x).builder
           ELSE call[c].seen = {} /\ builder[InstanceOf[c]] = b
      /\ call[c].pc = "sign" => FromAccount(b, call[c].seen, call[c].chain)

FreshTransaction(t) ==
  t.alone => \A job \in t.job : FromAccount(Alone(t.caller, job), t.seen, t.chain)

FreshInv ==
  /\ OwnInv
  /\ \A c \in Callers : Fresh(c)
  /\ \A t \in pool : FreshTransaction(t)

LEMMA FreshInit == Init => FreshInv
BY OwnInit DEF Init, FreshInv, Fresh, NoCall

LEMMA ProceedFresh ==
  ASSUME FreshInv, OwnInv', NEW c \in Callers, call[c].pc # "idle",
         \A s \in Instances \ {InstanceOf[c]} : builder'[s] = builder[s],
         \A d \in Callers \ {c} : call'[d] = call[d],
         Fresh(c)', \A t \in pool' \ pool : FreshTransaction(t)
  PROVE  FreshInv'
<1>1. ASSUME NEW d \in Callers \ {c}
      PROVE  Fresh(d)'
  <2>1. call'[d] = call[d] /\ Fresh(d)
    BY DEF FreshInv
  <2>2. CASE InstanceOf[d] = InstanceOf[c]
    <3>1. Own(d)
      BY DEF FreshInv, OwnInv
    <3>2. ~(call[d].pc # "idle" /\ call[d].alone)
      BY <2>2, <3>1 DEF Own
    <3>3. QED
      BY <2>1, <3>2 DEF Fresh
  <2>3. CASE InstanceOf[d] # InstanceOf[c]
    <3>1. builder'[InstanceOf[d]] = builder[InstanceOf[d]]
      BY <2>3, InstanceAssumption
    <3>2. QED
      BY <2>1, <3>1 DEF Fresh
  <2>4. QED
    BY <2>2, <2>3
<1>2. \A t \in pool' : FreshTransaction(t)
  BY DEF FreshInv
<1>3. QED
  BY <1>1, <1>2 DEF FreshInv

LEMMA EndedFresh ==
  ASSUME FreshInv, OwnInv', NEW c \in Callers, call[c].pc # "idle",
         NEW answer, NEW left, Ended(c, answer, left),
         \A t \in pool' \ pool : FreshTransaction(t)
  PROVE  FreshInv'
<1>0. Shape
  BY DEF FreshInv, OwnInv, SafeInv, EmptyInv
<1>1. \A s \in Instances \ {InstanceOf[c]} : builder'[s] = builder[s]
  BY <1>0 DEF Ended, Shape
<1>2. /\ \A d \in Callers \ {c} : call'[d] = call[d]
      /\ call'[c].pc = "idle"
  BY <1>0 DEF Ended, Shape, NoCall
<1>3. Fresh(c)'
  BY <1>2 DEF Fresh
<1>4. QED
  BY <1>1, <1>2, <1>3, ProceedFresh

LEMMA SettledFresh ==
  ASSUME FreshInv, OwnInv', NEW c \in Callers, call[c].pc # "idle",
         NEW answer, Settled(c, answer)
  PROVE  FreshInv'
BY EndedFresh DEF Settled

LEMMA FailedFresh ==
  ASSUME FreshInv, OwnInv', NEW c \in Callers, call[c].pc # "idle", Failed(c)
  PROVE  FreshInv'
<1>1. CASE Terminal(c) = "rpc"
  BY <1>1, SettledFresh DEF Failed
<1>2. CASE Terminal(c) # "rpc"
  BY <1>2, EndedFresh DEF Failed
<1>3. QED
  BY <1>1, <1>2

LEMMA StartFresh ==
  ASSUME FreshInv, OwnInv', NEW c \in Callers, StartCall(c)
  PROVE  FreshInv'
<1> DEFINE s == InstanceOf[c]
<1>1. PICK job \in Jobs[c] :
        LET q == CalledAll(builder[s], job.calls)
            pc == IF q.builder.payer # {} /\ q.builder.general # <<>>
                  THEN "alloc" ELSE "chain"
            started == [NoCall EXCEPT
                          !.pc = IF q.thrown THEN "idle" ELSE pc,
                          !.n = call[c].n + 1,
                          !.job = {job},
                          !.wallet = {q.builder.wallet},
                          !.alone = s \notin open /\ Quiet(s),
                          !.answer = IF q.thrown THEN "failed" ELSE @]
        IN /\ builder' = [builder EXCEPT ![s] = q.builder]
           /\ call' = [d \in Callers |->
                         IF d = c THEN started
                         ELSE IF d \in Disturbed(c)
                         THEN [call[d] EXCEPT !.alone = FALSE]
                         ELSE call[d]]
           /\ open' = IF q.thrown THEN open \cup {s} ELSE open
  BY DEF StartCall
<1> DEFINE q == CalledAll(builder[s], job.calls)
<1> HIDE DEF q
<1>2. /\ builder' = [builder EXCEPT ![s] = q.builder]
      /\ call'[c].pc = IF q.thrown THEN "idle"
                       ELSE IF q.builder.payer # {} /\ q.builder.general # <<>>
                       THEN "alloc" ELSE "chain"
      /\ call'[c].job = {job} /\ call'[c].seen = {}
      /\ \A d \in Callers \ {c} :
           call'[d] = IF d \in Disturbed(c) THEN [call[d] EXCEPT !.alone = FALSE]
                      ELSE call[d]
  BY <1>1 DEF q, NoCall
<1>3. Shape
  BY DEF FreshInv, OwnInv, SafeInv, EmptyInv
<1>4. /\ builder'[s] = q.builder
      /\ \A r \in Instances \ {s} : builder'[r] = builder[r]
  BY <1>2, <1>3, InstanceAssumption DEF Shape
<1>5. \A d \in Callers \ {c} :
        /\ call'[d].pc = call[d].pc
        /\ d \in Disturbed(c) => ~call'[d].alone
        /\ d \notin Disturbed(c) => call'[d] = call[d]
  <2>1. SUFFICES ASSUME NEW d \in Callers \ {c}
                 PROVE  /\ call'[d].pc = call[d].pc
                        /\ d \in Disturbed(c) => ~call'[d].alone
                        /\ d \notin Disturbed(c) => call'[d] = call[d]
    OBVIOUS
  <2>2. "pc" \in DOMAIN call[d] /\ "alone" \in DOMAIN call[d]
    BY <1>3 DEF Shape, NoCall
  <2>3. QED
    BY <1>2, <2>2
<1>6. Fresh(c)'
  <2>1. SUFFICES ASSUME call'[c].pc # "idle", call'[c].alone, call'[c].pc = "chain"
                 PROVE  ~Allocates(Alone(c, job))
    BY <1>2 DEF Fresh
  <2>2. ~(q.builder.payer # {} /\ q.builder.general # <<>>)
    BY <1>2, <2>1
  <2>3. builder'[s] = Alone(c, job)
    <3>1. Own(c)'
      BY DEF OwnInv
    <3>2. QED
      BY <1>2, <2>1, <3>1 DEF Own
  <2>4. QED
    BY <1>4, <2>2, <2>3 DEF Allocates
<1>7. ASSUME NEW d \in Callers \ {c}
      PROVE  Fresh(d)'
  <2>1. CASE d \in Disturbed(c)
    BY <1>5, <2>1 DEF Fresh
  <2>2. CASE d \notin Disturbed(c) /\ InstanceOf[d] = s
    BY <1>5, <2>2 DEF Fresh, Disturbed
  <2>3. CASE d \notin Disturbed(c) /\ InstanceOf[d] # s
    <3>1. builder'[InstanceOf[d]] = builder[InstanceOf[d]] /\ call'[d] = call[d]
      BY <1>4, <1>5, <2>3, InstanceAssumption
    <3>2. Fresh(d)
      BY DEF FreshInv
    <3>3. QED
      BY <3>1, <3>2 DEF Fresh
  <2>4. QED
    BY <2>1, <2>2, <2>3
<1>8. UNCHANGED pool
  BY DEF StartCall
<1>9. QED
  BY <1>6, <1>7, <1>8 DEF FreshInv

LEMMA ReadAccountFresh ==
  ASSUME FreshInv, OwnInv', NEW c \in Callers, ReadAccount(c)
  PROVE  FreshInv'
<1> DEFINE s == InstanceOf[c]
           q == Allocated(builder[s], account)
<1> HIDE DEF q
<1>0. call[c].pc = "alloc" /\ OwnInv
  BY DEF ReadAccount, FreshInv
<1>1. CASE q.thrown
  BY <1>0, <1>1, FailedFresh DEF ReadAccount, q
<1>2. CASE ~q.thrown
  <2>1. /\ builder' = [builder EXCEPT ![s] = q.builder]
        /\ call' = [call EXCEPT ![c].pc = "nonce",
                                ![c].seen = {account},
                                ![c].chain = InstructionChain(q.builder)]
        /\ UNCHANGED pool
    BY <1>2 DEF ReadAccount, q
  <2>2. Shape
    BY <1>0 DEF OwnInv, SafeInv, EmptyInv
  <2>3. /\ builder'[s] = q.builder
        /\ \A r \in Instances \ {s} : builder'[r] = builder[r]
    BY <2>1, <2>2, InstanceAssumption DEF Shape
  <2>4. /\ call'[c].pc = "nonce" /\ call'[c].seen = {account}
        /\ call'[c].job = call[c].job /\ call'[c].alone = call[c].alone
        /\ \A d \in Callers \ {c} : call'[d] = call[d]
    BY <2>1, <2>2 DEF Shape, NoCall
  <2>5. Fresh(c)'
    <3>1. SUFFICES ASSUME call[c].alone PROVE Fresh(c)'
      BY <2>4 DEF Fresh
    <3>2. PICK job \in Jobs[c] :
            /\ call[c].job = {job}
            /\ builder[s] = Alone(c, job) /\ Allocates(Alone(c, job))
      BY <1>0, <3>1, OwnJob
    <3>3. q = Allocated(Alone(c, job), account)
      BY <3>2 DEF q
    <3>4. \E x : /\ call'[c].seen = {x} /\ ~Allocated(Alone(c, job), x).thrown
                 /\ builder'[s] = Allocated(Alone(c, job), x).builder
      BY <1>2, <2>3, <2>4, <3>3
    <3>5. QED
      BY <2>4, <3>2, <3>4 DEF Fresh
  <2>6. QED
    BY <1>0, <2>1, <2>3, <2>4, <2>5, ProceedFresh
<1>3. QED
  BY <1>1, <1>2

LEMMA ChainFresh ==
  ASSUME FreshInv, OwnInv', NEW c \in Callers, Chain(c)
  PROVE  FreshInv'
<1> DEFINE s == InstanceOf[c]
<1>0. call[c].pc = "chain" /\ UNCHANGED <<builder, pool>> /\ OwnInv
  BY DEF Chain, FreshInv
<1>1. Shape
  BY <1>0 DEF OwnInv, SafeInv, EmptyInv
<1>2. /\ call'[c].pc = "nonce" /\ call'[c].seen = call[c].seen
      /\ call'[c].job = call[c].job /\ call'[c].alone = call[c].alone
      /\ \A d \in Callers \ {c} : call'[d] = call[d]
  BY <1>1 DEF Chain, Shape, NoCall
<1>3. Fresh(c)'
  <2>1. SUFFICES ASSUME call[c].alone PROVE Fresh(c)'
    BY <1>2 DEF Fresh
  <2>2. PICK job \in Jobs[c] : call[c].job = {job} /\ builder[s] = Alone(c, job)
    BY <1>0, <2>1, OwnJob
  <2>3. call[c].seen = {} /\ ~Allocates(Alone(c, job))
    BY <1>0, <2>1, <2>2 DEF FreshInv, Fresh
  <2>4. QED
    BY <1>0, <1>2, <2>2, <2>3 DEF Fresh
<1>4. QED
  BY <1>0, <1>2, <1>3, ProceedFresh

\* The reply to getNonce is of the account that was read before, or another was
\* seen as well.
LEMMA ReadNonceFresh ==
  ASSUME FreshInv, OwnInv', NEW c \in Callers, ReadNonce(c)
  PROVE  FreshInv'
<1> DEFINE s == InstanceOf[c]
           now == builder[s]
<1>0. call[c].pc = "nonce" /\ UNCHANGED <<builder, pool>> /\ OwnInv
  BY DEF ReadNonce, FreshInv
<1>1. Shape
  BY <1>0 DEF OwnInv, SafeInv, EmptyInv
<1>2. /\ call'[c].pc = "sign"
      /\ call'[c].chain = Signed(call[c].chain, now.ethSigner, NonceRead(account)) \o now.post
      /\ call'[c].seen = call[c].seen \cup {account}
      /\ call'[c].job = call[c].job /\ call'[c].alone = call[c].alone
      /\ \A d \in Callers \ {c} : call'[d] = call[d]
  BY <1>1 DEF ReadNonce, Shape, NoCall, NonceRead
<1>3. Fresh(c)'
  <2>1. SUFFICES ASSUME call[c].alone PROVE Fresh(c)'
    BY <1>2 DEF Fresh
  <2>2. PICK job \in Jobs[c] :
          /\ call[c].job = {job} /\ IsBuilder(Alone(c, job))
          /\ Extends(Alone(c, job), now) /\ call[c].chain = InstructionChain(now)
    BY <1>0, <2>1, OwnJob
  <2>3. PICK b : b = Alone(c, job)
    OBVIOUS
  <2>4. now.ethSigner = b.ethSigner /\ now.post = b.post
    BY <2>2, <2>3 DEF Extends, IsBuilder
  <2>5. IF Allocates(b)
        THEN \E x : /\ call[c].seen = {x} /\ ~Allocated(b, x).thrown
                    /\ now = Allocated(b, x).builder
        ELSE call[c].seen = {} /\ now = b
    BY <1>0, <2>1, <2>2, <2>3 DEF FreshInv, Fresh
  <2>6. ASSUME NEW x, call[c].seen \cup {account} = {x}
        PROVE  /\ ~Prepared(b, x).thrown
               /\ now = Prepared(b, x).builder /\ x = account
    <3>1. x = account
      BY <2>6
    <3>2. CASE Allocates(b)
      <4>1. PICK y : /\ call[c].seen = {y} /\ ~Allocated(b, y).thrown
                     /\ now = Allocated(b, y).builder
        BY <2>5, <3>2
      <4>2. y = x
        BY <2>6, <4>1
      <4>3. QED
        BY <3>1, <3>2, <4>1, <4>2 DEF Prepared
    <3>3. CASE ~Allocates(b)
      <4>1. Prepared(b, x) = [builder |-> b, thrown |-> FALSE]
        BY <3>3 DEF Prepared
      <4>2. now = b
        BY <2>5, <3>3
      <4>3. QED
        BY <3>1, <4>1, <4>2
    <3>4. QED
      BY <3>2, <3>3
  <2>7. FromAccount(b, call'[c].seen, call'[c].chain)
    <3>1. SUFFICES ASSUME NEW x, call[c].seen \cup {account} = {x}
                   PROVE  /\ ~Prepared(b, x).thrown
                          /\ call'[c].chain =
                               Signed(InstructionChain(Prepared(b, x).builder),
                                      b.ethSigner, NonceRead(x)) \o b.post
      BY <1>2 DEF FromAccount
    <3>2. ~Prepared(b, x).thrown /\ now = Prepared(b, x).builder /\ x = account
      BY <2>6, <3>1
    <3>3. QED
      BY <1>2, <2>2, <2>4, <3>2, Zenon
  <2>8. QED
    BY <1>2, <2>2, <2>3, <2>7 DEF Fresh
<1>4. QED
  BY <1>0, <1>2, <1>3, ProceedFresh

LEMMA SignedFresh ==
  ASSUME FreshInv, NEW c \in Callers, call[c].pc = "sign",
         NEW t, t.caller = c, t.job = call[c].job, t.alone = call[c].alone,
         t.seen = call[c].seen, t.chain = call[c].chain
  PROVE  FreshTransaction(t)
BY DEF FreshInv, Fresh, FreshTransaction

LEMMA SendFresh ==
  ASSUME FreshInv, OwnInv', NEW c \in Callers, Send(c)
  PROVE  FreshInv'
<1>0. call[c].pc = "sign"
  BY DEF Send
<1>1. Shape
  BY DEF FreshInv, OwnInv, SafeInv, EmptyInv
<1>2. /\ call'[c].pc = "sent"
      /\ \A d \in Callers \ {c} : call'[d] = call[d]
      /\ \A r \in Instances \ {InstanceOf[c]} : builder'[r] = builder[r]
  BY <1>1 DEF Send, Shape, NoCall
<1>3. Fresh(c)'
  BY <1>2 DEF Fresh
<1>4. FreshTransaction(Transaction(c))
  BY <1>0, SignedFresh DEF Transaction
<1>5. \A t \in pool' \ pool : FreshTransaction(t)
  BY <1>4 DEF Send
<1>6. QED
  BY <1>0, <1>2, <1>3, <1>5, ProceedFresh

LEMMA ReturnFresh ==
  ASSUME FreshInv, OwnInv', NEW c \in Callers, Return(c)
  PROVE  FreshInv'
<1>0. call[c].pc = "sign"
  BY DEF Return
<1> DEFINE t == [Transaction(c) EXCEPT !.signers = Asked(c) \ NonSigningKeys]
<1>1. FreshTransaction(t)
  BY <1>0, SignedFresh DEF Transaction
<1>2. pool' = pool \cup {t}
  BY DEF Return
<1> HIDE DEF t
<1>3. \A u \in pool' \ pool : FreshTransaction(u)
  BY <1>1, <1>2
<1>4. QED
  BY <1>0, <1>3, EndedFresh DEF Return

LEMMA LandFresh ==
  ASSUME FreshInv, OwnInv', NEW t \in pool, Land(t) \/ Expire(t)
  PROVE  FreshInv'
<1>1. UNCHANGED builder /\ pool' \subseteq pool
  BY DEF Land, Expire
<1>2. \A c \in Callers :
        /\ call'[c].pc = call[c].pc /\ call'[c].alone = call[c].alone
        /\ call'[c].job = call[c].job /\ call'[c].chain = call[c].chain
        /\ call'[c].seen = call[c].seen
  BY DEF Land, Expire, FreshInv, OwnInv, SafeInv, EmptyInv, Shape, NoCall
<1>3. \A c \in Callers : Fresh(c)'
  BY <1>1, <1>2 DEF FreshInv, Fresh
<1>4. QED
  BY <1>1, <1>3 DEF FreshInv

LEMMA FreshStep == FreshInv /\ [Next]_vars => FreshInv'
<1> SUFFICES ASSUME FreshInv, [Next]_vars
             PROVE  FreshInv'
  OBVIOUS
<1>0. OwnInv'
  BY OwnStep DEF FreshInv
<1>1. ASSUME NEW c \in Callers, StartCall(c)
      PROVE  FreshInv'
  BY <1>0, <1>1, StartFresh
<1>2. ASSUME NEW c \in Callers, Proceed(c)
      PROVE  FreshInv'
  <2>1. CASE ReadAccount(c)
    BY <1>0, <2>1, ReadAccountFresh
  <2>2. CASE Chain(c)
    BY <1>0, <2>2, ChainFresh
  <2>3. CASE ReadNonce(c)
    BY <1>0, <2>3, ReadNonceFresh
  <2>4. CASE Reject(c)
    BY <1>0, <2>4, FailedFresh DEF Reject
  <2>5. CASE Send(c)
    BY <1>0, <2>5, SendFresh
  <2>6. CASE CannotSign(c) \/ GiveUp(c) \/ Confirm(c)
    BY <1>0, <2>6, SettledFresh DEF CannotSign, GiveUp, Confirm
  <2>7. CASE Return(c)
    BY <1>0, <2>7, ReturnFresh
  <2>8. QED
    BY <1>2, <2>1, <2>2, <2>3, <2>4, <2>5, <2>6, <2>7 DEF Proceed
<1>3. ASSUME NEW t \in pool, Land(t) \/ Expire(t)
      PROVE  FreshInv'
  BY <1>0, <1>3, LandFresh
<1>4. CASE UNCHANGED vars
  BY <1>0, <1>4 DEF vars, FreshInv, Fresh
<1>5. QED
  BY <1>1, <1>2, <1>3, <1>4 DEF Next

LEMMA FreshAlways == Spec => []FreshInv
<1>1. Init /\ [][Next]_vars => []FreshInv
  BY FreshInit, FreshStep, PTL
<1>2. QED
  BY <1>1, PTL DEF Spec

\* A transaction that lands on the one account that was read for it does what
\* its chain of calls asked for.
LEMMA FreshTransactionWorks ==
  ASSUME FreshInv, NEW t \in pool, NEW job \in t.job, NEW b, b = Alone(t.caller, job),
         t.alone, t.seen = {account}, Intended(b, account, t.signers) # {},
         MayAllocate(t, b.ethSigner), account.data.nonce + Len(t.chain) <= MaxNonce
  PROVE  Documents(Execute(account, t.chain, t.signers)) =
         Documents(Intended(b, account, t.signers))
<1>1. IsAccount(account) /\ Sendable(t.chain)
  BY DEF FreshInv, OwnInv, SafeInv
<1>2. t.caller \in Callers /\ job \in Jobs[t.caller]
  BY DEF FreshInv, OwnInv, OwnTransaction
<1>3. IsBuilder(b)
  <2>1. InstanceOf[t.caller] \in Instances
    BY <1>2, InstanceAssumption
  <2>2. IsQueue(CalledAll(EmptyBuilder(InstanceOf[t.caller]), job.calls))
    BY <1>2, <2>1, EmptyIsBuilder, JobCalls, CalledAllIsQueue
  <2>3. QED
    BY <2>2 DEF Alone, IsQueue
<1>4. FromAccount(b, t.seen, t.chain)
  BY DEF FreshInv, FreshTransaction
<1>5. PICK x : x = account
  OBVIOUS
<1>6. PICK chain : chain = t.chain
  OBVIOUS
<1>7. /\ ~Prepared(b, x).thrown
      /\ chain = Signed(InstructionChain(Prepared(b, x).builder), b.ethSigner, NonceRead(x))
                   \o b.post
  BY <1>4, <1>5, <1>6 DEF FromAccount
<1>8. SignedAs(chain, Operations(Prepared(b, x).builder), b.ethSigner, NonceRead(x))
  <2>1. SignedAs(Signed(InstructionChain(Prepared(b, x).builder), b.ethSigner,
                        NonceRead(x)) \o b.post,
                 Operations(Prepared(b, x).builder), b.ethSigner, NonceRead(x))
    BY <1>1, <1>3, <1>5, <1>7, PreparedSigned
  <2>2. QED
    BY <1>7, <2>1, Zenon
<1>9. TypedChain(chain) /\ OrderedChain(chain) /\ DOMAIN chain = 1..Len(chain)
  BY <1>1, <1>6 DEF Sendable
<1>10. Allowed(x, chain, b.ethSigner, t.signers)
  BY <1>5, <1>6, <1>9 DEF Allowed, MayAllocate
<1>11. NonceRead(x) + Len(chain) <= MaxNonce
  <2>1. Len(chain) \in Nat /\ x.data.nonce \in Nat /\ MaxNonce \in Nat
    BY <1>1, <1>5, <1>9, NonceAssumption DEF TypedChain, IsAccount, DidAccounts
  <2>2. NonceRead(x) \in Nat /\ NonceRead(x) <= x.data.nonce
    BY <2>1 DEF NonceRead
  <2>3. x.data.nonce + Len(chain) <= MaxNonce
    BY <1>5, <1>6
  <2>4. QED
    BY <2>1, <2>2, <2>3
<1>12. PICK all : all = Operations(Prepared(b, x).builder)
  OBVIOUS
<1>13. SignedAs(chain, all, b.ethSigner, NonceRead(x))
  BY <1>8, <1>12
<1>14. Documents(Execute(x, chain, t.signers)) = Documents(Intended(b, x, t.signers))
  <2>1. ~Prepared(b, x).thrown /\ Intended(b, x, t.signers) # {} /\ IsAccount(x)
    BY <1>1, <1>5, <1>7
  <2>2. QED
    BY <1>3, <1>9, <1>10, <1>11, <1>12, <1>13, <2>1, FreshWorks
<1>15. QED
  BY <1>5, <1>6, <1>14

\* If the operations of a chain of calls can be executed at all, one by one and
\* on an account with enough space, then the transaction that was built for
\* them from the account it lands on makes the same of it, whatever the other
\* callers of the instance did: the allocation that setAllocInstruction added
\* gives them enough space at every moment, and ethSignInstructions signed each
\* for the nonce that the program has when it comes to it.  An allocation of
\* existing accounts must be allowed to its authority (MayAllocate), and the
\* nonces of all instructions must exist.
THEOREM FreshTransactionsDoTheirWork == Spec => []FreshTransactionsWork
<1>1. ASSUME FreshInv
      PROVE  FreshTransactionsWork
  <2>1. SUFFICES ASSUME NEW t \in pool, NEW job \in t.job, NEW b,
                        b = Alone(t.caller, job), t.alone, t.seen = {account},
                        Intended(b, account, t.signers) # {},
                        MayAllocate(t, b.ethSigner),
                        account.data.nonce + Len(t.chain) <= MaxNonce
                 PROVE  Documents(Execute(account, t.chain, t.signers)) =
                        Documents(Intended(b, account, t.signers))
    BY DEF FreshTransactionsWork
  <2>2. QED
    BY <1>1, <2>1, FreshTransactionWorks
<1>2. QED
  BY <1>1, FreshAlways, PTL
=============================================================================
