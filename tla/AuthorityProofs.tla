--------------------------- MODULE AuthorityProofs ---------------------------
(***************************************************************************)
(* Theorems about Authority, for every value of its constants.             *)
(***************************************************************************)
EXTENDS Authority, SolDidProofs, SequenceTheorems

\* Where a chain that starts at a DID ends, and where it is after n controllers.
End(d, chain) == IF chain = <<>> THEN d ELSE Last(chain)
At(d, chain, n) == IF n = 0 THEN d ELSE chain[n]

\* The chains of a DID that have no controller twice.
Simple(d) ==
  {p \in Seq(Dids) :
     /\ ControlledBy(d, p)
     /\ \A i, j \in 1..Len(p) : p[i] = p[j] => i = j}

\* An account is found under the key that its DID is named by.
LEMMA DirectControl ==
  ASSUME IInv, NEW c \in Dids, NEW d
  PROVE  DirectlyControlledBy(d, c) <=> c \in data[d].native_controllers
BY IInvMeaning DEF AddressDerivable, DirectlyControlledBy

LEMMA EndIsLast ==
  ASSUME NEW d, NEW p \in Seq(Dids)
  PROVE  End(d, p) = At(d, p, Len(p))
<1>1. CASE p = <<>>
  BY <1>1 DEF End, At
<1>2. CASE p # <<>>
  BY <1>2 DEF End, At, Last
<1>3. QED
  BY <1>1, <1>2

\* The links of a chain.
LEMMA LinksOf ==
  ASSUME NEW d, NEW p \in Seq(Dids), ControlledBy(d, p)
  PROVE  \A i \in 1..Len(p) :
           DirectlyControlledBy(IF i = 1 THEN d ELSE p[i - 1], p[i])
<1>1. DOMAIN p = 1..Len(p)
  OBVIOUS
<1>2. QED
  BY <1>1 DEF ControlledBy

LEMMA EmptyChain ==
  ASSUME NEW d
  PROVE  <<>> \in Simple(d) /\ End(d, <<>>) = d
BY DEF Simple, ControlledBy, End

\* A chain without a repetition is no longer than there are DIDs.
LEMMA SimpleIsShort ==
  ASSUME IsFiniteSet(Dids), NEW d, NEW p \in Simple(d)
  PROVE  p \in Chains
<1>1. p \in Seq(Dids) /\ \A i, j \in 1..Len(p) : p[i] = p[j] => i = j
  BY DEF Simple
<1>2. Len(p) \in Nat /\ p \in [1..Len(p) -> Dids]
  BY <1>1
<1>3. p \in Injection(1..Len(p), Dids)
  BY <1>1, <1>2 DEF Injection, IsInjective
<1>4. Cardinality(1..Len(p)) <= Cardinality(Dids)
  BY <1>3, FS_Injection
<1>5. Cardinality(1..Len(p)) = Len(p)
  BY <1>2, FS_Interval
<1>6. Cardinality(Dids) \in Nat
  BY FS_CardinalityType
<1>7. Len(p) \in 0..Cardinality(Dids)
  BY <1>2, <1>4, <1>5, <1>6
<1>8. QED
  BY <1>2, <1>7 DEF Chains, SeqOf

\* Where a controller of the last DID of a simple chain is: on the chain already,
\* or at the end of a longer one.
LEMMA SimpleExtends ==
  ASSUME IInv, NEW d \in Dids, NEW p \in Simple(d), NEW c \in Dids,
         c \in data[End(d, p)].native_controllers
  PROVE  \E q \in Simple(d) : End(d, q) = c
<1>1. /\ p \in Seq(Dids) /\ Len(p) \in Nat
      /\ \A i, j \in 1..Len(p) : p[i] = p[j] => i = j
      /\ \A i \in 1..Len(p) : DirectlyControlledBy(IF i = 1 THEN d ELSE p[i - 1], p[i])
  BY LinksOf DEF Simple
<1>2. ASSUME NEW k \in 1..Len(p), p[k] = c
      PROVE  \E q \in Simple(d) : End(d, q) = c
  <2> DEFINE q == [i \in 1..k |-> p[i]]
  <2>1. q \in Seq(Dids) /\ Len(q) = k /\ DOMAIN q = 1..k
    BY <1>1
  <2>2. \A i \in 1..k : q[i] = p[i] /\ i \in 1..Len(p)
    BY <1>1
  <2>3. \A i \in 1..k : i # 1 => i - 1 \in 1..k
    BY <1>1
  <2> HIDE DEF q
  <2>4. \A i \in 1..k : DirectlyControlledBy(IF i = 1 THEN d ELSE q[i - 1], q[i])
    BY <1>1, <2>2, <2>3
  <2>5. q \in Simple(d)
    BY <1>1, <2>1, <2>2, <2>4 DEF Simple, ControlledBy
  <2>6. End(d, q) = c
    BY <1>2, <2>1, <2>2, EndIsLast DEF At
  <2>7. QED
    BY <2>5, <2>6
<1>3. CASE \A k \in 1..Len(p) : p[k] # c
  <2> DEFINE q == Append(p, c)
             n == Len(p) + 1
  <2>1. /\ q \in Seq(Dids) /\ Len(q) = n /\ DOMAIN q = 1..n /\ q[n] = c
        /\ \A i \in 1..Len(p) : q[i] = p[i]
    BY <1>1, AppendProperties
  <2>2. \A i \in 1..n : i = n \/ i \in 1..Len(p)
    BY <1>1
  <2>3. n \in Nat /\ n # 0
    BY <1>1
  <2> HIDE DEF q
  <2>4. \A i, j \in 1..n : q[i] = q[j] => i = j
    BY <1>1, <1>3, <2>1, <2>2
  <2>5. DirectlyControlledBy(End(d, p), c)
    BY DirectControl
  <2>6. DirectlyControlledBy(IF n = 1 THEN d ELSE q[n - 1], q[n])
    <3>1. End(d, p) = At(d, p, Len(p))
      BY <1>1, EndIsLast
    <3>2. CASE n = 1
      BY <1>1, <2>1, <2>5, <3>1, <3>2 DEF At
    <3>3. CASE n # 1
      <4>1. Len(p) # 0 /\ n - 1 = Len(p) /\ Len(p) \in 1..Len(p)
        BY <1>1, <3>3
      <4>2. q[n - 1] = End(d, p)
        BY <2>1, <3>1, <4>1 DEF At
      <4>3. QED
        BY <2>1, <2>5, <3>3, <4>2
    <3>4. QED
      BY <3>2, <3>3
  <2>7. ASSUME NEW i \in 1..Len(p)
        PROVE  DirectlyControlledBy(IF i = 1 THEN d ELSE q[i - 1], q[i])
    <3>1. i # 1 => i - 1 \in 1..Len(p)
      BY <1>1
    <3>2. QED
      BY <1>1, <2>1, <3>1
  <2>8. ControlledBy(d, q)
    <3> HIDE DEF n
    <3> QED
      BY <2>1, <2>2, <2>6, <2>7 DEF ControlledBy
  <2>9. q \in Simple(d)
    BY <2>1, <2>4, <2>8 DEF Simple
  <2>10. End(d, q) = c
    BY <2>1, <2>3, EndIsLast DEF At
  <2>11. QED
    BY <2>9, <2>10
<1>4. QED
  BY <1>2, <1>3

\* All that a chain passes is in every set that is closed under controllers.
LEMMA ChainStaysClosed ==
  ASSUME IInv, NEW d \in Dids, NEW p \in Seq(Dids), ControlledBy(d, p),
         NEW S \in SUBSET Dids, d \in S, Closed(S)
  PROVE  End(d, p) \in S
<1> DEFINE T == {n \in Nat : n <= Len(p) => At(d, p, n) \in S}
<1>1. 0 \in T
  BY DEF At
<1>2. ASSUME NEW n \in Nat, n \in T
      PROVE  n + 1 \in T
  <2>1. SUFFICES ASSUME n + 1 <= Len(p)
                 PROVE  At(d, p, n + 1) \in S
    OBVIOUS
  <2>2. At(d, p, n) \in S
    BY <1>2, <2>1
  <2>3. n + 1 \in 1..Len(p) /\ (n + 1) - 1 = n /\ n + 1 # 0
    BY <2>1
  <2>4. At(d, p, n + 1) = p[n + 1] /\ p[n + 1] \in Dids
    BY <2>3 DEF At
  <2>5. DirectlyControlledBy(IF n + 1 = 1 THEN d ELSE p[(n + 1) - 1], p[n + 1])
    BY <2>3, LinksOf
  <2>6. DirectlyControlledBy(At(d, p, n), p[n + 1])
    BY <2>3, <2>5 DEF At
  <2>7. p[n + 1] \in data[At(d, p, n)].native_controllers
    BY <2>4, <2>6, DirectControl
  <2>8. QED
    BY <2>2, <2>4, <2>7 DEF Closed
<1> HIDE DEF T
<1>3. \A n \in Nat : n \in T
  BY <1>1, <1>2, Induction
<1> USE DEF T
<1>4. At(d, p, Len(p)) \in S
  BY <1>3
<1>5. QED
  BY <1>4, EndIsLast

\* Some chain leads from a DID exactly to those behind it.
LEMMA ChainsReach ==
  ASSUME IsFiniteSet(Dids), IInv, NEW d \in Dids
  PROVE  /\ \A p \in Chains : ControlledBy(d, p) => End(d, p) \in Behind(d)
         /\ \A c \in Behind(d) : \E p \in Chains : ControlledBy(d, p) /\ End(d, p) = c
<1>1. ASSUME NEW p \in Chains, ControlledBy(d, p)
      PROVE  End(d, p) \in Behind(d)
  <2>1. PICK m \in 0..Cardinality(Dids) : p \in [1..m -> Dids]
    BY DEF Chains, SeqOf
  <2>2. Cardinality(Dids) \in Nat
    BY FS_CardinalityType
  <2>3. m \in Nat
    BY <2>1, <2>2
  <2>4. p \in Seq(Dids)
    BY <2>1, <2>3
  <2>5. \A S \in SUBSET Dids : d \in S /\ Closed(S) => End(d, p) \in S
    BY <1>1, <2>4, ChainStaysClosed
  <2>6. End(d, p) \in Dids
    BY <2>5 DEF Closed
  <2>7. QED
    BY <2>5, <2>6 DEF Behind
<1>2. ASSUME NEW c \in Behind(d)
      PROVE  \E p \in Chains : ControlledBy(d, p) /\ End(d, p) = c
  <2> DEFINE S == {x \in Dids : \E p \in Simple(d) : End(d, p) = x}
  <2>1. <<>> \in Simple(d) /\ End(d, <<>>) = d
    BY EmptyChain
  <2>2. d \in S
    BY <2>1
  <2>3. Closed(S)
    BY SimpleExtends DEF Closed
  <2>4. c \in S
    BY <1>2, <2>2, <2>3 DEF Behind
  <2>5. PICK p \in Simple(d) : End(d, p) = c
    BY <2>4
  <2>6. QED
    BY <2>5, SimpleIsShort DEF Simple
<1>3. QED
  BY <1>1, <1>2

\* is_authority gets through every account that the program can read.
LEMMA OperableSearched ==
  ASSUME NoLockout, NEW c \in Dids, NEW types
  PROVE  CanSearch(c, types)
BY DEF NoLockout, Operable, Readable, CanSearch

LEMMA AuthoritiesTyped ==
  ASSUME IInv, NEW c \in Dids, NEW types, NEW among
  PROVE  AuthoritiesOn(c, types, among) \subseteq KeyData
BY DEF IInv, Valid, AuthoritiesOn, AllMethods, DidAccounts, VerificationMethods

\* If callers add no method of an unknown type and migrate no document that lets
\* nobody invoke capabilities: for any number of DIDs and any graph of
\* controllers, chains that are no longer than there are DIDs prove exactly the
\* authorities of those DIDs that stand behind one.
THEOREM ChainsProveExactlyControl ==
  ASSUME IsFiniteSet(Dids), InputsKeepControl
  PROVE  Spec => []ChainsProveControl
<1>1. IInv /\ NoLockout => ChainsProveControl
  <2> SUFFICES ASSUME IInv, NoLockout, NEW d \in Dids,
                      NEW types \in {{}} \cup Singletons(AuthorityTypes),
                      NEW among \in {Fragments} \cup Singletons(Fragments)
               PROVE  UNION {{key \in KeyData :
                                IsAuthorityOf(d, chain, key, types, among)} :
                               chain \in Chains}
                        = IF Persisted(d)
                          THEN UNION {AuthoritiesOn(c, types, among) : c \in Behind(d)}
                          ELSE {d}
    BY DEF ChainsProveControl
  <2> DEFINE Proven(key) ==
        \E chain \in Chains : key \in KeyData /\ IsAuthorityOf(d, chain, key, types, among)
  <2>1. CASE ~Persisted(d)
    <3>1. d \in KeyData
      BY InputAssumption DEF KeyData
    <3>2. <<>> \in Chains
      BY EmptyChain, SimpleIsShort
    <3>3. \A key : Proven(key) <=> key = d
      BY <2>1, <3>1, <3>2 DEF IsAuthorityOf
    <3>4. QED
      BY <2>1, <3>3
  <2>2. CASE Persisted(d)
    <3>1. ASSUME NEW key, NEW chain \in Chains,
                 key \in KeyData, IsAuthorityOf(d, chain, key, types, among)
          PROVE  \E c \in Behind(d) : key \in AuthoritiesOn(c, types, among)
      <4>1. /\ ControlledBy(d, chain)
            /\ key \in AuthoritiesOn(End(d, chain), types, among)
        BY <2>2, <3>1 DEF IsAuthorityOf, End
      <4>2. QED
        BY <4>1, ChainsReach
    <3>2. ASSUME NEW c \in Behind(d), NEW key \in AuthoritiesOn(c, types, among)
          PROVE  Proven(key)
      <4>1. PICK p \in Chains : ControlledBy(d, p) /\ End(d, p) = c
        BY ChainsReach
      <4>2. c \in Dids
        BY DEF Behind
      <4>3. CanSearch(c, types) /\ key \in KeyData
        BY <4>2, OperableSearched, AuthoritiesTyped
      <4>4. IsAuthorityOf(d, p, key, types, among)
        BY <2>2, <3>2, <4>1, <4>3 DEF IsAuthorityOf, End
      <4>5. QED
        BY <4>3, <4>4
    <3>3. \A key : Proven(key) <=>
                   \E c \in Behind(d) : key \in AuthoritiesOn(c, types, among)
      BY <3>1, <3>2
    <3>4. QED
      BY <2>2, <3>3
  <2>3. QED
    BY <2>1, <2>2
<1>2. Spec => []NoLockout
  BY LockoutFree
<1>3. QED
  BY <1>1, <1>2, Invariance, PTL
=============================================================================
