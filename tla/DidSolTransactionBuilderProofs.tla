------------------- MODULE DidSolTransactionBuilderProofs -------------------
(***************************************************************************)
(* Theorems about DidSolTransactionBuilder, for every value of its         *)
(* constants: any number of callers, of instances and of calls, and any    *)
(* jobs.                                                                   *)
(***************************************************************************)
EXTENDS DidSolTransactionBuilder, InstructionsProofs, SequenceTheorems

-----------------------------------------------------------------------------
(* The queue of an instance.                                               *)

InstrOf(names) == UNION {InstructionsOf(n) : n \in names}

Making == {"initialize", "migrate"}
General == Operation \ {"initialize", "resize", "close"}

\* The fields of an instance have their types, each list has the instructions
\* that belong there, and there is room for one in three of them.
IsBuilder(b) ==
  /\ b \in [init: Seq(InstrOf(Making)), resize: Seq(InstrOf({"resize"})),
           general: Seq(InstrOf(General)), close: Seq(InstrOf({"close"})),
           post: Seq(InstrOf({"close_legacy"})), ethSigner: SUBSET EthKeys,
           payer: SUBSET SolKeys, partialSigners: SUBSET SolKeys,
           wallet: SolKeys, resizeAuthority: SolKeys]
  /\ Len(b.init) <= 1 /\ Len(b.resize) <= 1 /\ Len(b.close) <= 1

IsQueue(q) ==
  /\ q = [builder |-> q.builder, thrown |-> q.thrown]
  /\ IsBuilder(q.builder) /\ q.thrown \in BOOLEAN

LEMMA EmptyIsBuilder ==
  ASSUME NEW s \in Instances
  PROVE  IsBuilder(EmptyBuilder(s))
BY WalletAssumption DEF IsBuilder, EmptyBuilder

LEMMA InstrOfNames ==
  ASSUME NEW names, NEW i \in InstrOf(names)
  PROVE  i.name \in names /\ i \in InstructionsOf(i.name)
BY DEF InstrOf, InstructionsOf

LEMMA InstructionTyped ==
  ASSUME NEW name, NEW arg \in ArgumentsOf(name), NEW k \in SolKeys
  PROVE  Instruction(name, arg, k) \in InstructionsOf(name)
BY DEF Instruction, InstructionsOf

LEMMA ListSet ==
  ASSUME NEW b, IsBuilder(b), NEW l
  PROVE  /\ l \in Seq(InstrOf(Making)) /\ Len(l) <= 1 => IsBuilder([b EXCEPT !.init = l])
         /\ l \in Seq(InstrOf({"resize"})) /\ Len(l) <= 1 =>
              IsBuilder([b EXCEPT !.resize = l])
         /\ l \in Seq(InstrOf(General)) => IsBuilder([b EXCEPT !.general = l])
         /\ l \in Seq(InstrOf({"close"})) /\ Len(l) <= 1 =>
              IsBuilder([b EXCEPT !.close = l])
         /\ l \in Seq(InstrOf({"close_legacy"})) => IsBuilder([b EXCEPT !.post = l])
BY DEF IsBuilder

LEMMA QueueSet ==
  ASSUME NEW q, IsQueue(q), NEW b, IsBuilder(b)
  PROVE  IsQueue([q EXCEPT !.builder = b])
<1>1. [q EXCEPT !.builder = b] = [builder |-> b, thrown |-> q.thrown]
  BY DEF IsQueue
<1>2. QED
  BY <1>1 DEF IsQueue

LEMMA QueuedOneIsQueue ==
  ASSUME NEW q, IsQueue(q),
         NEW i, i \in InstructionsOf(i.name), i.name \in Operation \cup {"migrate"}
  PROVE  IsQueue(QueuedOne(q, i))
<1> DEFINE b == q.builder
<1>1. CASE q.thrown
  BY <1>1 DEF QueuedOne
<1>2. CASE ~q.thrown /\ Slot(i) # "general" /\ b[Slot(i)] # <<>>
  BY <1>2 DEF QueuedOne, IsQueue
<1>3. CASE ~q.thrown /\ ~(Slot(i) # "general" /\ b[Slot(i)] # <<>>)
  <2>1. QueuedOne(q, i) = [q EXCEPT !.builder = [b EXCEPT ![Slot(i)] = Append(@, i)]]
    BY <1>3 DEF QueuedOne
  <2>2. IsBuilder([b EXCEPT ![Slot(i)] = Append(@, i)])
    <3>1. CASE i.name \in Making
      <4>1. Slot(i) = "init" /\ i \in InstrOf(Making)
        BY <3>1 DEF Slot, Making, InstrOf
      <4>2. b.init = <<>>
        BY <1>3, <4>1
      <4>3. /\ Append(b.init, i) \in Seq(InstrOf(Making))
            /\ Len(Append(b.init, i)) <= 1
        BY <4>1, <4>2
      <4>4. [b EXCEPT ![Slot(i)] = Append(@, i)] = [b EXCEPT !.init = Append(b.init, i)]
        BY <4>1
      <4>5. QED
        BY <4>3, <4>4, ListSet DEF IsQueue
    <3>2. CASE i.name = "resize"
      <4>1. Slot(i) = "resize" /\ i \in InstrOf({"resize"})
        BY <3>2 DEF Slot, InstrOf
      <4>2. b.resize = <<>>
        BY <1>3, <4>1
      <4>3. /\ Append(b.resize, i) \in Seq(InstrOf({"resize"}))
            /\ Len(Append(b.resize, i)) <= 1
        BY <4>1, <4>2
      <4>4. [b EXCEPT ![Slot(i)] = Append(@, i)] = [b EXCEPT !.resize = Append(b.resize, i)]
        BY <4>1
      <4>5. QED
        BY <4>3, <4>4, ListSet DEF IsQueue
    <3>3. CASE i.name = "close"
      <4>1. Slot(i) = "close" /\ i \in InstrOf({"close"})
        BY <3>3 DEF Slot, InstrOf
      <4>2. b.close = <<>>
        BY <1>3, <4>1
      <4>3. /\ Append(b.close, i) \in Seq(InstrOf({"close"}))
            /\ Len(Append(b.close, i)) <= 1
        BY <4>1, <4>2
      <4>4. [b EXCEPT ![Slot(i)] = Append(@, i)] = [b EXCEPT !.close = Append(b.close, i)]
        BY <4>1
      <4>5. QED
        BY <4>3, <4>4, ListSet DEF IsQueue
    <3>4. CASE i.name \in General
      <4>1. Slot(i) = "general" /\ i \in InstrOf(General)
        BY <3>4 DEF Slot, General, InstrOf, Operation
      <4>2. Append(b.general, i) \in Seq(InstrOf(General))
        BY <4>1 DEF IsQueue, IsBuilder
      <4>3. QED
        BY <4>1, <4>2 DEF IsQueue, IsBuilder
    <3>5. QED
      BY <3>1, <3>2, <3>3, <3>4 DEF General, Making
  <2>3. QED
    BY <2>1, <2>2 DEF IsQueue
<1>4. QED
  BY <1>1, <1>2, <1>3 DEF IsQueue

-----------------------------------------------------------------------------
(* The chained calls of a job.                                             *)

LEMMA PostIsQueue ==
  ASSUME NEW q, IsQueue(q), NEW closing \in Seq(InstrOf({"close_legacy"}))
  PROVE  IsQueue([q EXCEPT !.builder.post = @ \o closing])
<1> DEFINE longer == [q.builder EXCEPT !.post = @ \o closing]
<1>1. q.builder.post \o closing \in Seq(InstrOf({"close_legacy"}))
  BY DEF IsQueue, IsBuilder
<1>2. IsBuilder(longer)
  BY <1>1, ListSet DEF IsQueue
<1>3. [q EXCEPT !.builder.post = @ \o closing] = [q EXCEPT !.builder = longer]
  OBVIOUS
<1> HIDE DEF longer
<1>4. QED
  BY <1>2, <1>3, QueueSet

LEMMA CalledIsQueue ==
  ASSUME NEW q, IsQueue(q), NEW c, IsCall(c)
  PROVE  IsQueue(Called(q, c))
<1>1. CASE q.thrown
  BY <1>1 DEF Called
<1>2. CASE ~q.thrown /\ DOMAIN c = {"instruction"}
  <2>1. /\ c.instruction.name \in Operation
        /\ c.instruction \in InstructionsOf(c.instruction.name)
    BY <1>2 DEF IsCall
  <2>2. Called(q, c) = QueuedOne(q, c.instruction)
    BY <1>2 DEF Called
  <2>3. QED
    BY <2>1, <2>2, QueuedOneIsQueue
<1>3. CASE ~q.thrown /\ DOMAIN c \in {{"migrate"}, {"migrate", "payer"}}
  <2> DEFINE key == CHOOSE k \in c.migrate : TRUE
             closing == IF c.migrate = {} THEN <<>>
                        ELSE <<Instruction("close_legacy", "none", key)>>
             payer == Passed(c, "payer", q.builder.wallet)
             making == [Instruction("migrate", "none", Did) EXCEPT !.payer = {payer}]
  <2>1. /\ Called(q, c) = MigrateCalled(q, c)
        /\ \E k \in SolKeys : c.migrate \in {{}, {k}}
    BY <1>3 DEF Called, IsCall
  <2>2. c.migrate # {} => key \in SolKeys
    BY <2>1
  <2>3. c.migrate # {} =>
          Instruction("close_legacy", "none", key) \in InstrOf({"close_legacy"})
    BY <2>2, InstructionTyped DEF ArgumentsOf, InstrOf
  <2>4. closing \in Seq(InstrOf({"close_legacy"}))
    <3>1. CASE c.migrate = {}
      BY <3>1
    <3>2. CASE c.migrate # {}
      <4>1. closing = <<Instruction("close_legacy", "none", key)>>
        BY <3>2
      <4>2. \A S, x : x \in S => <<x>> \in Seq(S)
        OBVIOUS
      <4>3. QED
        BY <2>3, <3>2, <4>1, <4>2
    <3>3. QED
      BY <3>1, <3>2
  <2>5. making \in InstructionsOf("migrate") /\ making.name = "migrate"
    <3>1. payer \in SolKeys
      BY <1>3 DEF Passed, IsCall, IsQueue, IsBuilder
    <3> HIDE DEF payer
    <3>2. QED
      BY <3>1, DidAssumption DEF Instruction, InstructionsOf, ArgumentsOf
  <2>6. MigrateCalled(q, c) =
          QueuedOne([q EXCEPT !.builder.post = @ \o closing], making)
    BY DEF MigrateCalled
  <2> HIDE DEF closing, making
  <2>9. IsQueue([q EXCEPT !.builder.post = @ \o closing])
    BY <2>4, PostIsQueue
  <2>10. QED
    BY <2>1, <2>5, <2>6, <2>9, QueuedOneIsQueue
<1>4. CASE ~q.thrown /\ DOMAIN c = {"ethSigner"}
  BY <1>4 DEF Called, IsCall, IsQueue, IsBuilder
<1>5. CASE ~q.thrown /\ DOMAIN c = {"partialSigners"}
  BY <1>5 DEF Called, IsCall, IsQueue, IsBuilder
<1>6. CASE ~q.thrown /\ DOMAIN c = {"wallet"}
  BY <1>6 DEF Called, IsCall, IsQueue, IsBuilder
<1>7. CASE ~q.thrown /\ DOMAIN c \in {{"alloc"}, {"alloc", "authority"}}
  <2>1. Passed(c, "authority", q.builder.wallet) \in SolKeys
    BY <1>7 DEF Passed, IsCall, IsQueue, IsBuilder
  <2>2. QED
    BY <1>7, <2>1 DEF Called, IsCall, IsQueue, IsBuilder
<1>8. CASE ~q.thrown /\ DOMAIN c = {"invalid"}
  BY <1>8 DEF Called, IsCall, IsQueue, IsBuilder
<1>9. QED
  BY <1>1, <1>2, <1>3, <1>4, <1>5, <1>6, <1>7, <1>8 DEF IsCall

\* Calling satisfies its own recursion equation.
LEMMA CallingDefined ==
  ASSUME NEW b, NEW calls, Len(calls) \in Nat
  PROVE  Calling(b, calls) =
           [n \in 0..Len(calls) |->
              IF n = 0 THEN [builder |-> b, thrown |-> FALSE]
              ELSE Called(Calling(b, calls)[n - 1], calls[n])]
<1> DEFINE Steps(f, k) ==
      f = [n \in 0..k |->
             IF n = 0 THEN [builder |-> b, thrown |-> FALSE]
             ELSE Called(f[n - 1], calls[n])]
    S == {k \in Nat : \E f : Steps(f, k)}
<1>1. 0 \in S
  <2>1. Steps([n \in 0..0 |-> [builder |-> b, thrown |-> FALSE]], 0)
    OBVIOUS
  <2>2. QED
    BY <2>1
<1>2. ASSUME NEW k \in Nat, k \in S
      PROVE  k + 1 \in S
  <2>1. PICK f : Steps(f, k)
    BY <1>2
  <2> DEFINE last == Called(f[k], calls[k + 1])
             g == [n \in 0..(k + 1) |-> IF n = k + 1 THEN last ELSE f[n]]
  <2>2. \A n \in 0..k : g[n] = f[n]
    OBVIOUS
  <2>3. g[k + 1] = last
    OBVIOUS
  <2>4. \A n \in 0..(k + 1) : n # 0 => n - 1 \in 0..k
    OBVIOUS
  <2>5. \A n \in 0..k :
          f[n] = IF n = 0 THEN [builder |-> b, thrown |-> FALSE]
                 ELSE Called(f[n - 1], calls[n])
    BY <2>1
  <2>6. Steps(g, k + 1)
    <3>1. SUFFICES ASSUME NEW n \in 0..(k + 1)
                   PROVE  g[n] = IF n = 0 THEN [builder |-> b, thrown |-> FALSE]
                                 ELSE Called(g[n - 1], calls[n])
      OBVIOUS
    <3> HIDE DEF g
    <3>2. CASE n \in 0..k
      BY <2>2, <2>4, <2>5, <3>2
    <3>3. CASE n = k + 1
      <4>1. n # 0 /\ n - 1 = k /\ n - 1 \in 0..k
        BY <3>3
      <4>2. QED
        BY <2>2, <2>3, <3>3, <4>1
    <3>4. QED
      BY <3>2, <3>3
  <2> HIDE DEF g, Steps
  <2>7. QED
    BY <2>6
<1> HIDE DEF S
<1>3. \A k \in Nat : k \in S
  BY <1>1, <1>2, Induction
<1> USE DEF S
<1>4. QED
  BY <1>3 DEF Calling

LEMMA CallingSteps ==
  ASSUME NEW b, NEW calls, Len(calls) \in Nat
  PROVE  /\ Calling(b, calls)[0] = [builder |-> b, thrown |-> FALSE]
         /\ \A n \in Nat : n + 1 <= Len(calls) =>
              Calling(b, calls)[n + 1] = Called(Calling(b, calls)[n], calls[n + 1])
<1> DEFINE after == Calling(b, calls)
<1>1. after = [n \in 0..Len(calls) |->
                 IF n = 0 THEN [builder |-> b, thrown |-> FALSE]
                 ELSE Called(after[n - 1], calls[n])]
  BY CallingDefined
<1> HIDE DEF after
<1>2. after[0] = [builder |-> b, thrown |-> FALSE]
  BY <1>1
<1>3. ASSUME NEW n \in Nat, n + 1 <= Len(calls)
      PROVE  after[n + 1] = Called(after[n], calls[n + 1])
  <2>1. n + 1 \in 0..Len(calls) /\ n + 1 # 0 /\ (n + 1) - 1 = n
    BY <1>3
  <2>2. after[n + 1] = Called(after[(n + 1) - 1], calls[n + 1])
    BY <1>1, <2>1
  <2>3. QED
    BY <2>1, <2>2
<1>4. QED
  BY <1>2, <1>3 DEF after

\* The jobs of a caller.
IsCalls(calls) ==
  Len(calls) \in Nat /\ \A p \in 1..Len(calls) : IsCall(calls[p])

LEMMA JobCalls ==
  ASSUME NEW c \in Callers, NEW job \in Jobs[c]
  PROVE  IsCalls(job.calls)
BY JobsAssumption DEF IsCalls

LEMMA CalledAllIsQueue ==
  ASSUME NEW b, IsBuilder(b), NEW calls, IsCalls(calls)
  PROVE  IsQueue(CalledAll(b, calls))
<1> DEFINE after == Calling(b, calls)
           S == {n \in Nat : n <= Len(calls) => IsQueue(after[n])}
<1>0. Len(calls) \in Nat
  BY DEF IsCalls
<1>1. 0 \in S
  <2>1. IsQueue([builder |-> b, thrown |-> FALSE])
    BY DEF IsQueue
  <2>2. QED
    BY <1>0, <2>1, CallingSteps
<1>2. ASSUME NEW n \in Nat, n \in S
      PROVE  n + 1 \in S
  <2>1. SUFFICES ASSUME n + 1 <= Len(calls) PROVE IsQueue(after[n + 1])
    OBVIOUS
  <2>2. IsQueue(after[n]) /\ IsCall(calls[n + 1])
    BY <1>0, <1>2, <2>1 DEF IsCalls
  <2>3. after[n + 1] = Called(after[n], calls[n + 1])
    BY <1>0, <2>1, CallingSteps
  <2> HIDE DEF after
  <2>4. QED
    BY <2>2, <2>3, CalledIsQueue
<1> HIDE DEF S
<1>3. \A n \in Nat : n \in S
  BY <1>1, <1>2, Induction
<1>4. IsQueue(after[Len(calls)])
  BY <1>0, <1>3 DEF S
<1>5. QED
  BY <1>4 DEF CalledAll

-----------------------------------------------------------------------------
(* What an allocation asks for.                                            *)

\* Growth satisfies its own recursion equation.
LEMMA GrowthDefined ==
  ASSUME NEW a, NEW size, NEW general, Len(general) \in Nat
  PROVE  Growth(a, size, general) =
           [n \in 0..Len(general) |->
              IF n = 0 THEN [account |-> a, size |-> size, max |-> size]
              ELSE Grown(Growth(a, size, general)[n - 1], general[n])]
<1> DEFINE Steps(f, k) ==
      f = [n \in 0..k |->
             IF n = 0 THEN [account |-> a, size |-> size, max |-> size]
             ELSE Grown(f[n - 1], general[n])]
    S == {k \in Nat : \E f : Steps(f, k)}
<1>1. 0 \in S
  <2>1. Steps([n \in 0..0 |-> [account |-> a, size |-> size, max |-> size]], 0)
    OBVIOUS
  <2>2. QED
    BY <2>1
<1>2. ASSUME NEW k \in Nat, k \in S
      PROVE  k + 1 \in S
  <2>1. PICK f : Steps(f, k)
    BY <1>2
  <2> DEFINE last == Grown(f[k], general[k + 1])
             g == [n \in 0..(k + 1) |-> IF n = k + 1 THEN last ELSE f[n]]
  <2>2. \A n \in 0..k : g[n] = f[n]
    OBVIOUS
  <2>3. g[k + 1] = last
    OBVIOUS
  <2>4. \A n \in 0..(k + 1) : n # 0 => n - 1 \in 0..k
    OBVIOUS
  <2>5. \A n \in 0..k :
          f[n] = IF n = 0 THEN [account |-> a, size |-> size, max |-> size]
                 ELSE Grown(f[n - 1], general[n])
    BY <2>1
  <2>6. Steps(g, k + 1)
    <3>1. SUFFICES ASSUME NEW n \in 0..(k + 1)
                   PROVE  g[n] = IF n = 0 THEN [account |-> a, size |-> size, max |-> size]
                                 ELSE Grown(g[n - 1], general[n])
      OBVIOUS
    <3> HIDE DEF g
    <3>2. CASE n \in 0..k
      BY <2>2, <2>4, <2>5, <3>2
    <3>3. CASE n = k + 1
      <4>1. n # 0 /\ n - 1 = k /\ n - 1 \in 0..k
        BY <3>3
      <4>2. QED
        BY <2>2, <2>3, <3>3, <4>1
    <3>4. QED
      BY <3>2, <3>3
  <2> HIDE DEF g, Steps
  <2>7. QED
    BY <2>6
<1> HIDE DEF S
<1>3. \A k \in Nat : k \in S
  BY <1>1, <1>2, Induction
<1> USE DEF S
<1>4. QED
  BY <1>3 DEF Growth

LEMMA GrowthStart ==
  ASSUME NEW a, NEW size, NEW general, Len(general) \in Nat
  PROVE  Growth(a, size, general)[0] = [account |-> a, size |-> size, max |-> size]
<1> DEFINE after == Growth(a, size, general)
<1>1. after = [n \in 0..Len(general) |->
                 IF n = 0 THEN [account |-> a, size |-> size, max |-> size]
                 ELSE Grown(after[n - 1], general[n])]
  BY GrowthDefined
<1> HIDE DEF after
<1>2. after[0] = [account |-> a, size |-> size, max |-> size]
  BY <1>1
<1>3. QED
  BY <1>2 DEF after

LEMMA GrowthStep ==
  ASSUME NEW a, NEW size, NEW general, Len(general) \in Nat,
         NEW n \in Nat, n + 1 <= Len(general)
  PROVE  Growth(a, size, general)[n + 1] =
           Grown(Growth(a, size, general)[n], general[n + 1])
<1> DEFINE after == Growth(a, size, general)
<1>1. after = [m \in 0..Len(general) |->
                 IF m = 0 THEN [account |-> a, size |-> size, max |-> size]
                 ELSE Grown(after[m - 1], general[m])]
  BY GrowthDefined
<1> HIDE DEF after
<1>2. n + 1 \in 0..Len(general) /\ n + 1 # 0 /\ (n + 1) - 1 = n
  OBVIOUS
<1>3. after[n + 1] = Grown(after[(n + 1) - 1], general[n + 1])
  BY <1>1, <1>2
<1>4. QED
  BY <1>2, <1>3 DEF after

\* A document whose lists are finite, as a helper of sizes follows it.
IsDocument(a) == a \in DidAccounts /\ FiniteLists(a)

LEMMA DocumentSet ==
  ASSUME NEW a, IsDocument(a), NEW l, IsFiniteSet(l)
  PROVE  /\ l \subseteq VerificationMethods =>
              IsDocument([a EXCEPT !.verification_methods = l])
         /\ l \subseteq Services => IsDocument([a EXCEPT !.services = l])
         /\ l \subseteq SolKeys => IsDocument([a EXCEPT !.native_controllers = l])
         /\ l \subseteq OtherDids => IsDocument([a EXCEPT !.other_controllers = l])
BY DEF IsDocument, DidAccounts, FiniteLists

LEMMA SizesAreNumbers ==
  /\ VmSize \in Nat /\ ServiceSize \in Nat /\ OtherSize \in Nat
  /\ \A native, other : IsFiniteSet(native) /\ IsFiniteSet(other) =>
       ControllersSize(native, other) \in Nat
  /\ \A a : FiniteLists(a) => TotalNativeAccountSize(a) \in Nat
<1>1. VmSize \in Nat /\ ServiceSize \in Nat /\ OtherSize \in Nat
  BY SizeAssumption
<1>2. ASSUME NEW native, NEW other, IsFiniteSet(native), IsFiniteSet(other)
      PROVE  ControllersSize(native, other) \in Nat
  <2>1. Cardinality(native) \in Nat /\ Cardinality(other) \in Nat
    BY <1>2, FS_CardinalityType
  <2>2. QED
    BY <1>1, <2>1 DEF ControllersSize
<1>3. ASSUME NEW a, FiniteLists(a)
      PROVE  TotalNativeAccountSize(a) \in Nat
  <2>1. /\ Cardinality(a.verification_methods) \in Nat
        /\ Cardinality(a.services) \in Nat
        /\ Cardinality(a.native_controllers) \in Nat
        /\ Cardinality(a.other_controllers) \in Nat
    BY <1>3, FS_CardinalityType DEF FiniteLists
  <2>2. QED
    BY <1>1, <2>1 DEF TotalNativeAccountSize, INITIAL_MIN_ACCOUNT_SIZE
<1>4. QED
  BY <1>1, <1>2, <1>3

\* What a change callback makes of a document is a document, and of a size an
\* integer.
Followed(c) == IsDocument(c.account) /\ c.size \in Int

LEMMA ChangeFollowed ==
  ASSUME NEW a, IsDocument(a), NEW size \in Int, NEW i \in InstrOf(General)
  PROVE  Followed(Change(a, size, i))
<1> USE DEF Changed, Followed
<1>0. i.name \in General /\ i.arg \in ArgumentsOf(i.name)
  BY InstrOfNames DEF InstructionsOf
<1>a. /\ a.verification_methods \subseteq VerificationMethods
      /\ a.services \subseteq Services
      /\ FiniteLists(a)
  BY DEF IsDocument, DidAccounts
<1>b. /\ VmSize \in Int /\ ServiceSize \in Int
      /\ \A native, other : IsFiniteSet(native) /\ IsFiniteSet(other) =>
           ControllersSize(native, other) \in Int
  BY SizesAreNumbers
<1>c. \A S, f : WithoutFirst(S, f) \subseteq S
  BY DEF WithoutFirst
<1>d. \A S, x : IsFiniteSet(S) => IsFiniteSet(S \cup {x})
  BY FS_AddElement
<1>1. CASE i.name = "add_verification_method"
  <2> DEFINE l == a.verification_methods \cup {i.arg}
  <2>1. l \subseteq VerificationMethods /\ IsFiniteSet(l)
    BY <1>0, <1>1, <1>a, <1>d DEF ArgumentsOf, FiniteLists
  <2>2. Change(a, size, i) =
          [account |-> [a EXCEPT !.verification_methods = l], size |-> size + VmSize]
    BY <1>1 DEF Change, AddVerificationMethodChange
  <2>3. IsDocument([a EXCEPT !.verification_methods = l])
    BY <2>1, DocumentSet
  <2> HIDE DEF l
  <2>4. QED
    BY <1>b, <2>2, <2>3
<1>2. CASE i.name = "remove_verification_method"
  <2> DEFINE l == WithoutFirst(a.verification_methods, i.arg)
             n == IF Fragmented(a.verification_methods, i.arg) = {} THEN size
                  ELSE size - VmSize
  <2>1. l \subseteq VerificationMethods /\ IsFiniteSet(l)
    BY <1>a, <1>c, FS_Subset DEF FiniteLists
  <2>2. Change(a, size, i) =
          [account |-> [a EXCEPT !.verification_methods = l], size |-> n]
    BY <1>2 DEF Change, RemoveVerificationMethodChange
  <2>3. n \in Int
    BY <1>b
  <2>4. IsDocument([a EXCEPT !.verification_methods = l])
    BY <2>1, DocumentSet
  <2> HIDE DEF l, n
  <2>5. QED
    BY <2>2, <2>3, <2>4
<1>3. CASE i.name = "set_vm_flags"
  BY <1>3 DEF Change, SetVmFlagsChange
<1>4. CASE i.name = "add_service"
  <2> DEFINE service == i.arg.service
             kept == WithoutFirst(a.services, service.fragment)
             twice == i.arg.allow_overwrite
                        /\ Fragmented(a.services, service.fragment) # {}
  <2>1. service \in Services
    BY <1>0, <1>4 DEF ArgumentsOf
  <2>2. /\ kept \cup {service} \subseteq Services /\ IsFiniteSet(kept \cup {service})
        /\ a.services \cup {service} \subseteq Services
        /\ IsFiniteSet(a.services \cup {service})
    <3>1. kept \subseteq a.services /\ IsFiniteSet(kept)
      BY <1>a, <1>c, FS_Subset DEF FiniteLists
    <3>2. IsFiniteSet(kept \cup {service}) /\ IsFiniteSet(a.services \cup {service})
      BY <1>a, <1>d, <3>1 DEF FiniteLists
    <3>3. QED
      BY <1>a, <2>1, <3>1, <3>2
  <2>3. Change(a, size, i) =
          IF twice
          THEN [account |-> [a EXCEPT !.services = kept \cup {service}],
                size |-> size]
          ELSE [account |-> [a EXCEPT !.services = a.services \cup {service}],
                size |-> size + ServiceSize]
    BY <1>4 DEF Change, AddServiceChange
  <2>4. /\ IsDocument([a EXCEPT !.services = kept \cup {service}])
        /\ IsDocument([a EXCEPT !.services = a.services \cup {service}])
    BY <2>2, DocumentSet
  <2> HIDE DEF kept, twice, service
  <2>5. QED
    BY <1>b, <2>3, <2>4
<1>5. CASE i.name = "remove_service"
  <2> DEFINE l == WithoutFirst(a.services, i.arg)
             n == IF Fragmented(a.services, i.arg) = {} THEN size
                  ELSE size - ServiceSize
  <2>1. l \subseteq Services /\ IsFiniteSet(l)
    BY <1>a, <1>c, FS_Subset DEF FiniteLists
  <2>2. Change(a, size, i) =
          [account |-> [a EXCEPT !.services = l], size |-> n]
    BY <1>5 DEF Change, RemoveServiceChange
  <2>3. n \in Int
    BY <1>b
  <2>4. IsDocument([a EXCEPT !.services = l])
    BY <2>1, DocumentSet
  <2> HIDE DEF l, n
  <2>5. QED
    BY <2>2, <2>3, <2>4
<1>6. ASSUME NEW native, NEW other, native \subseteq SolKeys, other \subseteq OtherDids,
             IsFiniteSet(native), IsFiniteSet(other),
             NEW d, IsDocument(d), NEW n \in Int
      PROVE  Followed(SetControllersChange(d, n, native, other))
  <2> DEFINE e == [d EXCEPT !.native_controllers = native]
             m == n + ControllersSize(native, other)
                    - ControllersSize(d.native_controllers, d.other_controllers)
  <2>1. IsDocument(e)
    BY <1>6, DocumentSet
  <2>2. IsDocument([e EXCEPT !.other_controllers = other])
    BY <1>6, <2>1, DocumentSet
  <2>3. IsFiniteSet(d.native_controllers) /\ IsFiniteSet(d.other_controllers)
    BY <1>6 DEF IsDocument, FiniteLists
  <2>4. m \in Int
    BY <1>6, <1>b, <2>3
  <2>5. SetControllersChange(d, n, native, other) =
          [account |-> [e EXCEPT !.other_controllers = other], size |-> m]
    BY DEF SetControllersChange
  <2> HIDE DEF e, m
  <2>6. QED
    BY <2>2, <2>4, <2>5
<1>7. CASE i.name = "set_controllers"
  <2>1. /\ i.arg.native_controllers \subseteq SolKeys
        /\ i.arg.other_controllers \subseteq OtherDids
        /\ IsFiniteSet(i.arg.native_controllers)
        /\ IsFiniteSet(i.arg.other_controllers)
    BY <1>0, <1>7 DEF ArgumentsOf, ControllersArgs
  <2>2. Change(a, size, i) =
          SetControllersChange(a, size, i.arg.native_controllers,
                               i.arg.other_controllers)
    BY <1>7 DEF Change
  <2>3. QED
    BY <1>6, <2>1, <2>2
<1>8. CASE i.name = "update"
  <2> DEFINE arg == i.arg
             methods == {m \in arg.verification_methods : m.fragment # DefaultFragment}
             ListsSize(ms, ss) == VmSize * Cardinality(ms) + ServiceSize * Cardinality(ss)
             d == [a EXCEPT !.verification_methods = methods]
             e == [d EXCEPT !.services = arg.services]
             n == size + ListsSize(methods, arg.services)
                    - ListsSize(a.verification_methods, a.services)
  <2>1. arg \in UpdateArgs /\ FiniteLists(arg)
    BY <1>0, <1>8 DEF ArgumentsOf
  <2>2. methods \subseteq VerificationMethods /\ IsFiniteSet(methods)
    BY <2>1, FS_Subset DEF UpdateArgs, FiniteLists
  <2>3. arg.services \subseteq Services /\ IsFiniteSet(arg.services)
    BY <2>1 DEF UpdateArgs, FiniteLists
  <2>4. IsDocument(e)
    <3>1. IsDocument(d)
      BY <2>2, DocumentSet
    <3> HIDE DEF d
    <3>2. QED
      BY <2>3, <3>1, DocumentSet
  <2>5. n \in Int
    <3>1. \A ms, ss : IsFiniteSet(ms) /\ IsFiniteSet(ss) => ListsSize(ms, ss) \in Int
      <4>1. SUFFICES ASSUME NEW ms, NEW ss, IsFiniteSet(ms), IsFiniteSet(ss)
                     PROVE  ListsSize(ms, ss) \in Int
        OBVIOUS
      <4>2. Cardinality(ms) \in Int /\ Cardinality(ss) \in Int
        BY <4>1, FS_CardinalityType
      <4>3. QED
        BY <1>b, <4>2
    <3>2. IsFiniteSet(a.verification_methods) /\ IsFiniteSet(a.services)
      BY <1>a DEF FiniteLists
    <3> HIDE DEF ListsSize, methods
    <3>3. QED
      BY <2>2, <2>3, <3>1, <3>2
  <2>6. Change(a, size, i) =
          SetControllersChange(e, n, arg.native_controllers, arg.other_controllers)
    BY <1>8 DEF Change, UpdateChange
  <2>7. /\ arg.native_controllers \subseteq SolKeys
        /\ arg.other_controllers \subseteq OtherDids
        /\ IsFiniteSet(arg.native_controllers)
        /\ IsFiniteSet(arg.other_controllers)
    BY <2>1 DEF UpdateArgs, FiniteLists
  <2> HIDE DEF arg, n, e
  <2>8. QED
    BY <1>6, <2>4, <2>5, <2>6, <2>7
<1>9. QED
  BY <1>0, <1>1, <1>2, <1>3, <1>4, <1>5, <1>7, <1>8 DEF General, Operation

\* The size that is asked for is a number of bytes.
LEMMA RequiredIsNat ==
  ASSUME NEW a, IsDocument(a), NEW size \in Nat,
         NEW general, general \in Seq(InstrOf(General))
  PROVE  MaxRequiredSize(a, size, general) \in Nat
<1> DEFINE after == Growth(a, size, general)
           Good(g) == Followed(g) /\ g.max \in Nat
           S == {n \in Nat : n <= Len(general) => Good(after[n])}
<1>0. Len(general) \in Nat
  OBVIOUS
<1>1. 0 \in S
  <2>1. after[0] = [account |-> a, size |-> size, max |-> size]
    BY GrowthStart
  <2>2. QED
    BY <2>1 DEF Followed
<1>2. ASSUME NEW n \in Nat, n \in S
      PROVE  n + 1 \in S
  <2>1. SUFFICES ASSUME n + 1 <= Len(general) PROVE Good(after[n + 1])
    OBVIOUS
  <2>2. after[n + 1] = Grown(after[n], general[n + 1])
    BY <1>0, <2>1, GrowthStep
  <2> DEFINE g == after[n]
             next == Change(g.account, g.size, general[n + 1])
  <2>3. Good(g)
    BY <1>2, <2>1
  <2>4. general[n + 1] \in InstrOf(General)
    <3>1. n + 1 \in 1..Len(general)
      BY <2>1
    <3>2. QED
      BY <3>1, ElementOfSeq
  <2> HIDE DEF g
  <2>5. Followed(next)
    BY <2>3, <2>4, ChangeFollowed DEF Followed
  <2>6. Grown(g, general[n + 1]) =
          [account |-> next.account, size |-> next.size,
           max |-> IF next.size > g.max THEN next.size ELSE g.max]
    BY DEF Grown
  <2> HIDE DEF next
  <2>7. (IF next.size > g.max THEN next.size ELSE g.max) \in Nat
    BY <2>3, <2>5 DEF Followed
  <2>8. Good(Grown(g, general[n + 1]))
    BY <2>5, <2>6, <2>7 DEF Followed
  <2>9. QED
    BY <2>2, <2>8 DEF g
<1> HIDE DEF S
<1>3. \A n \in Nat : n \in S
  BY <1>1, <1>2, Induction
<1>4. Good(after[Len(general)])
  BY <1>0, <1>3 DEF S
<1>5. QED
  BY <1>4 DEF MaxRequiredSize

\* The instruction that an allocation adds is one of initialize and resize.
LEMMA AllocatedIsQueue ==
  ASSUME NEW b, IsBuilder(b), NEW read, IsAccount(read)
  PROVE  IsQueue(Allocated(b, read))
<1> DEFINE first == IF read.exists THEN read.data ELSE DefaultAccount
           size == IF read.exists THEN TotalNativeAccountSize(read.data)
                   ELSE INITIAL_MIN_ACCOUNT_SIZE
           required == MaxRequiredSize(first, size, b.general)
           making == [Instruction("initialize", required, Did) EXCEPT !.payer = AllocPayer(b)]
           growing == [Instruction("resize", required, b.resizeAuthority)
                         EXCEPT !.payer = AllocPayer(b)]
<1>1. IsDocument(first)
  <2>1. IsDocument(DefaultAccount)
    <3>1. DefaultAccount \in DidAccounts
      BY DidAssumption, DefaultAssumption, NonceAssumption
         DEF DefaultAccount, InitAccount, DidAccounts, VerificationMethods, KeyData,
             Ed25519VerificationKey2018, CAPABILITY_INVOCATION
    <3>2. FiniteLists(DefaultAccount)
      BY FS_EmptySet DEF FiniteLists, DefaultAccount, InitAccount
    <3>3. QED
      BY <3>1, <3>2 DEF IsDocument
  <2>2. IsDocument(read.data)
    BY DEF IsAccount, IsDocument
  <2>3. QED
    BY <2>1, <2>2
<1>2. size \in Nat
  <2>1. TotalNativeAccountSize(read.data) \in Nat
    BY SizesAreNumbers DEF IsAccount
  <2>2. QED
    BY <2>1 DEF INITIAL_MIN_ACCOUNT_SIZE
<1>3. b.general \in Seq(InstrOf(General))
  BY DEF IsBuilder
<1> HIDE DEF first, size
<1>4. required \in Nat
  BY <1>1, <1>2, <1>3, RequiredIsNat
<1> HIDE DEF required
<1>5. /\ making.name = "initialize" /\ making \in InstructionsOf("initialize")
      /\ growing.name = "resize" /\ growing \in InstructionsOf("resize")
  BY <1>4, DidAssumption
     DEF Instruction, InstructionsOf, ArgumentsOf, IsBuilder, AllocPayer
<1>6. IsQueue([builder |-> b, thrown |-> FALSE])
  BY DEF IsQueue
<1>7. Allocated(b, read) =
        IF ~read.exists THEN Queued(b, making)
        ELSE IF read.space < required THEN Queued(b, growing)
        ELSE [builder |-> b, thrown |-> FALSE]
  BY DEF Allocated, first, size, required
<1> HIDE DEF making, growing
<1>8. IsQueue(Queued(b, making)) /\ IsQueue(Queued(b, growing))
  BY <1>5, <1>6, QueuedOneIsQueue DEF Queued, Operation
<1>9. QED
  BY <1>6, <1>7, <1>8

-----------------------------------------------------------------------------
(* An instance that no caller is using is empty.                           *)

\* The shape of the state, and the invariant: it is inductive as it stands,
\* because clear() resets all fields and everything else that ends a chain
\* marks the instance.
Shape ==
  /\ DOMAIN builder = Instances
  /\ DOMAIN call = Callers
  /\ \A c \in Callers : DOMAIN call[c] = DOMAIN NoCall

EmptyInv == Shape /\ QuietIsEmpty

LEMMA EmptyInit == Init => EmptyInv
BY DEF Init, EmptyInv, Shape, QuietIsEmpty

\* What a step of caller c leaves alone: other instances and other callers.
OnlyOf(c) ==
  /\ Shape'
  /\ \A s \in Instances \ {InstanceOf[c]} :
       builder'[s] = builder[s] /\ (s \in open' <=> s \in open)
  /\ \A d \in Callers \ {c} : call'[d].pc = call[d].pc

\* A step after which its caller is not idle, or its instance is marked, or
\* empty.
LEMMA StepEmpty ==
  ASSUME EmptyInv, NEW c \in Callers, OnlyOf(c),
         \/ call'[c].pc # "idle"
         \/ InstanceOf[c] \in open'
         \/ builder'[InstanceOf[c]] = EmptyBuilder(InstanceOf[c])
  PROVE  EmptyInv'
<1>1. SUFFICES ASSUME NEW s \in Instances, s \notin open', Quiet(s)'
               PROVE  builder'[s] = EmptyBuilder(s)
  BY DEF EmptyInv, OnlyOf, QuietIsEmpty, EmptyBuilder
<1>2. CASE s = InstanceOf[c]
  BY <1>1, <1>2 DEF Quiet
<1>3. CASE s # InstanceOf[c]
  <2>1. builder'[s] = builder[s] /\ s \notin open
    BY <1>1, <1>3 DEF OnlyOf
  <2>2. Quiet(s)
    BY <1>1, <1>3 DEF Quiet, OnlyOf
  <2>3. QED
    BY <2>1, <2>2 DEF EmptyInv, QuietIsEmpty
<1>4. QED
  BY <1>2, <1>3

\* The end of a chain.
LEMMA EndedOnly ==
  ASSUME EmptyInv, NEW c \in Callers, NEW answer, NEW left,
         Ended(c, answer, left),
         open' \in {open \ {InstanceOf[c]}, open \cup {InstanceOf[c]}}
  PROVE  OnlyOf(c) /\ builder'[InstanceOf[c]] = left
BY InstanceAssumption DEF EmptyInv, Shape, Ended, NoCall, OnlyOf

LEMMA SettledEmpty ==
  ASSUME EmptyInv, NEW c \in Callers, NEW answer, Settled(c, answer)
  PROVE  EmptyInv'
BY EndedOnly, StepEmpty DEF Settled, Cleared

LEMMA FailedEmpty ==
  ASSUME EmptyInv, NEW c \in Callers, Failed(c)
  PROVE  EmptyInv'
<1>1. CASE Terminal(c) = "rpc"
  BY <1>1, SettledEmpty DEF Failed
<1>2. CASE Terminal(c) # "rpc"
  BY <1>2, EndedOnly, StepEmpty DEF Failed
<1>3. QED
  BY <1>1, <1>2

LEMMA StartEmpty ==
  ASSUME EmptyInv, NEW c \in Callers, StartCall(c)
  PROVE  EmptyInv'
<1> DEFINE s == InstanceOf[c]
<1>1. PICK job \in Jobs[c] :
        LET q == CalledAll(builder[s], job.calls)
            pc == IF q.builder.payer # {} /\ q.builder.general # <<>>
                  THEN "alloc" ELSE "chain"
            started == [NoCall EXCEPT
                          !.pc = IF q.thrown THEN "idle" ELSE pc,
                          !.n = call[c].n + 1,
                          !.job = {job},
                          !.wallet = {q.builder.wallet},
                          !.alone = s \notin open /\ Quiet(s),
                          !.answer = IF q.thrown THEN "failed" ELSE @]
        IN /\ builder' = [builder EXCEPT ![s] = q.builder]
           /\ call' = [d \in Callers |->
                         IF d = c THEN started
                         ELSE IF d \in Disturbed(c)
                         THEN [call[d] EXCEPT !.alone = FALSE]
                         ELSE call[d]]
           /\ open' = IF q.thrown THEN open \cup {s} ELSE open
  BY DEF StartCall
<1> DEFINE q == CalledAll(builder[s], job.calls)
<1> HIDE DEF q
<1>2. /\ call'[c].pc = IF q.thrown THEN "idle"
                       ELSE IF q.builder.payer # {} /\ q.builder.general # <<>>
                       THEN "alloc" ELSE "chain"
      /\ DOMAIN call'[c] = DOMAIN NoCall
  BY <1>1 DEF q, EmptyInv, Shape, NoCall
<1>3. open' = IF q.thrown THEN open \cup {s} ELSE open
  BY <1>1 DEF q
<1>4. OnlyOf(c)
  <2>1. DOMAIN call' = Callers /\ DOMAIN builder' = Instances
    BY <1>1 DEF EmptyInv, Shape
  <2>2. \A d \in Callers \ {c} :
          DOMAIN call'[d] = DOMAIN call[d] /\ call'[d].pc = call[d].pc
    BY <1>1 DEF EmptyInv, Shape, NoCall
  <2>3. Shape'
    BY <1>2, <2>1, <2>2 DEF EmptyInv, Shape, NoCall
  <2>4. \A r \in Instances \ {s} : builder'[r] = builder[r]
    BY <1>1 DEF EmptyInv, Shape
  <2>5. QED
    BY <1>3, <2>2, <2>3, <2>4, InstanceAssumption DEF OnlyOf
<1>5. q.thrown \/ call'[c].pc # "idle"
  BY <1>2
<1>6. QED
  BY <1>3, <1>4, <1>5, StepEmpty

\* A step that changes nothing but the call and the builder of an instance.
LEMMA ChainEmpty ==
  ASSUME EmptyInv, NEW c \in Callers, Chain(c) \/ ReadNonce(c) \/ Send(c)
  PROVE  EmptyInv'
<1>1. OnlyOf(c)
  <2>1. CASE Chain(c)
    BY <2>1, InstanceAssumption DEF Chain, EmptyInv, Shape, OnlyOf
  <2>2. CASE ReadNonce(c)
    BY <2>2, InstanceAssumption DEF ReadNonce, EmptyInv, Shape, OnlyOf
  <2>3. CASE Send(c)
    BY <2>3, InstanceAssumption DEF Send, EmptyInv, Shape, OnlyOf
  <2>4. QED
    BY <2>1, <2>2, <2>3
<1>2. call'[c].pc # "idle"
  <2>1. CASE Chain(c)
    BY <2>1 DEF Chain, EmptyInv, Shape, NoCall
  <2>2. CASE ReadNonce(c)
    BY <2>2 DEF ReadNonce, EmptyInv, Shape, NoCall
  <2>3. CASE Send(c)
    BY <2>3 DEF Send, EmptyInv, Shape, NoCall
  <2>4. QED
    BY <2>1, <2>2, <2>3
<1>3. QED
  BY <1>1, <1>2, StepEmpty

LEMMA ReadAccountEmpty ==
  ASSUME EmptyInv, NEW c \in Callers, ReadAccount(c)
  PROVE  EmptyInv'
<1> DEFINE q == Allocated(builder[InstanceOf[c]], account)
<1> HIDE DEF q
<1>1. CASE q.thrown
  BY <1>1, FailedEmpty DEF ReadAccount, q
<1>2. CASE ~q.thrown
  <2>1. /\ builder' = [builder EXCEPT ![InstanceOf[c]] = q.builder]
        /\ call' = [call EXCEPT ![c].pc = "nonce",
                                ![c].seen = {account},
                                ![c].chain = InstructionChain(q.builder)]
        /\ UNCHANGED open
    BY <1>2 DEF ReadAccount, q
  <2>2. OnlyOf(c)
    BY <2>1, InstanceAssumption DEF EmptyInv, Shape, NoCall, OnlyOf
  <2>3. call'[c].pc # "idle"
    BY <2>1 DEF EmptyInv, Shape, NoCall
  <2>4. QED
    BY <2>2, <2>3, StepEmpty
<1>3. QED
  BY <1>1, <1>2

LEMMA ReturnEmpty ==
  ASSUME EmptyInv, NEW c \in Callers, Return(c)
  PROVE  EmptyInv'
BY EndedOnly, StepEmpty DEF Return

LEMMA LandEmpty ==
  ASSUME EmptyInv, NEW t \in pool, Land(t) \/ Expire(t)
  PROVE  EmptyInv'
<1>1. UNCHANGED <<builder, open>>
  BY DEF Land, Expire
<1>2. DOMAIN call' = Callers
  BY DEF Land, Expire, EmptyInv, Shape
<1>3. \A c \in Callers : DOMAIN call'[c] = DOMAIN NoCall /\ call'[c].pc = call[c].pc
  BY DEF Land, Expire, EmptyInv, Shape, NoCall
<1>4. Shape'
  BY <1>1, <1>2, <1>3 DEF EmptyInv, Shape
<1>5. QuietIsEmpty'
  BY <1>1, <1>3 DEF EmptyInv, QuietIsEmpty, Quiet, EmptyBuilder
<1>6. QED
  BY <1>4, <1>5 DEF EmptyInv

LEMMA EmptyStep == EmptyInv /\ [Next]_vars => EmptyInv'
<1> SUFFICES ASSUME EmptyInv, [Next]_vars
             PROVE  EmptyInv'
  OBVIOUS
<1>1. ASSUME NEW c \in Callers, StartCall(c)
      PROVE  EmptyInv'
  BY <1>1, StartEmpty
<1>2. ASSUME NEW c \in Callers, Proceed(c)
      PROVE  EmptyInv'
  <2>1. CASE ReadAccount(c)
    BY <2>1, ReadAccountEmpty
  <2>2. CASE Chain(c) \/ ReadNonce(c) \/ Send(c)
    BY <2>2, ChainEmpty
  <2>3. CASE Reject(c)
    BY <2>3, FailedEmpty DEF Reject
  <2>4. CASE CannotSign(c) \/ GiveUp(c) \/ Confirm(c)
    BY <2>4, SettledEmpty DEF CannotSign, GiveUp, Confirm
  <2>5. CASE Return(c)
    BY <2>5, ReturnEmpty
  <2>6. QED
    BY <1>2, <2>1, <2>2, <2>3, <2>4, <2>5 DEF Proceed
<1>3. ASSUME NEW t \in pool, Land(t) \/ Expire(t)
      PROVE  EmptyInv'
  BY <1>3, LandEmpty
<1>4. CASE UNCHANGED vars
  BY <1>4 DEF vars, EmptyInv, Shape, QuietIsEmpty, Quiet, EmptyBuilder
<1>5. QED
  BY <1>1, <1>2, <1>3, <1>4 DEF Next

\* However many callers share an instance, and however their chains fail, time
\* out or end: when none is under way, nothing of them is left in the instance,
\* unless the last one ended without rpc().
THEOREM InstancesEndEmpty == Spec => []QuietIsEmpty
<1>1. Init /\ [][Next]_vars => []EmptyInv
  BY EmptyInit, EmptyStep, PTL
<1>2. EmptyInv => QuietIsEmpty
  BY DEF EmptyInv
<1>3. QED
  BY <1>1, <1>2, PTL DEF Spec

-----------------------------------------------------------------------------
(* The instructions of a transaction.                                      *)

ChainNames == Operation \cup {"migrate"}

\* A chain before it is signed: only its first instruction makes an account.
Chained(chain) ==
  /\ chain \in Seq(InstrOf(ChainNames))
  /\ \A p \in 1..Len(chain) : chain[p].name \in Making => p = 1

\* The first signature of a chain on an account that exists has its lowest nonce.
SignedInOrder(chain) ==
  \A p \in 1..Len(chain) : \A s \in chain[p].eth :
    /\ s.nonce \in Nat
    /\ \/ chain[1].name \in Making
       \/ /\ chain[1].name # "close_legacy"
          /\ \A first \in chain[1].eth : first.nonce <= s.nonce

Sendable(chain) ==
  /\ DOMAIN chain = 1..Len(chain)
  /\ TypedChain(chain) /\ OrderedChain(chain) /\ SignedInOrder(chain)

LEMMA ChainLonger ==
  ASSUME NEW chain, Chained(chain),
         NEW names, names \subseteq ChainNames \ Making, NEW l \in Seq(InstrOf(names))
  PROVE  Chained(chain \o l)
<1>1. l \in Seq(InstrOf(ChainNames))
  <2>1. InstrOf(names) \subseteq InstrOf(ChainNames)
    BY DEF InstrOf
  <2>2. QED
    BY <2>1, SeqMonotonic
<1>2. chain \in Seq(InstrOf(ChainNames))
  BY DEF Chained
<1>3. /\ chain \o l \in Seq(InstrOf(ChainNames))
      /\ Len(chain \o l) = Len(chain) + Len(l)
      /\ \A p \in 1..(Len(chain) + Len(l)) :
           (chain \o l)[p] = IF p <= Len(chain) THEN chain[p] ELSE l[p - Len(chain)]
  BY <1>1, <1>2, ConcatProperties
<1>4. ASSUME NEW p \in 1..Len(chain \o l), (chain \o l)[p].name \in Making
      PROVE  p = 1
  <2>0. Len(chain) \in Nat /\ Len(l) \in Nat
    BY <1>1, <1>2
  <2>1. CASE p <= Len(chain)
    BY <1>3, <1>4, <2>0, <2>1 DEF Chained
  <2>2. CASE p > Len(chain)
    <3>1. p - Len(chain) \in 1..Len(l)
      BY <1>3, <2>0, <2>2
    <3>2. l[p - Len(chain)].name \in names
      BY <3>1, ElementOfSeq, InstrOfNames
    <3>3. (chain \o l)[p] = l[p - Len(chain)]
      BY <1>3, <2>0, <2>2
    <3>4. QED
      BY <1>4, <3>2, <3>3
  <2>3. QED
    BY <1>3, <2>0, <2>1, <2>2
<1>5. QED
  BY <1>3, <1>4 DEF Chained

LEMMA InstructionChained ==
  ASSUME NEW b, IsBuilder(b)
  PROVE  Chained(InstructionChain(b))
<1>1. /\ b.init \in Seq(InstrOf(Making)) /\ Len(b.init) <= 1
      /\ b.resize \in Seq(InstrOf({"resize"}))
      /\ b.general \in Seq(InstrOf(General))
      /\ b.close \in Seq(InstrOf({"close"}))
  BY DEF IsBuilder
<1>2. Chained(b.init)
  <2>1. InstrOf(Making) \subseteq InstrOf(ChainNames)
    BY DEF InstrOf, Making, ChainNames, Operation
  <2>2. b.init \in Seq(InstrOf(ChainNames))
    BY <1>1, <2>1, SeqMonotonic
  <2>3. Len(b.init) \in Nat
    BY <2>2
  <2>4. QED
    BY <1>1, <2>2, <2>3 DEF Chained
<1>3. /\ {"resize"} \subseteq ChainNames \ Making
      /\ General \subseteq ChainNames \ Making
      /\ {"close"} \subseteq ChainNames \ Making
  BY DEF ChainNames, Making, General, Operation
<1>4. Chained(b.init \o b.resize)
  BY <1>1, <1>2, <1>3, ChainLonger
<1>5. Chained(b.init \o b.resize \o b.general)
  BY <1>1, <1>3, <1>4, ChainLonger
<1>6. Chained(b.init \o b.resize \o b.general \o b.close)
  BY <1>1, <1>3, <1>5, ChainLonger
<1>7. QED
  BY <1>6 DEF InstructionChain

LEMMA SignedSendable ==
  ASSUME NEW chain, Chained(chain), NEW signer, NEW nonce \in Nat,
         NEW post \in Seq(InstrOf({"close_legacy"}))
  PROVE  Sendable(Signed(chain, signer, nonce) \o post)
<1> DEFINE N == Len(chain)
           NonceAt(p) == nonce + Cardinality({q \in 1..(p - 1) : Signable(chain[q])})
           signed == Signed(chain, signer, nonce)
           whole == signed \o post
           X == {signed[p] : p \in 1..N} \cup InstrOf({"close_legacy"})
<1>1. N \in Nat /\ DOMAIN chain = 1..N
  BY DEF Chained
<1>2. \A p \in 1..N : chain[p] \in InstrOf(ChainNames)
  BY ElementOfSeq DEF Chained
<1>3. \A p \in 1..N : NonceAt(p) \in Nat
  <2>1. SUFFICES ASSUME NEW p \in 1..N PROVE NonceAt(p) \in Nat
    OBVIOUS
  <2> DEFINE before == {q \in 1..(p - 1) : Signable(chain[q])}
  <2>2. IsFiniteSet(1..(p - 1))
    BY <1>1, FS_Interval
  <2>3. IsFiniteSet(before)
    BY <2>2, FS_Subset
  <2>4. Cardinality(before) \in Nat
    BY <2>3, FS_CardinalityType
  <2>5. QED
    BY <2>4
<1>4. NonceAt(1) = nonce
  <2>1. {q \in 1..(1 - 1) : Signable(chain[q])} = {}
    OBVIOUS
  <2>2. QED
    BY <2>1, FS_EmptySet
<1>5. \A p \in 1..N :
        signed[p] =
          IF Signable(chain[p])
          THEN [chain[p] EXCEPT !.eth =
                  {[key |-> k, message |-> chain[p].arg, nonce |-> NonceAt(p)] : k \in signer}]
          ELSE chain[p]
  BY <1>1 DEF Signed
<1>6. signed \in [1..N -> X]
  BY <1>1 DEF Signed
<1> HIDE DEF NonceAt, signed, X
<1>7. \A p \in 1..N :
        /\ signed[p].name = chain[p].name /\ signed[p].arg = chain[p].arg
        /\ ~Signable(chain[p]) => signed[p].eth = {}
        /\ \A s \in signed[p].eth : s.nonce = NonceAt(p)
  <2>1. SUFFICES ASSUME NEW p \in 1..N
                 PROVE  /\ signed[p].name = chain[p].name /\ signed[p].arg = chain[p].arg
                        /\ ~Signable(chain[p]) => signed[p].eth = {}
                        /\ \A s \in signed[p].eth : s.nonce = NonceAt(p)
    OBVIOUS
  <2>2. chain[p] \in InstructionsOf(chain[p].name)
    BY <1>2, InstrOfNames
  <2>3. CASE Signable(chain[p])
    <3> DEFINE made == {[key |-> k, message |-> chain[p].arg, nonce |-> NonceAt(p)] :
                          k \in signer}
    <3>1. signed[p] = [chain[p] EXCEPT !.eth = made]
      BY <1>5, <2>3
    <3>2. \A s \in made : s.nonce = NonceAt(p)
      OBVIOUS
    <3> HIDE DEF made
    <3>3. /\ signed[p].name = chain[p].name /\ signed[p].arg = chain[p].arg
          /\ signed[p].eth = made
      BY <2>2, <3>1 DEF InstructionsOf
    <3>4. QED
      BY <2>3, <3>2, <3>3
  <2>4. CASE ~Signable(chain[p])
    BY <1>5, <2>2, <2>4 DEF InstructionsOf
  <2>5. QED
    BY <2>3, <2>4
<1>8. signed \in Seq(X) /\ Len(signed) = N /\ post \in Seq(X)
  <2>1. signed \in Seq(X) /\ Len(signed) = N
    BY <1>1, <1>6
  <2>2. post \in Seq(X)
    BY SeqMonotonic DEF X
  <2>3. QED
    BY <2>1, <2>2
<1>9. /\ Len(whole) = N + Len(post) /\ Len(post) \in Nat
      /\ DOMAIN whole = 1..Len(whole)
      /\ \A p \in 1..(N + Len(post)) :
           whole[p] = IF p <= N THEN signed[p] ELSE post[p - N]
  <2>1. /\ whole \in Seq(X) /\ Len(whole) = N + Len(post)
        /\ \A p \in 1..(N + Len(post)) :
             whole[p] = IF p <= N THEN signed[p] ELSE post[p - N]
    <3>1. /\ whole \in Seq(X) /\ Len(whole) = Len(signed) + Len(post)
          /\ \A p \in 1..(Len(signed) + Len(post)) :
               whole[p] = IF p <= Len(signed) THEN signed[p] ELSE post[p - Len(signed)]
      BY <1>8, ConcatProperties
    <3> HIDE DEF whole
    <3>2. QED
      BY <1>8, <3>1
  <2>2. Len(post) \in Nat
    BY <1>8, LenProperties
  <2> HIDE DEF whole
  <2>3. DOMAIN whole = 1..Len(whole)
    BY <2>1, LenProperties
  <2>4. QED
    BY <2>1, <2>2, <2>3
<1> HIDE DEF whole
\* An instruction of the whole is a signed one or a closing one.
<1>10. \A p \in 1..Len(whole) :
         \/ p \in 1..N /\ whole[p] = signed[p]
         \/ /\ p > N /\ whole[p].name = "close_legacy" /\ whole[p].eth = {}
            /\ whole[p].arg \in ArgumentsOf("close_legacy")
  <2>1. SUFFICES ASSUME NEW p \in 1..Len(whole), p \notin 1..N
                 PROVE  /\ p > N /\ whole[p].name = "close_legacy" /\ whole[p].eth = {}
                        /\ whole[p].arg \in ArgumentsOf("close_legacy")
    BY <1>1, <1>9
  <2>2. p > N /\ p - N \in 1..Len(post) /\ whole[p] = post[p - N]
    BY <1>1, <1>9, <2>1
  <2>3. whole[p] \in InstrOf({"close_legacy"})
    BY <2>2, ElementOfSeq
  <2>4. QED
    BY <2>2, <2>3 DEF InstrOf, InstructionsOf
<1>11. TypedChain(whole)
  <2>1. ASSUME NEW p \in 1..N
        PROVE  Typed(signed[p])
    <3>1. chain[p].name \in ChainNames /\ chain[p] \in InstructionsOf(chain[p].name)
      BY <1>2, InstrOfNames
    <3>2. QED
      BY <1>7, <3>1 DEF Typed, InstructionsOf, InstructionNames, Modifying,
                        ChainNames, Operation
  <2>2. Len(whole) \in Nat
    BY <1>1, <1>9
  <2>3. QED
    BY <1>10, <2>1, <2>2 DEF TypedChain, Typed, InstructionNames
<1>12. OrderedChain(whole)
  BY <1>7, <1>10 DEF OrderedChain, Chained, Making, Signable
<1>13. SignedInOrder(whole)
  <2>1. SUFFICES ASSUME NEW p \in 1..Len(whole), NEW s \in whole[p].eth
                 PROVE  /\ s.nonce \in Nat
                        /\ \/ whole[1].name \in Making
                           \/ /\ whole[1].name # "close_legacy"
                              /\ \A first \in whole[1].eth : first.nonce <= s.nonce
    BY DEF SignedInOrder
  <2>2. p \in 1..N /\ s \in signed[p].eth
    BY <1>10, <2>1
  <2>3. s.nonce = NonceAt(p) /\ NonceAt(p) \in Nat /\ nonce <= NonceAt(p)
    <3>1. Cardinality({q \in 1..(p - 1) : Signable(chain[q])}) \in Nat
      <4>1. IsFiniteSet(1..(p - 1))
        BY <1>1, <2>2, FS_Interval
      <4>2. QED
        BY <4>1, FS_Subset, FS_CardinalityType
    <3>2. QED
      BY <1>3, <1>7, <2>2, <3>1 DEF NonceAt
  <2>4. 1 \in 1..N /\ 1 \in 1..Len(whole) /\ whole[1] = signed[1]
    BY <1>1, <1>9, <2>2
  <2>5. \A first \in whole[1].eth : first.nonce = nonce
    BY <1>4, <1>7, <2>4
  <2>6. whole[1].name # "close_legacy"
    <3>1. chain[1].name \in ChainNames
      BY <1>2, <2>4, InstrOfNames
    <3>2. signed[1].name = chain[1].name
      BY <1>7, <2>4
    <3>3. QED
      BY <2>4, <3>1, <3>2 DEF ChainNames, Operation
  <2>7. QED
    BY <2>3, <2>5, <2>6
<1>14. QED
  BY <1>9, <1>11, <1>12, <1>13 DEF Sendable, whole, signed

-----------------------------------------------------------------------------
(* The invariant behind the types and the nonces.                          *)

Pcs == {"idle", "alloc", "chain", "nonce", "sign", "sent"}
Answers == {"none", "ok", "failed", "unsigned", "unknown"}

CallTyped(k) ==
  /\ k.pc \in Pcs /\ k.answer \in Answers
  /\ k.pc = "nonce" => Chained(k.chain)
  /\ k.pc = "sign" => Sendable(k.chain)

\* The spent nonces are below that of the account, if there is one.
SpentBelow ==
  /\ spent \subseteq Nat
  /\ account.exists => \A n \in spent : n < account.data.nonce
  /\ ~account.exists => spent = {}

SafeInv ==
  /\ EmptyInv
  /\ IsAccount(account)
  /\ \A s \in Instances : IsBuilder(builder[s])
  /\ \A c \in Callers : CallTyped(call[c])
  /\ \A t \in pool : Sendable(t.chain)
  /\ SpentBelow
  /\ open \subseteq Instances

LEMMA SafeInit == Init => SafeInv
<1> SUFFICES ASSUME Init PROVE SafeInv
  OBVIOUS
<1>1. EmptyInv
  BY EmptyInit
<1>2. IsAccount(account)
  BY AccountsAssumption DEF Init
<1>3. \A s \in Instances : IsBuilder(builder[s])
  BY EmptyIsBuilder DEF Init
<1>4. \A c \in Callers : CallTyped(call[c])
  BY DEF Init, NoCall, CallTyped, Pcs, Answers
<1>5. QED
  BY <1>1, <1>2, <1>3, <1>4 DEF Init, SafeInv, SpentBelow

\* A step of one caller, which leaves the account alone.
LEMMA CallerSafe ==
  ASSUME SafeInv, [Next]_vars, NEW c \in Callers,
         UNCHANGED <<account, spent>>, open' \subseteq open \cup {InstanceOf[c]},
         IsBuilder(builder[InstanceOf[c]])',
         \A s \in Instances \ {InstanceOf[c]} : builder'[s] = builder[s],
         \A d \in Callers : CallTyped(call[d])',
         \A t \in pool' \ pool : Sendable(t.chain)
  PROVE  SafeInv'
<1>1. EmptyInv'
  BY EmptyStep DEF SafeInv
<1>2. \A s \in Instances : IsBuilder(builder[s])'
  BY DEF SafeInv
<1>3. \A t \in pool' : Sendable(t.chain)
  BY DEF SafeInv
<1>4. open' \subseteq Instances
  BY InstanceAssumption DEF SafeInv
<1>5. IsAccount(account)' /\ SpentBelow'
  BY DEF SafeInv, SpentBelow
<1>6. QED
  BY <1>1, <1>2, <1>3, <1>4, <1>5 DEF SafeInv

LEMMA EndedSafe ==
  ASSUME SafeInv, [Next]_vars, NEW c \in Callers, NEW answer \in Answers,
         NEW left, IsBuilder(left), Ended(c, answer, left),
         UNCHANGED <<account, spent>>, open' \subseteq open \cup {InstanceOf[c]},
         \A t \in pool' \ pool : Sendable(t.chain)
  PROVE  SafeInv'
<1>0. Shape
  BY DEF SafeInv, EmptyInv
<1>1. builder' = [builder EXCEPT ![InstanceOf[c]] = left]
  BY DEF Ended
<1>2. /\ builder'[InstanceOf[c]] = left
      /\ \A s \in Instances \ {InstanceOf[c]} : builder'[s] = builder[s]
  BY <1>0, <1>1, InstanceAssumption DEF Shape
<1>3. ASSUME NEW d \in Callers
      PROVE  CallTyped(call[d])'
  <2>1. CASE d = c
    <3>1. call'[c].pc = "idle" /\ call'[c].answer = answer
      BY <1>0 DEF Ended, Shape, NoCall
    <3>2. QED
      BY <2>1, <3>1 DEF CallTyped, Pcs
  <2>2. CASE d # c
    <3>1. call'[d] = call[d]
      BY <1>0, <2>2 DEF Ended, Shape
    <3>2. QED
      BY <3>1 DEF SafeInv
  <2>3. QED
    BY <2>1, <2>2
<1>4. QED
  BY <1>2, <1>3, CallerSafe

LEMMA SettledSafe ==
  ASSUME SafeInv, [Next]_vars, NEW c \in Callers, NEW answer \in Answers,
         Settled(c, answer)
  PROVE  SafeInv'
<1>1. IsBuilder(Cleared(InstanceOf[c], builder[InstanceOf[c]]))
  BY EmptyIsBuilder, InstanceAssumption DEF Cleared
<1>2. QED
  BY <1>1, EndedSafe DEF Settled

LEMMA FailedSafe ==
  ASSUME SafeInv, [Next]_vars, NEW c \in Callers, Failed(c)
  PROVE  SafeInv'
<1>0. "failed" \in Answers
  BY DEF Answers
<1>1. CASE Terminal(c) = "rpc"
  BY <1>0, <1>1, SettledSafe DEF Failed
<1>2. CASE Terminal(c) # "rpc"
  <2>1. IsBuilder(builder[InstanceOf[c]])
    BY InstanceAssumption DEF SafeInv
  <2>2. QED
    BY <1>0, <1>2, <2>1, EndedSafe DEF Failed
<1>3. QED
  BY <1>1, <1>2

LEMMA StartSafe ==
  ASSUME SafeInv, [Next]_vars, NEW c \in Callers, StartCall(c)
  PROVE  SafeInv'
<1> DEFINE s == InstanceOf[c]
<1>1. PICK job \in Jobs[c] :
        LET q == CalledAll(builder[s], job.calls)
            pc == IF q.builder.payer # {} /\ q.builder.general # <<>>
                  THEN "alloc" ELSE "chain"
            started == [NoCall EXCEPT
                          !.pc = IF q.thrown THEN "idle" ELSE pc,
                          !.n = call[c].n + 1,
                          !.job = {job},
                          !.wallet = {q.builder.wallet},
                          !.alone = s \notin open /\ Quiet(s),
                          !.answer = IF q.thrown THEN "failed" ELSE @]
        IN /\ builder' = [builder EXCEPT ![s] = q.builder]
           /\ call' = [d \in Callers |->
                         IF d = c THEN started
                         ELSE IF d \in Disturbed(c)
                         THEN [call[d] EXCEPT !.alone = FALSE]
                         ELSE call[d]]
           /\ open' = IF q.thrown THEN open \cup {s} ELSE open
  BY DEF StartCall
<1> DEFINE q == CalledAll(builder[s], job.calls)
<1>2. IsQueue(q)
  BY CalledAllIsQueue, JobCalls, InstanceAssumption DEF SafeInv
<1> HIDE DEF q
<1>3. /\ builder' = [builder EXCEPT ![s] = q.builder]
      /\ call'[c].pc \in {"idle", "alloc", "chain"}
      /\ call'[c].answer \in {"failed", "none"}
      /\ \A d \in Callers \ {c} :
           call'[d] = call[d] \/ call'[d] = [call[d] EXCEPT !.alone = FALSE]
      /\ open' \subseteq open \cup {s}
  BY <1>1 DEF q, NoCall
<1>4. Shape
  BY DEF SafeInv, EmptyInv
<1>5. IsBuilder(builder[s])' /\ \A r \in Instances \ {s} : builder'[r] = builder[r]
  BY <1>2, <1>3, <1>4, InstanceAssumption DEF Shape, IsQueue
<1>6. ASSUME NEW d \in Callers
      PROVE  CallTyped(call[d])'
  <2>1. CASE d = c
    BY <1>3, <2>1 DEF CallTyped, Pcs, Answers
  <2>2. CASE d # c
    <3>1. {"pc", "answer", "chain"} \subseteq DOMAIN call[d] \ {"alone"}
      BY <1>4 DEF Shape, NoCall
    <3>2. call'[d] = call[d] \/ call'[d] = [call[d] EXCEPT !.alone = FALSE]
      BY <1>3, <2>2
    <3>3. /\ call'[d].pc = call[d].pc /\ call'[d].answer = call[d].answer
          /\ call'[d].chain = call[d].chain
      BY <3>1, <3>2
    <3>4. QED
      BY <3>3 DEF SafeInv, CallTyped
  <2>3. QED
    BY <2>1, <2>2
<1>7. UNCHANGED <<account, pool, spent>>
  BY DEF StartCall
<1>8. QED
  BY <1>3, <1>5, <1>6, <1>7, CallerSafe

\* A caller that goes on within a chain; its instance keeps its type.
LEMMA GoneOnSafe ==
  ASSUME SafeInv, [Next]_vars, NEW c \in Callers,
         UNCHANGED <<account, spent, open>>,
         IsBuilder(builder[InstanceOf[c]])',
         \A s \in Instances \ {InstanceOf[c]} : builder'[s] = builder[s],
         CallTyped(call[c])', \A d \in Callers \ {c} : call'[d] = call[d],
         \A t \in pool' \ pool : Sendable(t.chain)
  PROVE  SafeInv'
<1>1. \A d \in Callers : CallTyped(call[d])'
  BY DEF SafeInv
<1>2. QED
  BY <1>1, CallerSafe

LEMMA ReadAccountSafe ==
  ASSUME SafeInv, [Next]_vars, NEW c \in Callers, ReadAccount(c)
  PROVE  SafeInv'
<1> DEFINE q == Allocated(builder[InstanceOf[c]], account)
<1>1. IsQueue(q)
  BY AllocatedIsQueue, InstanceAssumption DEF SafeInv
<1> HIDE DEF q
<1>2. CASE q.thrown
  BY <1>2, FailedSafe DEF ReadAccount, q
<1>3. CASE ~q.thrown
  <2>1. /\ builder' = [builder EXCEPT ![InstanceOf[c]] = q.builder]
        /\ call' = [call EXCEPT ![c].pc = "nonce",
                                ![c].seen = {account},
                                ![c].chain = InstructionChain(q.builder)]
        /\ UNCHANGED <<account, pool, spent, open>>
    BY <1>3 DEF ReadAccount, q
  <2>2. IsBuilder(q.builder) /\ Chained(InstructionChain(q.builder))
    BY <1>1, InstructionChained DEF IsQueue
  <2>3. Shape /\ CallTyped(call[c])
    BY DEF SafeInv, EmptyInv
  <2>4. /\ call'[c].pc = "nonce" /\ call'[c].answer = call[c].answer
        /\ call'[c].chain = InstructionChain(q.builder)
        /\ \A d \in Callers \ {c} : call'[d] = call[d]
    BY <2>1, <2>3 DEF Shape, NoCall
  <2>5. CallTyped(call[c])'
    BY <2>2, <2>3, <2>4 DEF CallTyped, Pcs
  <2>6. /\ IsBuilder(builder[InstanceOf[c]])'
        /\ \A s \in Instances \ {InstanceOf[c]} : builder'[s] = builder[s]
    BY <2>1, <2>2, <2>3, InstanceAssumption DEF Shape
  <2>7. QED
    BY <2>1, <2>4, <2>5, <2>6, GoneOnSafe
<1>4. QED
  BY <1>2, <1>3

LEMMA ChainSafe ==
  ASSUME SafeInv, [Next]_vars, NEW c \in Callers, Chain(c)
  PROVE  SafeInv'
<1> DEFINE b == builder[InstanceOf[c]]
<1>1. IsBuilder(b) /\ Chained(InstructionChain(b))
  BY InstructionChained, InstanceAssumption DEF SafeInv
<1>2. Shape /\ CallTyped(call[c])
  BY DEF SafeInv, EmptyInv
<1>3. UNCHANGED builder
  BY DEF Chain
<1>4. /\ call'[c].pc = "nonce" /\ call'[c].answer = call[c].answer
      /\ call'[c].chain = InstructionChain(b)
      /\ \A d \in Callers \ {c} : call'[d] = call[d]
  BY <1>2 DEF Chain, Shape, NoCall
<1>5. CallTyped(call[c])'
  BY <1>1, <1>2, <1>4 DEF CallTyped, Pcs
<1>6. QED
  BY <1>1, <1>3, <1>4, <1>5, GoneOnSafe DEF Chain

LEMMA ReadNonceSafe ==
  ASSUME SafeInv, [Next]_vars, NEW c \in Callers, ReadNonce(c)
  PROVE  SafeInv'
<1> DEFINE b == builder[InstanceOf[c]]
           nonce == IF account.exists THEN account.data.nonce ELSE 0
           chain == Signed(call[c].chain, b.ethSigner, nonce) \o b.post
<1>1. IsBuilder(b)
  BY InstanceAssumption DEF SafeInv
<1>2. Shape /\ CallTyped(call[c])
  BY DEF SafeInv, EmptyInv
<1>3. nonce \in Nat
  BY NonceAssumption DEF SafeInv, IsAccount, DidAccounts
<1>4. b.post \in Seq(InstrOf({"close_legacy"})) /\ Chained(call[c].chain)
  BY <1>1, <1>2 DEF IsBuilder, CallTyped, ReadNonce
<1>5. Sendable(chain)
  BY <1>3, <1>4, SignedSendable
<1>6. UNCHANGED builder
  BY DEF ReadNonce
<1>7. /\ call'[c].pc = "sign" /\ call'[c].answer = call[c].answer
      /\ call'[c].chain = chain
      /\ \A d \in Callers \ {c} : call'[d] = call[d]
  BY <1>2 DEF ReadNonce, Shape, NoCall
<1> HIDE DEF chain
<1>8. CallTyped(call[c])'
  BY <1>2, <1>5, <1>7 DEF CallTyped, Pcs
<1>9. QED
  BY <1>1, <1>6, <1>7, <1>8, GoneOnSafe DEF ReadNonce

LEMMA EmptiedIsBuilder ==
  ASSUME NEW b, IsBuilder(b)
  PROVE  IsBuilder(Emptied(b))
<1> DEFINE b1 == [b EXCEPT !.init = <<>>]
           b2 == [b1 EXCEPT !.resize = <<>>]
           b3 == [b2 EXCEPT !.general = <<>>]
           b4 == [b3 EXCEPT !.close = <<>>]
<1>0. \A S : <<>> \in Seq(S) /\ Len(<<>>) <= 1
  OBVIOUS
<1>1. IsBuilder(b1)
  BY <1>0, ListSet
<1> HIDE DEF b1
<1>2. IsBuilder(b2)
  BY <1>0, <1>1, ListSet
<1> HIDE DEF b2
<1>3. IsBuilder(b3)
  BY <1>0, <1>2, ListSet
<1> HIDE DEF b3
<1>4. IsBuilder(b4)
  BY <1>0, <1>3, ListSet
<1> HIDE DEF b4
<1>5. IsBuilder([b4 EXCEPT !.post = <<>>])
  BY <1>0, <1>4, ListSet
<1>6. Emptied(b) = [b4 EXCEPT !.post = <<>>]
  BY DEF Emptied, b1, b2, b3, b4
<1>7. QED
  BY <1>5, <1>6

LEMMA SendSafe ==
  ASSUME SafeInv, [Next]_vars, NEW c \in Callers, Send(c)
  PROVE  SafeInv'
<1> DEFINE left == Emptied(builder[InstanceOf[c]])
<1>1. IsBuilder(left)
  BY EmptiedIsBuilder, InstanceAssumption DEF SafeInv
<1>2. Shape /\ CallTyped(call[c])
  BY DEF SafeInv, EmptyInv
<1>3. \A t \in pool' \ pool : Sendable(t.chain)
  BY <1>2 DEF Send, Transaction, CallTyped
<1>4. /\ call'[c].pc = "sent" /\ call'[c].answer = call[c].answer
      /\ \A d \in Callers \ {c} : call'[d] = call[d]
  BY <1>2 DEF Send, Shape, NoCall
<1>5. CallTyped(call[c])'
  BY <1>2, <1>4 DEF CallTyped, Pcs
<1>6. /\ IsBuilder(builder[InstanceOf[c]])'
      /\ \A s \in Instances \ {InstanceOf[c]} : builder'[s] = builder[s]
  <2>1. builder' = [builder EXCEPT ![InstanceOf[c]] = left]
    BY DEF Send
  <2> HIDE DEF left
  <2>2. QED
    BY <1>1, <1>2, <2>1, InstanceAssumption DEF Shape
<1>7. QED
  BY <1>3, <1>4, <1>5, <1>6, GoneOnSafe DEF Send

LEMMA ReturnSafe ==
  ASSUME SafeInv, [Next]_vars, NEW c \in Callers, Return(c)
  PROVE  SafeInv'
<1> DEFINE left == Emptied(builder[InstanceOf[c]])
<1>1. IsBuilder(left)
  BY EmptiedIsBuilder, InstanceAssumption DEF SafeInv
<1>2. CallTyped(call[c])
  BY DEF SafeInv
<1>3. \A t \in pool' \ pool : Sendable(t.chain)
  BY <1>2 DEF Return, Transaction, CallTyped
<1>4. "ok" \in Answers /\ Ended(c, "ok", left)
  BY DEF Return, Answers
<1> HIDE DEF left
<1>5. QED
  BY <1>1, <1>3, <1>4, EndedSafe DEF Return

\* What lands leaves an account whose nonce has passed those of the signatures
\* that were accepted.
LEMMA LandSafe ==
  ASSUME SafeInv, [Next]_vars, NEW t \in pool, Land(t)
  PROVE  SafeInv'
<1> DEFINE result == Execute(account, t.chain, t.signers)
<1>1. /\ IsAccount(account) /\ SpentBelow /\ Sendable(t.chain)
      /\ TypedChain(t.chain) /\ OrderedChain(t.chain)
      /\ Len(t.chain) \in Nat /\ DOMAIN t.chain = 1..Len(t.chain)
  BY DEF SafeInv, Sendable, TypedChain
<1>2. EmptyInv'
  BY EmptyStep DEF SafeInv
<1>3. IsAccount(account)'
  BY <1>1, ExecuteAccount DEF Land
<1>4. ASSUME NEW c \in Callers
      PROVE  CallTyped(call[c])'
  <2>1. /\ call'[c].pc = call[c].pc /\ call'[c].chain = call[c].chain
        /\ call'[c].answer \in {call[c].answer, "failed", "ok"}
    BY DEF Land, SafeInv, EmptyInv, Shape, NoCall
  <2>2. QED
    BY <2>1 DEF SafeInv, CallTyped, Answers
<1>5. SpentBelow'
  <2>1. CASE result = {}
    BY <1>1, <2>1 DEF Land, SpentBelow
  <2>2. CASE result # {} /\ ~account'.exists
    BY <1>1, <2>2 DEF Land, SpentBelow
  <2>3. CASE result # {} /\ account'.exists
    <3>1. /\ account' \in result
          /\ spent' = spent \cup Accepted(account, t.chain, t.signers)
      BY <2>3 DEF Land
    <3>2. /\ account' \in Run(account, t.chain, t.signers)[Len(t.chain)]
          /\ Len(t.chain) \in 0..Len(t.chain)
      BY <1>1, <3>1 DEF Execute
    <3>3. /\ account.exists => account.data.nonce <= account'.data.nonce
          /\ \A p \in 1..Len(t.chain) : \A s \in t.chain[p].eth :
               \A a \in Run(account, t.chain, t.signers)[p - 1] :
                 s.nonce = a.data.nonce => s.nonce < account'.data.nonce
      BY <1>1, <2>3, <3>2, RunNonces
    <3>4. account.data.nonce \in Nat /\ account'.data.nonce \in Nat
      BY <1>1, <1>3, NonceAssumption DEF IsAccount, DidAccounts
    <3>5. ASSUME NEW n \in spent
          PROVE  n \in Nat /\ n < account'.data.nonce
      <4>1. account.exists /\ n \in Nat /\ n < account.data.nonce
        BY <1>1, <3>5 DEF SpentBelow, IsAccount
      <4>2. QED
        BY <3>3, <3>4, <4>1
    <3>6. ASSUME NEW n \in Accepted(account, t.chain, t.signers)
          PROVE  n \in Nat /\ n < account'.data.nonce
      <4>p. PICK p \in 1..Len(t.chain) : \E s \in t.chain[p].eth :
              /\ s.nonce = n
              /\ \E a \in Run(account, t.chain, t.signers)[p - 1] : a.data.nonce = n
        BY <1>1 DEF Accepted
      <4>s. PICK s \in t.chain[p].eth :
              /\ s.nonce = n
              /\ \E a \in Run(account, t.chain, t.signers)[p - 1] : a.data.nonce = n
        BY <4>p
      <4>1. PICK a \in Run(account, t.chain, t.signers)[p - 1] : a.data.nonce = n
        BY <4>s
      <4>2. n < account'.data.nonce
        BY <3>3, <4>s, <4>1
      <4>3. n \in Nat
        BY <1>1, <4>s DEF Sendable, SignedInOrder
      <4>4. QED
        BY <4>2, <4>3
    <3>7. QED
      BY <2>3, <3>1, <3>5, <3>6 DEF SpentBelow
  <2>4. QED
    BY <2>1, <2>2, <2>3
<1>6. QED
  BY <1>2, <1>3, <1>4, <1>5 DEF SafeInv, Land

LEMMA ExpireSafe ==
  ASSUME SafeInv, [Next]_vars, NEW t \in pool, Expire(t)
  PROVE  SafeInv'
<1>1. EmptyInv'
  BY EmptyStep DEF SafeInv
<1>2. QED
  BY <1>1 DEF Expire, SafeInv, SpentBelow

LEMMA SafeStep == SafeInv /\ [Next]_vars => SafeInv'
<1> SUFFICES ASSUME SafeInv, [Next]_vars
             PROVE  SafeInv'
  OBVIOUS
<1>0. Answers = {"none", "ok", "failed", "unsigned", "unknown"}
  BY DEF Answers
<1>1. ASSUME NEW c \in Callers, StartCall(c)
      PROVE  SafeInv'
  BY <1>1, StartSafe
<1>2. ASSUME NEW c \in Callers, Proceed(c)
      PROVE  SafeInv'
  <2>1. CASE ReadAccount(c)
    BY <2>1, ReadAccountSafe
  <2>2. CASE Chain(c)
    BY <2>2, ChainSafe
  <2>3. CASE ReadNonce(c)
    BY <2>3, ReadNonceSafe
  <2>4. CASE Reject(c)
    BY <2>4, FailedSafe DEF Reject
  <2>5. CASE Send(c)
    BY <2>5, SendSafe
  <2>6. CASE CannotSign(c) \/ GiveUp(c)
    BY <1>0, <2>6, SettledSafe DEF CannotSign, GiveUp
  <2>7. CASE Return(c)
    BY <2>7, ReturnSafe
  <2>8. CASE Confirm(c)
    <3>1. call[c].answer \in Answers
      BY DEF SafeInv, CallTyped
    <3>2. QED
      BY <2>8, <3>1, SettledSafe DEF Confirm
  <2>9. QED
    BY <1>2, <2>1, <2>2, <2>3, <2>4, <2>5, <2>6, <2>7, <2>8 DEF Proceed
<1>3. ASSUME NEW t \in pool, Land(t) \/ Expire(t)
      PROVE  SafeInv'
  BY <1>3, LandSafe, ExpireSafe
<1>4. CASE UNCHANGED vars
  <2>1. EmptyInv'
    BY EmptyStep DEF SafeInv
  <2>2. QED
    BY <1>4, <2>1 DEF vars, SafeInv, SpentBelow
<1>5. QED
  BY <1>1, <1>2, <1>3, <1>4 DEF Next

LEMMA SafeAlways == Spec => []SafeInv
<1>1. Init /\ [][Next]_vars => []SafeInv
  BY SafeInit, SafeStep, PTL
<1>2. QED
  BY <1>1, PTL DEF Spec

\* Every account that a transaction leaves is one the program can read, every
\* instance keeps room for one initialize or migrate, one resize and one close,
\* and every caller has a state and an answer.
THEOREM BuilderTypeCorrect == Spec => []TypeOK
<1>1. ASSUME SafeInv
      PROVE  TypeOK
  <2>1. account \in [exists: BOOLEAN, data: DidAccounts, space: Nat,
                     legacy: SUBSET LegacyDidAccounts]
    BY <1>1 DEF SafeInv, IsAccount, LegacyAccounts
  <2>2. ASSUME NEW s \in Instances
        PROVE  /\ DOMAIN builder[s] = DOMAIN EmptyBuilder(s)
               /\ \A slot \in {"init", "resize", "close"} : Len(builder[s][slot]) <= 1
    <3>1. IsBuilder(builder[s])
      BY <1>1 DEF SafeInv
    <3>2. QED
      BY <3>1 DEF IsBuilder, EmptyBuilder
  <2>3. QED
    BY <1>1, <2>1, <2>2 DEF TypeOK, SafeInv, CallTyped, Pcs, Answers, SpentBelow
<1>2. QED
  BY <1>1, SafeAlways, PTL

\* A transaction whose only authority are Ethereum signatures is refused once a
\* nonce that it is signed for was spent: its first instruction has the lowest
\* nonce of all and fails, and with it the transaction.
THEOREM SpentNoncesAreRefused == Spec => []SpentNoncesRefused
<1>1. ASSUME SafeInv
      PROVE  SpentNoncesRefused
  <2>1. SUFFICES ASSUME NEW t \in pool, Relayed(t),
                        NEW n \in NoncesOf(t.chain), n \in spent
                 PROVE  Execute(account, t.chain, t.signers) = {}
    BY DEF SpentNoncesRefused
  <2> DEFINE chain == t.chain
             i == chain[1]
  <2>2. /\ IsAccount(account) /\ Sendable(chain)
        /\ Len(chain) \in Nat /\ DOMAIN chain = 1..Len(chain)
    BY <1>1 DEF SafeInv, Sendable, TypedChain
  <2>3. account.exists /\ n < account.data.nonce /\ account.data.nonce \in Nat
    BY <1>1, <2>1, NonceAssumption DEF SafeInv, SpentBelow, IsAccount, DidAccounts
  <2>4. PICK p \in 1..Len(chain) : \E s \in chain[p].eth : s.nonce = n
    BY <2>1, <2>2 DEF NoncesOf
  <2>s. PICK s \in chain[p].eth : s.nonce = n
    BY <2>4
  <2>5. 1 \in 1..Len(chain) /\ Typed(i)
    BY <2>2, <2>4 DEF Sendable, TypedChain
  <2>6. Outcome(account, i, t.signers) = {}
    <3>1. CASE i.name \in Making
      <4>1. i.name \in {"initialize", "migrate"}
        BY <3>1 DEF Making
      <4>2. QED
        BY <2>2, <2>3, <2>5, <4>1, OutcomeNonce
    <3>2. CASE i.name \notin Making
      <4>1. /\ i.name # "close_legacy" /\ s.nonce \in Nat
            /\ \A first \in i.eth : first.nonce <= s.nonce
        BY <2>2, <2>s, <3>2 DEF Sendable, SignedInOrder
      <4>2. \A first \in i.eth : first.nonce # account.data.nonce
        BY <2>3, <2>s, <4>1
      <4>3. ~FindAuthority(account.data, Ed25519VerificationKey2018, t.signers,
                           Fragments)
        BY <2>1 DEF Relayed
      <4>4. QED
        BY <2>2, <2>3, <2>5, <4>1, <4>2, <4>3, StaleFails
    <3>3. QED
      BY <3>1, <3>2
  <2>7. Run(account, chain, t.signers)[1] = {}
    <3>1. SUFFICES ASSUME NEW b \in Run(account, chain, t.signers)[0 + 1] PROVE FALSE
      OBVIOUS
    <3>2. 0 \in Nat /\ 0 + 1 <= Len(chain) /\ 0 + 1 = 1
      BY <2>5
    <3>3. PICK a \in Run(account, chain, t.signers)[0] :
            b \in Outcome(a, chain[0 + 1], t.signers)
      BY <2>2, <3>1, <3>2, RunFrom
    <3>4. Run(account, chain, t.signers)[0] = {account}
      BY <2>2, RunSteps
    <3>5. a = account
      BY <3>3, <3>4
    <3>6. b \in Outcome(account, i, t.signers)
      BY <3>2, <3>3, <3>5
    <3>7. QED
      BY <2>6, <3>6
  <2>8. Len(chain) \in Nat /\ 1 \in 0..Len(chain)
    BY <2>2, <2>5
  <2> HIDE DEF chain
  <2>9. Execute(account, chain, t.signers) = {}
    BY <2>7, <2>8, RunFails
  <2>10. QED
    BY <2>9 DEF chain
<1>2. QED
  BY <1>1, SafeAlways, PTL

-----------------------------------------------------------------------------
(* A chain of calls that has its instance to itself.                       *)

\* An instance after an allocation, which may add one instruction.
Extends(b, now) ==
  \/ now = b
  \/ /\ Allocates(b)
     /\ \E i :
          \/ /\ i.name = "initialize" /\ b.init = <<>>
             /\ now = [b EXCEPT !.init = <<i>>]
          \/ /\ i.name = "resize" /\ b.resize = <<>>
             /\ now = [b EXCEPT !.resize = <<i>>]

LEMMA QueuedExtends ==
  ASSUME NEW b, IsBuilder(b), Allocates(b),
         NEW i, i.name \in {"initialize", "resize"}, ~Queued(b, i).thrown
  PROVE  Extends(b, Queued(b, i).builder)
<1> DEFINE q == [builder |-> b, thrown |-> FALSE]
<1>0. \A x : Append(<<>>, x) = <<x>>
  OBVIOUS
<1>1. Slot(i) = IF i.name = "initialize" THEN "init" ELSE "resize"
  BY DEF Slot
<1>2. Queued(b, i) = IF b[Slot(i)] # <<>> THEN [q EXCEPT !.thrown = TRUE]
                     ELSE [q EXCEPT !.builder[Slot(i)] = Append(@, i)]
  BY <1>1 DEF Queued, QueuedOne
<1>3. b[Slot(i)] = <<>>
  BY <1>2
<1>4. Queued(b, i).builder = [b EXCEPT ![Slot(i)] = Append(@, i)]
  BY <1>2, <1>3
<1>5. [b EXCEPT ![Slot(i)] = Append(@, i)] = [b EXCEPT ![Slot(i)] = <<i>>]
  <2>1. Append(b[Slot(i)], i) = <<i>>
    BY <1>0, <1>3
  <2>2. QED
    BY <2>1
<1>6. QED
  BY <1>1, <1>3, <1>4, <1>5 DEF Extends

LEMMA AllocatedExtends ==
  ASSUME NEW b, IsBuilder(b), Allocates(b), NEW read, ~Allocated(b, read).thrown
  PROVE  Extends(b, Allocated(b, read).builder)
<1> DEFINE first == IF read.exists THEN read.data ELSE DefaultAccount
           size == IF read.exists THEN TotalNativeAccountSize(read.data)
                   ELSE INITIAL_MIN_ACCOUNT_SIZE
           required == MaxRequiredSize(first, size, b.general)
           making == [Instruction("initialize", required, Did) EXCEPT !.payer = AllocPayer(b)]
           growing == [Instruction("resize", required, b.resizeAuthority)
                         EXCEPT !.payer = AllocPayer(b)]
<1>1. Allocated(b, read) =
        IF ~read.exists THEN Queued(b, making)
        ELSE IF read.space < required THEN Queued(b, growing)
        ELSE [builder |-> b, thrown |-> FALSE]
  BY DEF Allocated
<1>2. making.name = "initialize" /\ growing.name = "resize"
  BY DEF Instruction
<1> HIDE DEF making, growing, required
<1>3. CASE Allocated(b, read) = Queued(b, making)
  BY <1>2, <1>3, QueuedExtends
<1>4. CASE Allocated(b, read) = Queued(b, growing)
  BY <1>2, <1>4, QueuedExtends
<1>5. CASE Allocated(b, read) = [builder |-> b, thrown |-> FALSE]
  BY <1>5 DEF Extends
<1>6. QED
  BY <1>1, <1>3, <1>4, <1>5

AllNames == ChainNames \cup {"close_legacy"}

\* The lists of an instance as lists of any instructions.
LEMMA ListsTyped ==
  ASSUME NEW b, IsBuilder(b)
  PROVE  /\ b.init \in Seq(InstrOf(AllNames)) /\ b.resize \in Seq(InstrOf(AllNames))
         /\ b.general \in Seq(InstrOf(AllNames)) /\ b.close \in Seq(InstrOf(AllNames))
         /\ b.post \in Seq(InstrOf(AllNames))
         /\ InstructionChain(b) \in Seq(InstrOf(AllNames))
         /\ Operations(b) \in Seq(InstrOf(AllNames))
<1>1. /\ b.init \in Seq(InstrOf(Making)) /\ b.resize \in Seq(InstrOf({"resize"}))
      /\ b.general \in Seq(InstrOf(General)) /\ b.close \in Seq(InstrOf({"close"}))
      /\ b.post \in Seq(InstrOf({"close_legacy"}))
  BY DEF IsBuilder
<1>2. \A names \in SUBSET AllNames : InstrOf(names) \subseteq InstrOf(AllNames)
  BY DEF InstrOf
<1>3. /\ Making \in SUBSET AllNames /\ {"resize"} \in SUBSET AllNames
      /\ General \in SUBSET AllNames /\ {"close"} \in SUBSET AllNames
      /\ {"close_legacy"} \in SUBSET AllNames
  BY DEF Making, General, AllNames, ChainNames, Operation
<1>4. /\ b.init \in Seq(InstrOf(AllNames)) /\ b.resize \in Seq(InstrOf(AllNames))
      /\ b.general \in Seq(InstrOf(AllNames)) /\ b.close \in Seq(InstrOf(AllNames))
      /\ b.post \in Seq(InstrOf(AllNames))
  BY <1>1, <1>2, <1>3, SeqMonotonic
<1>5. \A s, t \in Seq(InstrOf(AllNames)) : s \o t \in Seq(InstrOf(AllNames))
  BY ConcatProperties
<1>6. b.init \o b.resize \in Seq(InstrOf(AllNames))
  BY <1>4, <1>5
<1>7. b.init \o b.resize \o b.general \in Seq(InstrOf(AllNames))
  BY <1>4, <1>5, <1>6
<1>8. b.init \o b.resize \o b.general \o b.close \in Seq(InstrOf(AllNames))
  BY <1>4, <1>5, <1>7
<1>9. InstructionChain(b) \in Seq(InstrOf(AllNames))
  BY <1>8 DEF InstructionChain
<1>10. Operations(b) \in Seq(InstrOf(AllNames))
  BY <1>4, <1>5, <1>9 DEF Operations
<1>11. QED
  BY <1>4, <1>9, <1>10

\* What is among the first instructions of an instance stays at its place.
LEMMA PlacesKept ==
  ASSUME NEW b, IsBuilder(b)
  PROVE  /\ \A p \in 1..Len(b.init) :
              p \in 1..Len(Operations(b)) /\ Operations(b)[p] = b.init[p]
         /\ \A p \in 1..Len(b.resize) :
              /\ Len(b.init) + p \in 1..Len(Operations(b))
              /\ Operations(b)[Len(b.init) + p] = b.resize[p]
<1> DEFINE S == InstrOf(AllNames)
           s1 == b.init \o b.resize
           s2 == s1 \o b.general
           s3 == s2 \o b.close
           s4 == s3 \o b.post
<1>1. /\ b.init \in Seq(S) /\ b.resize \in Seq(S) /\ b.general \in Seq(S)
      /\ b.close \in Seq(S) /\ b.post \in Seq(S)
  BY ListsTyped
<1> HIDE DEF S
<1>2. \A s, t \in Seq(S) :
        /\ s \o t \in Seq(S)
        /\ \A p \in 1..Len(s) : p \in 1..Len(s \o t) /\ (s \o t)[p] = s[p]
        /\ \A p \in 1..Len(t) : /\ Len(s) + p \in 1..Len(s \o t)
                                /\ (s \o t)[Len(s) + p] = t[p]
  <2>1. SUFFICES ASSUME NEW s \in Seq(S), NEW t \in Seq(S)
        PROVE  /\ s \o t \in Seq(S)
               /\ \A p \in 1..Len(s) : p \in 1..Len(s \o t) /\ (s \o t)[p] = s[p]
               /\ \A p \in 1..Len(t) : /\ Len(s) + p \in 1..Len(s \o t)
                                       /\ (s \o t)[Len(s) + p] = t[p]
    OBVIOUS
  <2>2. /\ s \o t \in Seq(S) /\ Len(s \o t) = Len(s) + Len(t)
        /\ \A p \in 1..(Len(s) + Len(t)) :
             (s \o t)[p] = IF p <= Len(s) THEN s[p] ELSE t[p - Len(s)]
    BY ConcatProperties
  <2>3. Len(s) \in Nat /\ Len(t) \in Nat
    OBVIOUS
  <2> DEFINE u == s \o t
  <2> HIDE DEF u
  <2>4. ASSUME NEW p \in 1..Len(s)
        PROVE  p \in 1..Len(u) /\ u[p] = s[p]
    BY <2>2, <2>3 DEF u
  <2>5. ASSUME NEW p \in 1..Len(t)
        PROVE  Len(s) + p \in 1..Len(u) /\ u[Len(s) + p] = t[p]
    <3>1. /\ Len(s) + p \in 1..(Len(s) + Len(t)) /\ ~(Len(s) + p <= Len(s))
          /\ (Len(s) + p) - Len(s) = p
      BY <2>3
    <3>2. u[Len(s) + p] = t[(Len(s) + p) - Len(s)]
      BY <2>2, <3>1 DEF u
    <3>3. QED
      BY <2>2, <3>1, <3>2 DEF u
  <2>6. QED
    BY <2>2, <2>4, <2>5 DEF u
<1>3. s1 \in Seq(S)
  BY <1>1, <1>2
<1>4. s2 \in Seq(S)
  BY <1>1, <1>2, <1>3
<1>5. s3 \in Seq(S)
  BY <1>1, <1>2, <1>4
<1>6. /\ \A p \in 1..Len(b.init) : p \in 1..Len(s1) /\ s1[p] = b.init[p]
      /\ \A p \in 1..Len(b.resize) :
           Len(b.init) + p \in 1..Len(s1) /\ s1[Len(b.init) + p] = b.resize[p]
  BY <1>1, <1>2
<1>7. \A p \in 1..Len(s1) : p \in 1..Len(s2) /\ s2[p] = s1[p]
  BY <1>1, <1>2, <1>3
<1>8. \A p \in 1..Len(s2) : p \in 1..Len(s3) /\ s3[p] = s2[p]
  BY <1>1, <1>2, <1>4
<1>9. \A p \in 1..Len(s3) : p \in 1..Len(s4) /\ s4[p] = s3[p]
  BY <1>1, <1>2, <1>5
<1>10. Operations(b) = s4
  BY DEF Operations, InstructionChain
<1> HIDE DEF s1, s2, s3, s4
<1>11. QED
  BY <1>6, <1>7, <1>8, <1>9, <1>10

\* The chain that an instance makes of its own operations.
Carries(chain, b) ==
  /\ DOMAIN chain = 1..Len(Operations(b))
  /\ Unsigned(chain) = Operations(b)
  /\ \A p \in DOMAIN chain : chain[p].name = Operations(b)[p].name

LEMMA EthErased ==
  ASSUME NEW n, NEW i \in InstructionsOf(n), NEW e
  PROVE  /\ [[i EXCEPT !.eth = e] EXCEPT !.eth = {}] = i
         /\ [i EXCEPT !.eth = {}] = i
         /\ [i EXCEPT !.eth = e].name = i.name
<1>1. i = [name |-> i.name, arg |-> i.arg, authority |-> i.authority,
           payer |-> i.payer, eth |-> {}]
  BY DEF InstructionsOf
<1>2. [i EXCEPT !.eth = e] =
        [name |-> i.name, arg |-> i.arg, authority |-> i.authority,
         payer |-> i.payer, eth |-> e]
  BY <1>1
<1>3. [[i EXCEPT !.eth = e] EXCEPT !.eth = {}] =
        [name |-> i.name, arg |-> i.arg, authority |-> i.authority,
         payer |-> i.payer, eth |-> {}]
  <2> DEFINE j == [i EXCEPT !.eth = e]
  <2>1. j = [name |-> i.name, arg |-> i.arg, authority |-> i.authority,
             payer |-> i.payer, eth |-> e]
    BY <1>2
  <2> HIDE DEF j
  <2>2. [j EXCEPT !.eth = {}] =
          [name |-> i.name, arg |-> i.arg, authority |-> i.authority,
           payer |-> i.payer, eth |-> {}]
    BY <2>1
  <2>3. QED
    BY <2>2 DEF j
<1>4. [i EXCEPT !.eth = {}] =
        [name |-> i.name, arg |-> i.arg, authority |-> i.authority,
         payer |-> i.payer, eth |-> {}]
  BY <1>1
<1>5. QED
  BY <1>1, <1>2, <1>3, <1>4

LEMMA SignedCarries ==
  ASSUME NEW b, IsBuilder(b), NEW signer, NEW nonce
  PROVE  Carries(Signed(InstructionChain(b), signer, nonce) \o b.post, b)
<1> DEFINE chain == InstructionChain(b)
           N == Len(chain)
           S == InstrOf(AllNames)
           signed == Signed(chain, signer, nonce)
           X == {signed[p] : p \in 1..N} \cup S
           whole == signed \o b.post
           all == Operations(b)
<1>1. chain \in Seq(S) /\ b.post \in Seq(S) /\ all \in Seq(S) /\ all = chain \o b.post
  BY ListsTyped DEF Operations
<1> HIDE DEF chain, all
<1>2. N \in Nat /\ DOMAIN chain = 1..N /\ \A p \in 1..N : chain[p] \in S
  BY <1>1, ElementOfSeq
<1>3. signed \in [1..N -> X]
  BY <1>2 DEF Signed
<1>4. \A i \in S : \A e :
        /\ [[i EXCEPT !.eth = e] EXCEPT !.eth = {}] = i
        /\ [i EXCEPT !.eth = {}] = i
        /\ [i EXCEPT !.eth = e].name = i.name
  BY InstrOfNames, EthErased
<1>5. \A p \in 1..N :
        [signed[p] EXCEPT !.eth = {}] = chain[p] /\ signed[p].name = chain[p].name
  <2>1. \A p \in 1..N : signed[p] = chain[p]
                        \/ \E e : signed[p] = [chain[p] EXCEPT !.eth = e]
    BY <1>2 DEF Signed
  <2> HIDE DEF signed, S
  <2>2. SUFFICES ASSUME NEW p \in 1..N
                 PROVE  /\ [signed[p] EXCEPT !.eth = {}] = chain[p]
                        /\ signed[p].name = chain[p].name
    OBVIOUS
  <2>3. chain[p] \in S
    BY <1>2
  <2>4. CASE signed[p] = chain[p]
    BY <1>4, <2>3, <2>4
  <2>5. CASE \E e : signed[p] = [chain[p] EXCEPT !.eth = e]
    <3>1. PICK e : signed[p] = [chain[p] EXCEPT !.eth = e]
      BY <2>5
    <3>2. /\ [[chain[p] EXCEPT !.eth = e] EXCEPT !.eth = {}] = chain[p]
          /\ [chain[p] EXCEPT !.eth = e].name = chain[p].name
      BY <1>4, <2>3
    <3>3. QED
      BY <3>1, <3>2
  <2>6. QED
    BY <2>1, <2>4, <2>5
<1> HIDE DEF signed
<1>6. signed \in Seq(X) /\ Len(signed) = N /\ b.post \in Seq(X)
  <2>1. signed \in Seq(X) /\ Len(signed) = N
    BY <1>2, <1>3
  <2>2. b.post \in Seq(X)
    BY <1>1, SeqMonotonic
  <2>3. QED
    BY <2>1, <2>2
<1> HIDE DEF X
<1>7. /\ whole \in Seq(X) /\ Len(whole) = N + Len(b.post) /\ DOMAIN whole = 1..Len(whole)
      /\ \A p \in 1..(N + Len(b.post)) :
           whole[p] = IF p <= N THEN signed[p] ELSE b.post[p - N]
  <2>1. /\ whole \in Seq(X) /\ Len(whole) = Len(signed) + Len(b.post)
        /\ \A p \in 1..(Len(signed) + Len(b.post)) :
             whole[p] = IF p <= Len(signed) THEN signed[p] ELSE b.post[p - Len(signed)]
    BY <1>6, ConcatProperties
  <2> HIDE DEF whole
  <2>2. DOMAIN whole = 1..Len(whole)
    BY <2>1, LenProperties
  <2>3. QED
    BY <1>6, <2>1, <2>2
<1>8. /\ Len(all) = N + Len(b.post) /\ DOMAIN all = 1..Len(all)
      /\ \A p \in 1..(N + Len(b.post)) :
           all[p] = IF p <= N THEN chain[p] ELSE b.post[p - N]
  <2>1. /\ Len(chain \o b.post) = Len(chain) + Len(b.post)
        /\ \A p \in 1..(Len(chain) + Len(b.post)) :
             (chain \o b.post)[p] = IF p <= Len(chain) THEN chain[p]
                                    ELSE b.post[p - Len(chain)]
    BY <1>1, ConcatProperties
  <2>2. DOMAIN all = 1..Len(all)
    BY <1>1, LenProperties
  <2>3. QED
    BY <1>1, <2>1, <2>2
<1> HIDE DEF whole
<1>9. ASSUME NEW p \in 1..Len(all)
      PROVE  [whole[p] EXCEPT !.eth = {}] = all[p] /\ whole[p].name = all[p].name
  <2>0. Len(b.post) \in Nat
    BY <1>1
  <2>1. CASE p <= N
    <3>1. p \in 1..N /\ whole[p] = signed[p] /\ all[p] = chain[p]
      BY <1>2, <1>7, <1>8, <2>0, <2>1
    <3>2. QED
      BY <1>5, <3>1
  <2>2. CASE ~(p <= N)
    <3>1. p - N \in 1..Len(b.post) /\ whole[p] = b.post[p - N] /\ all[p] = b.post[p - N]
      BY <1>2, <1>7, <1>8, <2>0, <2>2
    <3>2. b.post[p - N] \in S
      BY <1>1, <3>1, ElementOfSeq
    <3> HIDE DEF S
    <3>3. QED
      BY <1>4, <3>1, <3>2
  <2>3. QED
    BY <2>1, <2>2
<1>10. DOMAIN whole = 1..Len(all) /\ DOMAIN all = 1..Len(all)
  BY <1>7, <1>8
<1>11. Unsigned(whole) = all
  <2>1. Unsigned(whole) = [p \in 1..Len(all) |-> all[p]]
    BY <1>9, <1>10 DEF Unsigned
  <2>2. all = [p \in 1..Len(all) |-> all[p]]
    BY <1>1, <1>10
  <2>3. QED
    BY <2>1, <2>2
<1>12. QED
  BY <1>9, <1>10, <1>11 DEF Carries, whole, all, signed, chain

\* Such a chain is what OwnOperations asks for.
LEMMA CarriedAreOwn ==
  ASSUME NEW b, IsBuilder(b), NEW now, IsBuilder(now), Extends(b, now),
         NEW chain, chain = Operations(now)
  PROVE  CarriesOut(chain, b)
<1>1. CASE now = b
  BY <1>1 DEF CarriesOut
<1>2. ASSUME now # b
      PROVE  Allocates(b)
  BY <1>2 DEF Extends
<1>3. DOMAIN chain = 1..Len(chain)
  BY ListsTyped, LenProperties
<1>4. ASSUME NEW i, i.name = "initialize", b.init = <<>>, now = [b EXCEPT !.init = <<i>>]
      PROVE  \E p \in DOMAIN chain :
               /\ chain[p].name = "initialize" /\ b.init = <<>>
               /\ chain = Operations([b EXCEPT !.init = <<chain[p]>>])
  <2>1. now.init = <<i>>
    BY <1>4 DEF IsBuilder
  <2>2. Len(now.init) = 1 /\ now.init[1] = i
    BY <2>1
  <2>3. 1 \in DOMAIN chain /\ chain[1] = i
    BY <1>3, <2>2, PlacesKept
  <2>4. QED
    BY <1>4, <2>3
<1>5. ASSUME NEW i, i.name = "resize", b.resize = <<>>, now = [b EXCEPT !.resize = <<i>>]
      PROVE  \E p \in DOMAIN chain :
               /\ chain[p].name = "resize" /\ b.resize = <<>>
               /\ chain = Operations([b EXCEPT !.resize = <<chain[p]>>])
  <2>1. now.resize = <<i>>
    BY <1>5 DEF IsBuilder
  <2>2. Len(now.resize) = 1 /\ now.resize[1] = i
    BY <2>1
  <2>3. Len(now.init) + 1 \in DOMAIN chain /\ chain[Len(now.init) + 1] = i
    BY <1>3, <2>2, PlacesKept
  <2>4. QED
    BY <1>5, <2>3
<1>6. QED
  BY <1>1, <1>2, <1>4, <1>5 DEF Extends, CarriesOut

\* What a caller that is alone has asked of its instance so far, and what its
\* transaction carries.
Own(c) ==
  call[c].pc # "idle" /\ call[c].alone =>
    /\ \A d \in Callers \ {c} : InstanceOf[d] = InstanceOf[c] => call[d].pc = "idle"
    /\ \E job \in Jobs[c] :
         LET b == Alone(c, job)
             now == builder[InstanceOf[c]]
         IN /\ call[c].job = {job}
            /\ ~CalledAll(EmptyBuilder(InstanceOf[c]), job.calls).thrown
            /\ call[c].pc = "alloc" => now = b /\ Allocates(b)
            /\ call[c].pc = "chain" => now = b
            /\ call[c].pc = "nonce" =>
                 Extends(b, now) /\ call[c].chain = InstructionChain(now)
            /\ call[c].pc = "sign" => Extends(b, now) /\ Carries(call[c].chain, now)

OwnTransaction(t) ==
  t.alone =>
    /\ t.caller \in Callers
    /\ \E job \in Jobs[t.caller] :
         /\ t.job = {job}
         /\ ~CalledAll(EmptyBuilder(InstanceOf[t.caller]), job.calls).thrown
         /\ \E now : /\ IsBuilder(now) /\ Extends(Alone(t.caller, job), now)
                     /\ Carries(t.chain, now)

OwnInv ==
  /\ SafeInv
  /\ \A c \in Callers : Own(c)
  /\ \A t \in pool : OwnTransaction(t)

LEMMA OwnInit == Init => OwnInv
BY SafeInit DEF Init, OwnInv, Own, NoCall

\* A step of a caller whose chain is under way leaves the other callers theirs.
LEMMA ProceedOwn ==
  ASSUME OwnInv, [Next]_vars, NEW c \in Callers, call[c].pc # "idle",
         \A s \in Instances \ {InstanceOf[c]} : builder'[s] = builder[s],
         \A d \in Callers \ {c} : call'[d] = call[d],
         Own(c)', \A t \in pool' \ pool : OwnTransaction(t)
  PROVE  OwnInv'
<1>1. SafeInv'
  BY SafeStep DEF OwnInv
<1>2. ASSUME NEW d \in Callers \ {c}
      PROVE  Own(d)'
  <2>1. call'[d] = call[d] /\ Own(d)
    BY DEF OwnInv
  <2>2. CASE InstanceOf[d] = InstanceOf[c]
    BY <2>1, <2>2 DEF Own
  <2>3. CASE InstanceOf[d] # InstanceOf[c]
    <3>1. builder'[InstanceOf[d]] = builder[InstanceOf[d]]
      BY <2>3, InstanceAssumption
    <3>2. \A e \in Callers \ {d} : InstanceOf[e] = InstanceOf[d] => call'[e] = call[e]
      BY <2>3
    <3>3. QED
      BY <2>1, <3>1, <3>2 DEF Own
  <2>4. QED
    BY <2>2, <2>3
<1>3. \A t \in pool' : OwnTransaction(t)
  BY DEF OwnInv
<1>4. QED
  BY <1>1, <1>2, <1>3 DEF OwnInv

LEMMA EndedOwn ==
  ASSUME OwnInv, [Next]_vars, NEW c \in Callers, call[c].pc # "idle",
         NEW answer, NEW left, Ended(c, answer, left),
         \A t \in pool' \ pool : OwnTransaction(t)
  PROVE  OwnInv'
<1>0. Shape
  BY DEF OwnInv, SafeInv, EmptyInv
<1>1. \A s \in Instances \ {InstanceOf[c]} : builder'[s] = builder[s]
  BY <1>0 DEF Ended, Shape
<1>2. /\ \A d \in Callers \ {c} : call'[d] = call[d]
      /\ call'[c].pc = "idle"
  BY <1>0 DEF Ended, Shape, NoCall
<1>3. Own(c)'
  BY <1>2 DEF Own
<1>4. QED
  BY <1>1, <1>2, <1>3, ProceedOwn

LEMMA SettledOwn ==
  ASSUME OwnInv, [Next]_vars, NEW c \in Callers, call[c].pc # "idle",
         NEW answer, Settled(c, answer)
  PROVE  OwnInv'
BY EndedOwn DEF Settled

LEMMA FailedOwn ==
  ASSUME OwnInv, [Next]_vars, NEW c \in Callers, call[c].pc # "idle", Failed(c)
  PROVE  OwnInv'
<1>1. CASE Terminal(c) = "rpc"
  BY <1>1, SettledOwn DEF Failed
<1>2. CASE Terminal(c) # "rpc"
  BY <1>2, EndedOwn DEF Failed
<1>3. QED
  BY <1>1, <1>2

LEMMA StartOwn ==
  ASSUME OwnInv, [Next]_vars, NEW c \in Callers, StartCall(c)
  PROVE  OwnInv'
<1> DEFINE s == InstanceOf[c]
<1>1. PICK job \in Jobs[c] :
        LET q == CalledAll(builder[s], job.calls)
            pc == IF q.builder.payer # {} /\ q.builder.general # <<>>
                  THEN "alloc" ELSE "chain"
            started == [NoCall EXCEPT
                          !.pc = IF q.thrown THEN "idle" ELSE pc,
                          !.n = call[c].n + 1,
                          !.job = {job},
                          !.wallet = {q.builder.wallet},
                          !.alone = s \notin open /\ Quiet(s),
                          !.answer = IF q.thrown THEN "failed" ELSE @]
        IN /\ builder' = [builder EXCEPT ![s] = q.builder]
           /\ call' = [d \in Callers |->
                         IF d = c THEN started
                         ELSE IF d \in Disturbed(c)
                         THEN [call[d] EXCEPT !.alone = FALSE]
                         ELSE call[d]]
           /\ open' = IF q.thrown THEN open \cup {s} ELSE open
  BY DEF StartCall
<1> DEFINE q == CalledAll(builder[s], job.calls)
<1> HIDE DEF q
<1>2. /\ builder' = [builder EXCEPT ![s] = q.builder]
      /\ call'[c].pc = IF q.thrown THEN "idle"
                       ELSE IF q.builder.payer # {} /\ q.builder.general # <<>>
                       THEN "alloc" ELSE "chain"
      /\ call'[c].job = {job}
      /\ call'[c].alone = (s \notin open /\ Quiet(s))
      /\ \A d \in Callers \ {c} :
           call'[d] = IF d \in Disturbed(c) THEN [call[d] EXCEPT !.alone = FALSE]
                      ELSE call[d]
  BY <1>1 DEF q, NoCall
<1>3. Shape /\ QuietIsEmpty
  BY DEF OwnInv, SafeInv, EmptyInv
<1>4. /\ builder'[s] = q.builder
      /\ \A r \in Instances \ {s} : builder'[r] = builder[r]
  BY <1>2, <1>3, InstanceAssumption DEF Shape
<1>5. \A d \in Callers \ {c} :
        /\ call'[d].pc = call[d].pc
        /\ d \in Disturbed(c) => ~call'[d].alone
        /\ d \notin Disturbed(c) => call'[d] = call[d]
  <2>1. SUFFICES ASSUME NEW d \in Callers \ {c}
                 PROVE  /\ call'[d].pc = call[d].pc
                        /\ d \in Disturbed(c) => ~call'[d].alone
                        /\ d \notin Disturbed(c) => call'[d] = call[d]
    OBVIOUS
  <2>2. "pc" \in DOMAIN call[d] /\ "alone" \in DOMAIN call[d]
    BY <1>3 DEF Shape, NoCall
  <2>3. QED
    BY <1>2, <2>2
<1>6. Own(c)'
  <2>1. SUFFICES ASSUME call'[c].pc # "idle", call'[c].alone
                 PROVE  /\ \A d \in Callers \ {c} :
                             InstanceOf[d] = s => call'[d].pc = "idle"
                        /\ \E own \in Jobs[c] :
                             /\ call'[c].job = {own}
                             /\ ~CalledAll(EmptyBuilder(s), own.calls).thrown
                             /\ builder'[s] = Alone(c, own)
                             /\ call'[c].pc = "alloc" => Allocates(Alone(c, own))
    BY <1>2 DEF Own
  <2>2. s \notin open /\ Quiet(s)
    BY <1>2, <2>1
  <2>3. builder[s] = EmptyBuilder(s)
    BY <1>3, <2>2, InstanceAssumption DEF QuietIsEmpty
  <2>4. q.builder = Alone(c, job) /\ ~q.thrown
    BY <1>2, <2>1, <2>3 DEF q, Alone
  <2>5. ~CalledAll(EmptyBuilder(s), job.calls).thrown
    BY <2>3, <2>4 DEF q
  <2>6. call'[c].pc = "alloc" => Allocates(Alone(c, job))
    BY <1>2, <2>4 DEF Allocates
  <2>7. QED
    BY <1>2, <1>4, <1>5, <2>2, <2>4, <2>5, <2>6 DEF Quiet
<1>7. ASSUME NEW d \in Callers \ {c}
      PROVE  Own(d)'
  <2>1. CASE d \in Disturbed(c)
    BY <1>5, <2>1 DEF Own
  <2>2. CASE d \notin Disturbed(c) /\ InstanceOf[d] = s
    BY <1>5, <2>2 DEF Own, Disturbed
  <2>3. CASE d \notin Disturbed(c) /\ InstanceOf[d] # s
    <3>1. builder'[InstanceOf[d]] = builder[InstanceOf[d]] /\ call'[d] = call[d]
      BY <1>4, <1>5, <2>3, InstanceAssumption
    <3>2. \A e \in Callers \ {d} : InstanceOf[e] = InstanceOf[d] => call'[e].pc = call[e].pc
      BY <1>5, <2>3
    <3>3. Own(d)
      BY DEF OwnInv
    <3>4. QED
      BY <3>1, <3>2, <3>3 DEF Own
  <2>4. QED
    BY <2>1, <2>2, <2>3
<1>8. SafeInv' /\ UNCHANGED pool
  BY SafeStep DEF OwnInv, StartCall
<1>9. QED
  BY <1>6, <1>7, <1>8 DEF OwnInv

\* What Own says of a caller that is alone.
LEMMA OwnJob ==
  ASSUME OwnInv, NEW c \in Callers, call[c].pc # "idle", call[c].alone
  PROVE  /\ \A d \in Callers \ {c} : InstanceOf[d] = InstanceOf[c] => call[d].pc = "idle"
         /\ \E job \in Jobs[c] :
              /\ call[c].job = {job}
              /\ ~CalledAll(EmptyBuilder(InstanceOf[c]), job.calls).thrown
              /\ IsBuilder(Alone(c, job))
              /\ call[c].pc = "alloc" => /\ builder[InstanceOf[c]] = Alone(c, job)
                                         /\ Allocates(Alone(c, job))
              /\ call[c].pc = "chain" => builder[InstanceOf[c]] = Alone(c, job)
              /\ call[c].pc = "nonce" =>
                   /\ Extends(Alone(c, job), builder[InstanceOf[c]])
                   /\ call[c].chain = InstructionChain(builder[InstanceOf[c]])
              /\ call[c].pc = "sign" =>
                   /\ Extends(Alone(c, job), builder[InstanceOf[c]])
                   /\ Carries(call[c].chain, builder[InstanceOf[c]])
<1>1. \A job \in Jobs[c] : IsBuilder(Alone(c, job))
  <2>1. SUFFICES ASSUME NEW job \in Jobs[c] PROVE IsBuilder(Alone(c, job))
    OBVIOUS
  <2>2. InstanceOf[c] \in Instances
    BY InstanceAssumption
  <2>3. IsQueue(CalledAll(EmptyBuilder(InstanceOf[c]), job.calls))
    BY <2>2, EmptyIsBuilder, JobCalls, CalledAllIsQueue
  <2>4. QED
    BY <2>3 DEF Alone, IsQueue
<1>2. Own(c)
  BY DEF OwnInv
<1>3. QED
  BY <1>1, <1>2 DEF Own

LEMMA ReadAccountOwn ==
  ASSUME OwnInv, [Next]_vars, NEW c \in Callers, ReadAccount(c)
  PROVE  OwnInv'
<1> DEFINE s == InstanceOf[c]
           q == Allocated(builder[s], account)
<1> HIDE DEF q
<1>0. call[c].pc = "alloc"
  BY DEF ReadAccount
<1>1. CASE q.thrown
  BY <1>0, <1>1, FailedOwn DEF ReadAccount, q
<1>2. CASE ~q.thrown
  <2>1. /\ builder' = [builder EXCEPT ![s] = q.builder]
        /\ call' = [call EXCEPT ![c].pc = "nonce",
                                ![c].seen = {account},
                                ![c].chain = InstructionChain(q.builder)]
        /\ UNCHANGED pool
    BY <1>2 DEF ReadAccount, q
  <2>2. Shape
    BY DEF OwnInv, SafeInv, EmptyInv
  <2>3. /\ builder'[s] = q.builder
        /\ \A r \in Instances \ {s} : builder'[r] = builder[r]
    BY <2>1, <2>2, InstanceAssumption DEF Shape
  <2>4. /\ call'[c].pc = "nonce" /\ call'[c].chain = InstructionChain(q.builder)
        /\ call'[c].job = call[c].job /\ call'[c].alone = call[c].alone
        /\ \A d \in Callers \ {c} : call'[d] = call[d]
    BY <2>1, <2>2 DEF Shape, NoCall
  <2>5. Own(c)'
    <3>1. SUFFICES ASSUME call[c].alone PROVE Own(c)'
      BY <2>4 DEF Own
    <3>2. \A d \in Callers \ {c} : InstanceOf[d] = s => call[d].pc = "idle"
      BY <1>0, <3>1, OwnJob
    <3>3. PICK job \in Jobs[c] :
            /\ call[c].job = {job}
            /\ ~CalledAll(EmptyBuilder(s), job.calls).thrown
            /\ IsBuilder(Alone(c, job))
            /\ builder[s] = Alone(c, job) /\ Allocates(Alone(c, job))
      BY <1>0, <3>1, OwnJob
    <3>4. Extends(Alone(c, job), q.builder)
      BY <1>2, <3>3, AllocatedExtends DEF q
    <3>5. QED
      BY <2>3, <2>4, <3>2, <3>3, <3>4 DEF Own
  <2>6. QED
    BY <1>0, <2>1, <2>3, <2>4, <2>5, ProceedOwn
<1>3. QED
  BY <1>1, <1>2

LEMMA ChainOwn ==
  ASSUME OwnInv, [Next]_vars, NEW c \in Callers, Chain(c)
  PROVE  OwnInv'
<1> DEFINE s == InstanceOf[c]
<1>0. call[c].pc = "chain" /\ UNCHANGED <<builder, pool>>
  BY DEF Chain
<1>1. Shape
  BY DEF OwnInv, SafeInv, EmptyInv
<1>2. /\ call'[c].pc = "nonce" /\ call'[c].chain = InstructionChain(builder[s])
      /\ call'[c].job = call[c].job /\ call'[c].alone = call[c].alone
      /\ \A d \in Callers \ {c} : call'[d] = call[d]
  BY <1>1 DEF Chain, Shape, NoCall
<1>3. Own(c)'
  <2>1. SUFFICES ASSUME call[c].alone PROVE Own(c)'
    BY <1>2 DEF Own
  <2>2. \A d \in Callers \ {c} : InstanceOf[d] = s => call[d].pc = "idle"
    BY <1>0, <2>1, OwnJob
  <2>3. PICK job \in Jobs[c] :
          /\ call[c].job = {job}
          /\ ~CalledAll(EmptyBuilder(s), job.calls).thrown
          /\ builder[s] = Alone(c, job)
    BY <1>0, <2>1, OwnJob
  <2>4. Extends(Alone(c, job), builder[s])
    BY <2>3 DEF Extends
  <2>5. QED
    BY <1>0, <1>2, <2>2, <2>3, <2>4 DEF Own
<1>4. QED
  BY <1>0, <1>2, <1>3, ProceedOwn

LEMMA ReadNonceOwn ==
  ASSUME OwnInv, [Next]_vars, NEW c \in Callers, ReadNonce(c)
  PROVE  OwnInv'
<1> DEFINE s == InstanceOf[c]
           b == builder[s]
           nonce == IF account.exists THEN account.data.nonce ELSE 0
           chain == Signed(call[c].chain, b.ethSigner, nonce) \o b.post
<1>0. call[c].pc = "nonce" /\ UNCHANGED <<builder, pool>>
  BY DEF ReadNonce
<1>1. Shape /\ IsBuilder(b)
  BY InstanceAssumption DEF OwnInv, SafeInv, EmptyInv
<1>2. /\ call'[c].pc = "sign" /\ call'[c].chain = chain
      /\ call'[c].job = call[c].job /\ call'[c].alone = call[c].alone
      /\ \A d \in Callers \ {c} : call'[d] = call[d]
  BY <1>1 DEF ReadNonce, Shape, NoCall
<1> HIDE DEF nonce
<1>3. Own(c)'
  <2>1. SUFFICES ASSUME call[c].alone PROVE Own(c)'
    BY <1>2 DEF Own
  <2>2. \A d \in Callers \ {c} : InstanceOf[d] = s => call[d].pc = "idle"
    BY <1>0, <2>1, OwnJob
  <2>3. PICK job \in Jobs[c] :
          /\ call[c].job = {job}
          /\ ~CalledAll(EmptyBuilder(s), job.calls).thrown
          /\ Extends(Alone(c, job), b) /\ call[c].chain = InstructionChain(b)
    BY <1>0, <2>1, OwnJob
  <2>4. Carries(chain, b)
    BY <1>1, <2>3, SignedCarries
  <2> HIDE DEF chain
  <2>5. QED
    BY <1>0, <1>2, <2>2, <2>3, <2>4 DEF Own
<1>4. QED
  BY <1>0, <1>2, <1>3, ProceedOwn

\* The transaction of a caller that has its signatures.
LEMMA SignedOwn ==
  ASSUME OwnInv, NEW c \in Callers, call[c].pc = "sign",
         NEW t, t.caller = c, t.job = call[c].job, t.alone = call[c].alone,
         t.chain = call[c].chain
  PROVE  OwnTransaction(t)
<1>1. SUFFICES ASSUME call[c].alone PROVE OwnTransaction(t)
  BY DEF OwnTransaction
<1>2. PICK job \in Jobs[c] :
        /\ call[c].job = {job}
        /\ ~CalledAll(EmptyBuilder(InstanceOf[c]), job.calls).thrown
        /\ Extends(Alone(c, job), builder[InstanceOf[c]])
        /\ Carries(call[c].chain, builder[InstanceOf[c]])
  BY <1>1, OwnJob
<1>3. IsBuilder(builder[InstanceOf[c]])
  BY InstanceAssumption DEF OwnInv, SafeInv
<1>4. QED
  BY <1>2, <1>3 DEF OwnTransaction

LEMMA SendOwn ==
  ASSUME OwnInv, [Next]_vars, NEW c \in Callers, Send(c)
  PROVE  OwnInv'
<1>0. call[c].pc = "sign"
  BY DEF Send
<1>1. Shape
  BY DEF OwnInv, SafeInv, EmptyInv
<1>2. /\ call'[c].pc = "sent"
      /\ call'[c].job = call[c].job /\ call'[c].alone = call[c].alone
      /\ \A d \in Callers \ {c} : call'[d] = call[d]
      /\ \A r \in Instances \ {InstanceOf[c]} : builder'[r] = builder[r]
  BY <1>1 DEF Send, Shape, NoCall
<1>3. Own(c)'
  <2>1. SUFFICES ASSUME call[c].alone PROVE Own(c)'
    BY <1>2 DEF Own
  <2>2. \A d \in Callers \ {c} : InstanceOf[d] = InstanceOf[c] => call[d].pc = "idle"
    BY <1>0, <2>1, OwnJob
  <2>3. PICK job \in Jobs[c] :
          /\ call[c].job = {job}
          /\ ~CalledAll(EmptyBuilder(InstanceOf[c]), job.calls).thrown
    BY <1>0, <2>1, OwnJob
  <2>4. QED
    BY <1>2, <2>2, <2>3 DEF Own
<1>4. OwnTransaction(Transaction(c))
  BY <1>0, SignedOwn DEF Transaction
<1>5. \A t \in pool' \ pool : OwnTransaction(t)
  BY <1>4 DEF Send
<1>6. QED
  BY <1>0, <1>2, <1>3, <1>5, ProceedOwn

LEMMA ReturnOwn ==
  ASSUME OwnInv, [Next]_vars, NEW c \in Callers, Return(c)
  PROVE  OwnInv'
<1>0. call[c].pc = "sign"
  BY DEF Return
<1> DEFINE t == [Transaction(c) EXCEPT !.signers = Asked(c) \ NonSigningKeys]
<1>1. OwnTransaction(t)
  BY <1>0, SignedOwn DEF Transaction
<1>2. pool' = pool \cup {t}
  BY DEF Return
<1> HIDE DEF t
<1>3. \A u \in pool' \ pool : OwnTransaction(u)
  BY <1>1, <1>2
<1>4. QED
  BY <1>0, <1>3, EndedOwn DEF Return

LEMMA LandOwn ==
  ASSUME OwnInv, [Next]_vars, NEW t \in pool, Land(t) \/ Expire(t)
  PROVE  OwnInv'
<1>1. UNCHANGED builder /\ pool' \subseteq pool
  BY DEF Land, Expire
<1>2. \A c \in Callers :
        /\ call'[c].pc = call[c].pc /\ call'[c].alone = call[c].alone
        /\ call'[c].job = call[c].job /\ call'[c].chain = call[c].chain
  BY DEF Land, Expire, OwnInv, SafeInv, EmptyInv, Shape, NoCall
<1>3. \A c \in Callers : Own(c)'
  BY <1>1, <1>2 DEF OwnInv, Own
<1>4. SafeInv'
  BY SafeStep DEF OwnInv
<1>5. QED
  BY <1>1, <1>3, <1>4 DEF OwnInv

LEMMA OwnStep == OwnInv /\ [Next]_vars => OwnInv'
<1> SUFFICES ASSUME OwnInv, [Next]_vars
             PROVE  OwnInv'
  OBVIOUS
<1>1. ASSUME NEW c \in Callers, StartCall(c)
      PROVE  OwnInv'
  BY <1>1, StartOwn
<1>2. ASSUME NEW c \in Callers, Proceed(c)
      PROVE  OwnInv'
  <2>1. CASE ReadAccount(c)
    BY <2>1, ReadAccountOwn
  <2>2. CASE Chain(c)
    BY <2>2, ChainOwn
  <2>3. CASE ReadNonce(c)
    BY <2>3, ReadNonceOwn
  <2>4. CASE Reject(c)
    BY <2>4, FailedOwn DEF Reject
  <2>5. CASE Send(c)
    BY <2>5, SendOwn
  <2>6. CASE CannotSign(c) \/ GiveUp(c) \/ Confirm(c)
    BY <2>6, SettledOwn DEF CannotSign, GiveUp, Confirm
  <2>7. CASE Return(c)
    BY <2>7, ReturnOwn
  <2>8. QED
    BY <1>2, <2>1, <2>2, <2>3, <2>4, <2>5, <2>6, <2>7 DEF Proceed
<1>3. ASSUME NEW t \in pool, Land(t) \/ Expire(t)
      PROVE  OwnInv'
  BY <1>3, LandOwn
<1>4. CASE UNCHANGED vars
  <2>1. SafeInv'
    BY SafeStep DEF OwnInv
  <2>2. QED
    BY <1>4, <2>1 DEF vars, OwnInv, Own
<1>5. QED
  BY <1>1, <1>2, <1>3, <1>4 DEF Next

LEMMA OwnAlways == Spec => []OwnInv
<1>1. Init /\ [][Next]_vars => []OwnInv
  BY OwnInit, OwnStep, PTL
<1>2. QED
  BY <1>1, PTL DEF Spec

\* The transaction of a chain of calls that had its instance to itself carries
\* the operations of that chain, all of them and in their order, whatever the
\* chains before it on that instance did; an allocation adds at most one, in a
\* place that was free.
THEOREM TransactionsCarryOwnOperations == Spec => []OwnOperations
<1>1. ASSUME OwnInv
      PROVE  OwnOperations
  <2>1. SUFFICES ASSUME NEW t \in pool, NEW job \in t.job, t.alone
                 PROVE  CarriesOut(Unsigned(t.chain), Alone(t.caller, job))
    BY DEF OwnOperations
  <2>2. PICK now : /\ t.caller \in Callers /\ job \in Jobs[t.caller]
                   /\ IsBuilder(now) /\ Extends(Alone(t.caller, job), now)
                   /\ Carries(t.chain, now)
    BY <1>1, <2>1 DEF OwnInv, OwnTransaction
  <2>3. IsBuilder(Alone(t.caller, job))
    <3>1. InstanceOf[t.caller] \in Instances
      BY <2>2, InstanceAssumption
    <3>2. IsQueue(CalledAll(EmptyBuilder(InstanceOf[t.caller]), job.calls))
      BY <2>2, <3>1, EmptyIsBuilder, JobCalls, CalledAllIsQueue
    <3>3. QED
      BY <3>2 DEF Alone, IsQueue
  <2>4. Unsigned(t.chain) = Operations(now)
    BY <2>2 DEF Carries
  <2>5. QED
    BY <2>2, <2>3, <2>4, CarriedAreOwn
<1>2. QED
  BY <1>1, OwnAlways, PTL

-----------------------------------------------------------------------------
(* The document of the predecessor.                                        *)

\* An instance that is to close the legacy account is first to migrate it,
\* unless a call threw in between.
MigratesFirst(q) ==
  ~q.thrown /\ q.builder.post # <<>> =>
    q.builder.init # <<>> /\ q.builder.init[1].name = "migrate"

LEMMA QueuedMigratesFirst ==
  ASSUME NEW q, IsQueue(q), NEW i,
         \/ MigratesFirst(q)
         \/ i.name = "migrate"
  PROVE  MigratesFirst(QueuedOne(q, i))
<1> DEFINE b == q.builder
           r == QueuedOne(q, i)
<1>1. SUFFICES ASSUME ~r.thrown, r.builder.post # <<>>
               PROVE  r.builder.init # <<>> /\ r.builder.init[1].name = "migrate"
  BY DEF MigratesFirst
<1>2. ~q.thrown /\ ~(Slot(i) # "general" /\ b[Slot(i)] # <<>>)
  BY <1>1 DEF QueuedOne, IsQueue
<1>3. r = [q EXCEPT !.builder = [b EXCEPT ![Slot(i)] = Append(@, i)]]
  BY <1>2 DEF QueuedOne
<1>4. r.builder = [b EXCEPT ![Slot(i)] = Append(@, i)]
  BY <1>3 DEF IsQueue
<1>5. Slot(i) \in {"init", "resize", "close", "general"}
      /\ (i.name = "migrate" => Slot(i) = "init")
  BY DEF Slot
<1>6. {"init", "resize", "close", "general", "post"} \subseteq DOMAIN b
  BY DEF IsQueue, IsBuilder
<1>7. r.builder.post = b.post
  BY <1>4, <1>5, <1>6
<1> HIDE DEF r
<1>8. CASE Slot(i) = "init"
  <2>1. b.init = <<>>
    BY <1>2, <1>8
  <2>2. i.name = "migrate"
    BY <1>1, <1>2, <1>7, <2>1 DEF MigratesFirst
  <2>3. r.builder.init = Append(<<>>, i)
    BY <1>4, <1>6, <1>8, <2>1
  <2>4. Append(<<>>, i) = <<i>> /\ <<i>> # <<>> /\ <<i>>[1] = i
    OBVIOUS
  <2>5. QED
    BY <2>2, <2>3, <2>4
<1>9. CASE Slot(i) # "init"
  <2>1. r.builder.init = b.init
    BY <1>4, <1>6, <1>9
  <2>2. MigratesFirst(q)
    BY <1>5, <1>9
  <2>3. QED
    BY <1>1, <1>2, <1>7, <2>1, <2>2 DEF MigratesFirst
<1>10. QED
  BY <1>8, <1>9

LEMMA CalledMigratesFirst ==
  ASSUME NEW q, IsQueue(q), MigratesFirst(q), NEW c, IsCall(c)
  PROVE  MigratesFirst(Called(q, c))
<1>1. CASE q.thrown
  BY <1>1 DEF Called
<1>2. CASE ~q.thrown /\ DOMAIN c = {"instruction"}
  <2>1. Called(q, c) = QueuedOne(q, c.instruction)
    BY <1>2 DEF Called
  <2>2. QED
    BY <2>1, QueuedMigratesFirst
<1>3. CASE ~q.thrown /\ DOMAIN c \in {{"migrate"}, {"migrate", "payer"}}
  <2> DEFINE key == CHOOSE k \in c.migrate : TRUE
             closing == IF c.migrate = {} THEN <<>>
                        ELSE <<Instruction("close_legacy", "none", key)>>
             payer == Passed(c, "payer", q.builder.wallet)
             making == [Instruction("migrate", "none", Did) EXCEPT !.payer = {payer}]
             longer == [q EXCEPT !.builder.post = @ \o closing]
  <2>1. Called(q, c) = QueuedOne(longer, making)
    BY <1>3 DEF Called, MigrateCalled
  <2>2. making.name = "migrate"
    BY DEF Instruction
  <2>3. \E k \in SolKeys : c.migrate \in {{}, {k}}
    BY <1>3 DEF IsCall
  <2>4. c.migrate # {} =>
          Instruction("close_legacy", "none", key) \in InstrOf({"close_legacy"})
    BY <2>3, InstructionTyped DEF ArgumentsOf, InstrOf
  <2>5. closing \in Seq(InstrOf({"close_legacy"}))
    <3>1. CASE c.migrate = {}
      BY <3>1
    <3>2. CASE c.migrate # {}
      <4>1. closing = <<Instruction("close_legacy", "none", key)>>
        BY <3>2
      <4>2. \A S, x : x \in S => <<x>> \in Seq(S)
        OBVIOUS
      <4>3. QED
        BY <2>4, <3>2, <4>1, <4>2
    <3>3. QED
      BY <3>1, <3>2
  <2> HIDE DEF closing, making
  <2>6. IsQueue(longer)
    BY <2>5, PostIsQueue
  <2> HIDE DEF longer
  <2>7. QED
    BY <2>1, <2>2, <2>6, QueuedMigratesFirst
<1>4. CASE ~q.thrown /\ DOMAIN c \in {{"ethSigner"}, {"partialSigners"}, {"wallet"},
                                      {"alloc"}, {"alloc", "authority"}, {"invalid"}}
  <2>1. \/ Called(q, c).thrown
        \/ /\ Called(q, c).thrown = q.thrown
           /\ Called(q, c).builder.post = q.builder.post
           /\ Called(q, c).builder.init = q.builder.init
    <3>1. {"init", "post"} \subseteq DOMAIN q.builder
      BY DEF IsQueue, IsBuilder
    <3>2. q = [builder |-> q.builder, thrown |-> q.thrown]
      BY DEF IsQueue
    <3>3. CASE DOMAIN c = {"ethSigner"}
      BY <1>4, <3>1, <3>2, <3>3 DEF Called
    <3>4. CASE DOMAIN c = {"partialSigners"}
      BY <1>4, <3>1, <3>2, <3>4 DEF Called
    <3>5. CASE DOMAIN c = {"wallet"}
      BY <1>4, <3>1, <3>2, <3>5 DEF Called
    <3>6. CASE DOMAIN c \in {{"alloc"}, {"alloc", "authority"}}
      BY <1>4, <3>1, <3>2, <3>6 DEF Called
    <3>7. CASE DOMAIN c = {"invalid"}
      BY <1>4, <3>1, <3>2, <3>7 DEF Called
    <3>8. QED
      BY <1>4, <3>3, <3>4, <3>5, <3>6, <3>7
  <2>2. QED
    BY <2>1 DEF MigratesFirst
<1>5. QED
  BY <1>1, <1>2, <1>3, <1>4 DEF IsCall

LEMMA AloneMigratesFirst ==
  ASSUME NEW s \in Instances, NEW calls, IsCalls(calls)
  PROVE  MigratesFirst(CalledAll(EmptyBuilder(s), calls))
<1> DEFINE after == Calling(EmptyBuilder(s), calls)
           Good(q) == IsQueue(q) /\ MigratesFirst(q)
           S == {n \in Nat : n <= Len(calls) => Good(after[n])}
<1>0. Len(calls) \in Nat
  BY DEF IsCalls
<1>1. 0 \in S
  <2>1. IsQueue([builder |-> EmptyBuilder(s), thrown |-> FALSE])
    BY EmptyIsBuilder DEF IsQueue
  <2>2. MigratesFirst([builder |-> EmptyBuilder(s), thrown |-> FALSE])
    BY DEF MigratesFirst, EmptyBuilder
  <2>3. after[0] = [builder |-> EmptyBuilder(s), thrown |-> FALSE]
    BY <1>0, CallingSteps
  <2>4. QED
    BY <2>1, <2>2, <2>3
<1>2. ASSUME NEW n \in Nat, n \in S
      PROVE  n + 1 \in S
  <2>1. SUFFICES ASSUME n + 1 <= Len(calls) PROVE Good(after[n + 1])
    OBVIOUS
  <2>2. Good(after[n]) /\ IsCall(calls[n + 1])
    BY <1>0, <1>2, <2>1 DEF IsCalls
  <2>3. after[n + 1] = Called(after[n], calls[n + 1])
    BY <1>0, <2>1, CallingSteps
  <2> HIDE DEF after
  <2>4. QED
    BY <2>2, <2>3, CalledIsQueue, CalledMigratesFirst
<1> HIDE DEF S
<1>3. \A n \in Nat : n \in S
  BY <1>1, <1>2, Induction
<1>4. Good(after[Len(calls)])
  BY <1>0, <1>3 DEF S
<1>5. QED
  BY <1>4 DEF CalledAll

\* Among the operations of an instance, only those that follow the transaction
\* close the legacy account.
LEMMA ClosingIsPost ==
  ASSUME NEW b, IsBuilder(b), NEW p \in 1..Len(Operations(b)),
         Operations(b)[p].name = "close_legacy"
  PROVE  b.post # <<>>
<1>1. SUFFICES ASSUME b.post = <<>> PROVE FALSE
  OBVIOUS
<1>2. Chained(InstructionChain(b))
  BY InstructionChained
<1>3. InstructionChain(b) \in Seq(InstrOf(ChainNames))
  BY <1>2 DEF Chained
<1>4. Operations(b) = InstructionChain(b)
  BY <1>1, <1>3, ConcatEmptySeq DEF Operations
<1>5. Operations(b)[p].name \in ChainNames
  <2>1. p \in 1..Len(InstructionChain(b))
    BY <1>4
  <2>2. InstructionChain(b)[p] \in InstrOf(ChainNames)
    BY <1>3, <2>1, ElementOfSeq
  <2>3. QED
    BY <1>4, <2>2, InstrOfNames
<1>6. QED
  BY <1>5 DEF ChainNames, Operation

\* A transaction of a caller that was alone begins with the migration if it
\* closes the legacy account anywhere.
LEMMA ClosingAfterMigration ==
  ASSUME NEW t, OwnTransaction(t), t.alone,
         NEW p \in DOMAIN t.chain, t.chain[p].name = "close_legacy"
  PROVE  t.chain[1].name = "migrate"
<1>1. PICK job \in Jobs[t.caller] :
        /\ ~CalledAll(EmptyBuilder(InstanceOf[t.caller]), job.calls).thrown
        /\ \E now : /\ IsBuilder(now) /\ Extends(Alone(t.caller, job), now)
                    /\ Carries(t.chain, now)
  BY DEF OwnTransaction
<1>2. PICK now : /\ IsBuilder(now) /\ Extends(Alone(t.caller, job), now)
                 /\ Carries(t.chain, now)
  BY <1>1
<1> DEFINE q == CalledAll(EmptyBuilder(InstanceOf[t.caller]), job.calls)
           b == Alone(t.caller, job)
<1>3. t.caller \in Callers /\ InstanceOf[t.caller] \in Instances
  BY InstanceAssumption DEF OwnTransaction
<1>4. IsQueue(q) /\ MigratesFirst(q) /\ IsCalls(job.calls)
  BY <1>3, EmptyIsBuilder, JobCalls, CalledAllIsQueue, AloneMigratesFirst
<1>5. IsBuilder(b) /\ b = q.builder /\ ~q.thrown
  BY <1>1, <1>4 DEF Alone, IsQueue
<1> HIDE DEF q, b
<1>6. now.post # <<>>
  <2>1. /\ p \in 1..Len(Operations(now))
        /\ Operations(now)[p].name = "close_legacy"
    BY <1>2 DEF Carries
  <2>2. QED
    BY <1>2, <2>1, ClosingIsPost
<1>7. now.post = b.post
  BY <1>2, <1>5 DEF Extends, IsBuilder, b
<1>8. b.init # <<>> /\ b.init[1].name = "migrate"
  BY <1>4, <1>5, <1>6, <1>7 DEF MigratesFirst
<1>9. now.init = b.init
  BY <1>2, <1>5, <1>8 DEF Extends, IsBuilder, b
<1>10. 1 \in 1..Len(now.init)
  <2>1. now.init \in Seq(InstrOf(Making)) /\ now.init # <<>>
    BY <1>2, <1>8, <1>9 DEF IsBuilder
  <2>2. Len(now.init) \in Nat \ {0}
    BY <2>1, EmptySeq
  <2>3. QED
    BY <2>2
<1>11. 1 \in DOMAIN t.chain /\ Operations(now)[1] = now.init[1]
  BY <1>2, <1>10, PlacesKept DEF Carries
<1>12. t.chain[1].name = Operations(now)[1].name
  BY <1>2, <1>11 DEF Carries
<1>13. QED
  BY <1>8, <1>9, <1>11, <1>12

\* The document that the predecessor program has of a DID is closed only by a
\* transaction that begins with its migration to this program, unless its
\* caller shared the instance or found it as a chain before had left it.
THEOREM DocumentsAreMigratedFirst == Spec => LegacyKept
<1> DEFINE Kept ==
      \A doc \in account.legacy :
        doc \notin account'.legacy =>
          \E t \in pool \ pool' :
            t.alone =>
              /\ ~account.exists /\ t.chain[1].name = "migrate"
              /\ \/ account'.exists
                 \/ \E p \in DOMAIN t.chain : t.chain[p].name = "close"
<1>1. ASSUME OwnInv, [Next]_vars
      PROVE  [Kept]_vars
  <2>1. ASSUME NEW t \in pool, Land(t)
        PROVE  Kept
    <3>1. SUFFICES ASSUME account'.legacy # account.legacy, t.alone
                   PROVE  /\ t \in pool \ pool'
                          /\ ~account.exists /\ t.chain[1].name = "migrate"
                          /\ \/ account'.exists
                             \/ \E p \in DOMAIN t.chain : t.chain[p].name = "close"
      <4>1. t \in pool \ pool'
        BY <2>1 DEF Land
      <4>2. QED
        BY <4>1
    <3>2. /\ IsAccount(account) /\ TypedChain(t.chain) /\ OwnTransaction(t)
          /\ Len(t.chain) \in Nat /\ DOMAIN t.chain = 1..Len(t.chain)
      BY <1>1 DEF OwnInv, SafeInv, Sendable, TypedChain
    <3>3. account' \in Execute(account, t.chain, t.signers)
      BY <2>1, <3>1 DEF Land
    <3>4. /\ account' \in Run(account, t.chain, t.signers)[Len(t.chain)]
          /\ Len(t.chain) \in 0..Len(t.chain)
      BY <3>2, <3>3 DEF Execute
    <3>5. /\ \/ account'.legacy = account.legacy
             \/ \E p \in 1..Len(t.chain) : t.chain[p].name = "close_legacy"
          /\ Len(t.chain) >= 1 /\ t.chain[1].name = "migrate" =>
               /\ ~account.exists
               /\ account'.exists \/ \E p \in 1..Len(t.chain) : t.chain[p].name = "close"
      BY <3>2, <3>4, RunLegacy
    <3>6. PICK p \in 1..Len(t.chain) : t.chain[p].name = "close_legacy"
      BY <3>1, <3>5
    <3>7. t.chain[1].name = "migrate"
      BY <3>1, <3>2, <3>6, ClosingAfterMigration
    <3>8. Len(t.chain) >= 1
      BY <3>2, <3>6
    <3>9. t \in pool \ pool'
      BY <2>1 DEF Land
    <3>10. QED
      BY <3>2, <3>5, <3>7, <3>8, <3>9
  <2>2. CASE UNCHANGED account
    BY <2>2
  <2>3. ASSUME NEW c \in Callers, StartCall(c) \/ Proceed(c)
        PROVE  UNCHANGED account
    BY <2>3 DEF StartCall, Proceed, ReadAccount, Chain, ReadNonce, Reject, Send,
                CannotSign, Return, GiveUp, Confirm, Settled, Failed
  <2>4. ASSUME NEW t \in pool, Expire(t)
        PROVE  UNCHANGED account
    BY <2>4 DEF Expire
  <2>5. CASE UNCHANGED vars
    BY <2>5
  <2>6. QED
    BY <1>1, <2>1, <2>2, <2>3, <2>4, <2>5 DEF Next
<1>2. Spec => [][Kept]_vars
  BY <1>1, OwnAlways, PTL DEF Spec
<1>3. QED
  BY <1>2 DEF LegacyKept
=============================================================================
