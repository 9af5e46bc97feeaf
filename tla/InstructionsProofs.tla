------------------------- MODULE InstructionsProofs -------------------------
(***************************************************************************)
(* Lemmas about Instructions, for every value of its constants: what an    *)
(* instruction leaves, and what a transaction of any length does.          *)
(***************************************************************************)
EXTENDS Instructions, DidAccountProofs

\* The instructions that write the account they find.
Modifying ==
  {"resize", "add_verification_method", "remove_verification_method",
   "set_vm_flags", "add_service", "remove_service", "set_controllers", "update"}
InstructionNames == Modifying \cup {"initialize", "migrate", "close", "close_legacy"}

Typed(i) == i.name \in InstructionNames /\ i.arg \in ArgumentsOf(i.name)

-----------------------------------------------------------------------------
(* Run satisfies its own recursion equation.                               *)

LEMMA RunDefined ==
  ASSUME NEW account, NEW instructions, Len(instructions) \in Nat, NEW signers
  PROVE  Run(account, instructions, signers) =
           [n \in 0..Len(instructions) |->
              IF n = 0 THEN {account}
              ELSE UNION {Outcome(a, instructions[n], signers) :
                            a \in Run(account, instructions, signers)[n - 1]}]
<1> DEFINE Steps(f, k) ==
      f = [n \in 0..k |->
             IF n = 0 THEN {account}
             ELSE UNION {Outcome(a, instructions[n], signers) : a \in f[n - 1]}]
    S == {k \in Nat : \E f : Steps(f, k)}
<1>1. 0 \in S
  <2>1. Steps([n \in 0..0 |-> {account}], 0)
    OBVIOUS
  <2>2. QED
    BY <2>1
<1>2. ASSUME NEW k \in Nat, k \in S
      PROVE  k + 1 \in S
  <2>1. PICK f : Steps(f, k)
    BY <1>2
  <2> DEFINE last == UNION {Outcome(a, instructions[k + 1], signers) : a \in f[k]}
             g == [n \in 0..(k + 1) |-> IF n = k + 1 THEN last ELSE f[n]]
  <2>2. \A n \in 0..k : g[n] = f[n]
    OBVIOUS
  <2>3. g[k + 1] = last
    OBVIOUS
  <2>4. \A n \in 0..(k + 1) : n # 0 => n - 1 \in 0..k
    OBVIOUS
  <2>5. \A n \in 0..k :
          f[n] = IF n = 0 THEN {account}
                 ELSE UNION {Outcome(a, instructions[n], signers) : a \in f[n - 1]}
    BY <2>1
  <2>6. Steps(g, k + 1)
    <3>1. SUFFICES ASSUME NEW n \in 0..(k + 1)
                   PROVE  g[n] = IF n = 0 THEN {account}
                                 ELSE UNION {Outcome(a, instructions[n], signers) :
                                               a \in g[n - 1]}
      OBVIOUS
    <3> HIDE DEF g
    <3>2. CASE n \in 0..k
      BY <2>2, <2>4, <2>5, <3>2
    <3>3. CASE n = k + 1
      <4>1. n # 0 /\ n - 1 = k /\ n - 1 \in 0..k
        BY <3>3
      <4>2. QED
        BY <2>2, <2>3, <3>3, <4>1
    <3>4. QED
      BY <3>2, <3>3
  <2> HIDE DEF g, Steps
  <2>7. QED
    BY <2>6
<1> HIDE DEF S
<1>3. \A k \in Nat : k \in S
  BY <1>1, <1>2, Induction
<1> USE DEF S
<1>4. QED
  BY <1>3 DEF Run

\* The accounts after no instruction, and after one more.
LEMMA RunSteps ==
  ASSUME NEW account, NEW instructions, Len(instructions) \in Nat, NEW signers
  PROVE  /\ Run(account, instructions, signers)[0] = {account}
         /\ \A n \in 1..Len(instructions) : \A b :
              b \in Run(account, instructions, signers)[n] <=>
              \E a \in Run(account, instructions, signers)[n - 1] :
                b \in Outcome(a, instructions[n], signers)
<1> DEFINE run == Run(account, instructions, signers)
<1> HIDE DEF run
<1>1. run = [n \in 0..Len(instructions) |->
               IF n = 0 THEN {account}
               ELSE UNION {Outcome(a, instructions[n], signers) : a \in run[n - 1]}]
  BY RunDefined DEF run
<1>2. run[0] = {account}
  BY <1>1
<1>3. ASSUME NEW n \in 1..Len(instructions), NEW b
      PROVE  b \in run[n] <=>
             \E a \in run[n - 1] : b \in Outcome(a, instructions[n], signers)
  <2>1. n \in 0..Len(instructions) /\ n # 0
    OBVIOUS
  <2>2. run[n] = UNION {Outcome(a, instructions[n], signers) : a \in run[n - 1]}
    BY <1>1, <2>1
  <2>3. QED
    BY <2>2
<1>4. QED
  BY <1>2, <1>3 DEF run

\* Where one account leads to another within a transaction.
LEMMA RunFrom ==
  ASSUME NEW account, NEW instructions, Len(instructions) \in Nat, NEW signers,
         NEW n \in Nat, n + 1 <= Len(instructions),
         NEW b \in Run(account, instructions, signers)[n + 1]
  PROVE  \E a \in Run(account, instructions, signers)[n] :
           b \in Outcome(a, instructions[n + 1], signers)
<1> DEFINE run == Run(account, instructions, signers)
<1>1. \A m \in 1..Len(instructions) : \A c :
        c \in run[m] <=> \E a \in run[m - 1] : c \in Outcome(a, instructions[m], signers)
  BY RunSteps
<1> HIDE DEF run
<1>2. n + 1 \in 1..Len(instructions) /\ (n + 1) - 1 = n
  OBVIOUS
<1>3. \E a \in run[(n + 1) - 1] : b \in Outcome(a, instructions[n + 1], signers)
  BY <1>1, <1>2 DEF run
<1>4. QED
  BY <1>2, <1>3 DEF run

-----------------------------------------------------------------------------
(* What one instruction leaves.                                            *)

\* What a handler writes is valid, has finite lists, and has the nonce it was
\* given.
LEMMA ModifiedValid ==
  ASSUME NEW a, Valid(Did, a), FiniteLists(a),
         NEW i, i.name \in Modifying, i.arg \in ArgumentsOf(i.name),
         NEW b \in Modified(a, i)
  PROVE  Valid(Did, b) /\ FiniteLists(b) /\ b.nonce = a.nonce
<1> DEFINE Good == Valid(Did, b) /\ FiniteLists(b) /\ b.nonce = a.nonce
<1>1. CASE i.name = "resize"
  BY <1>1 DEF Modified
<1>2. CASE i.name = "add_verification_method"
  <2>1. i.arg \in VerificationMethods
    BY <1>2 DEF ArgumentsOf
  <2>2. /\ CanSetVerificationMethods(AllMethods(a), {i.arg})
        /\ b = SetVerificationMethods(a, AllMethods(a), {i.arg})
    BY <1>2 DEF Modified, When
  <2>3. IsFiniteSet(AllMethods(a) \cup {i.arg})
    BY FS_AddElement, FS_Union, FS_Singleton DEF AllMethods, FiniteLists
  <2>4. QED
    BY <2>1, <2>2, <2>3, AddMethodValid, FiniteUntouched, NonceUntouched
<1>3. CASE i.name = "remove_verification_method"
  <2>1. b = RemoveMethod(a, i.arg)
    BY <1>3 DEF Modified, When
  <2>2. QED
    BY <2>1, RemoveMethodValid, FiniteUntouched, NonceUntouched
<1>4. CASE i.name = "set_vm_flags"
  <2>1. i.arg.flags \in SUBSET (0..15)
    BY <1>4 DEF ArgumentsOf
  <2>2. /\ Fragmented(AllMethods(a), i.arg.fragment) # {}
        /\ b = WithFlags(a, i.arg.fragment, i.arg.flags)
    BY <1>4 DEF Modified, When
  <2>3. QED
    BY <2>1, <2>2, WithFlagsValid, FiniteUntouched, NonceUntouched
<1>5. CASE i.name = "add_service"
  <2>1. i.arg.service \in Services
    BY <1>5 DEF ArgumentsOf
  <2>2. b = AddedService(a, i.arg.service)
    BY <1>5 DEF Modified, When
  <2>3. QED
    BY <2>1, <2>2, ServicesValid, FiniteUntouched, NonceUntouched
<1>6. CASE i.name = "remove_service"
  <2>1. b = [a EXCEPT !.services = WithoutFirst(@, i.arg)]
    BY <1>6 DEF Modified, When
  <2>2. QED
    BY <2>1, ServicesValid, FiniteUntouched, NonceUntouched
<1>7. CASE i.name = "set_controllers"
  <2>1. /\ i.arg.native_controllers \in SUBSET SolKeys
        /\ i.arg.other_controllers \in SUBSET OtherDids
        /\ IsFiniteSet(i.arg.native_controllers)
        /\ IsFiniteSet(i.arg.other_controllers)
    BY <1>7 DEF ArgumentsOf, ControllersArgs
  <2>2. /\ Did \notin i.arg.native_controllers
        /\ i.arg.other_controllers \subseteq ForeignDids
        /\ b = SetControllers(a, i.arg.native_controllers, i.arg.other_controllers)
    BY <1>7 DEF Modified, When, CanSetControllers, Valid
  <2>3. QED
    BY <2>1, <2>2, ControllersLemma, FiniteUntouched, NonceUntouched
<1>8. CASE i.name = "update"
  <2>1. i.arg \in UpdateArgs /\ FiniteLists(i.arg)
    BY <1>8 DEF ArgumentsOf
  <2>2. /\ CanSetServices(i.arg.services)
        /\ CanSetVerificationMethods({}, i.arg.verification_methods)
        /\ CanSetControllers(a, i.arg.native_controllers, i.arg.other_controllers)
        /\ b = Updated(a, i.arg)
    BY <1>8 DEF Modified, When
  <2>3. Valid(Did, b)
    BY <2>1, <2>2, UpdatedValid
  <2> DEFINE served == SetServices(a, i.arg.services)
             named == SetVerificationMethods(served, {}, i.arg.verification_methods)
  <2>4. Valid(Did, served) /\ FiniteLists(served) /\ served.nonce = a.nonce
    <3>1. Valid(Did, served)
      BY <2>1, <2>2, ServicesValid DEF UpdateArgs
    <3>2. FiniteLists(served)
      BY <2>1, FiniteUntouched DEF FiniteLists
    <3>3. served.nonce = a.nonce
      BY NonceUntouched DEF SetServices
    <3>4. QED
      BY <3>1, <3>2, <3>3
  <2> HIDE DEF served
  <2>5. Valid(Did, named) /\ FiniteLists(named) /\ named.nonce = a.nonce
    <3>1. Valid(Did, named)
      BY <2>1, <2>2, <2>4, ReplaceMethodsValid DEF UpdateArgs, CanSetVerificationMethods
    <3>2. IsFiniteSet({} \cup i.arg.verification_methods)
      BY <2>1 DEF FiniteLists
    <3>3. FiniteLists(named)
      BY <2>4, <3>2, FiniteUntouched
    <3>4. named.nonce = a.nonce
      BY <2>4, NonceUntouched
    <3>5. QED
      BY <3>1, <3>3, <3>4
  <2>6. b = SetControllers(named, i.arg.native_controllers, i.arg.other_controllers)
    BY <2>2 DEF Updated, served
  <2> HIDE DEF named
  <2>7. IsFiniteSet(i.arg.native_controllers) /\ IsFiniteSet(i.arg.other_controllers)
    BY <2>1 DEF FiniteLists
  <2>8. FiniteLists(b)
    BY <2>5, <2>6, <2>7, FiniteUntouched
  <2>9. b.nonce = a.nonce
    BY <2>5, <2>6, NonceUntouched
  <2>10. QED
    BY <2>3, <2>8, <2>9
<1>9. QED
  BY <1>1, <1>2, <1>3, <1>4, <1>5, <1>6, <1>7, <1>8 DEF Modifying

\* The branches of Outcome: what each instruction finds and what it leaves.
ClosesLegacy(account, i, b) ==
  i.name = "close_legacy" /\ b = [account EXCEPT !.legacy = {}]

Initializes(account, i, b) ==
  /\ i.name = "initialize" /\ ~account.exists
  /\ b = [account EXCEPT !.exists = TRUE, !.data = NewAccount(Did), !.space = i.arg]

Migrates(account, i, b) ==
  /\ i.name = "migrate" /\ ~account.exists
  /\ \E doc \in account.legacy :
       /\ CanMigrate(doc)
       /\ b = [account EXCEPT !.exists = TRUE, !.data = Migrated(doc),
                              !.space = PostMigrationSize(doc)]

Closes(account, i, b) ==
  /\ i.name = "close" /\ account.exists /\ Authorised(account.data, i)
  /\ b = [NoAccount EXCEPT !.legacy = account.legacy]

Modifies(account, i, b) ==
  /\ i.name \in Modifying /\ account.exists /\ Authorised(account.data, i)
  /\ \E a \in Modified(Counted(account.data, i.eth), i) :
       b = [account EXCEPT !.exists = TRUE, !.data = a,
              !.space = IF i.name = "resize" THEN i.arg ELSE @]

LEMMA OutcomeCases ==
  ASSUME NEW account, NEW i, Typed(i), NEW signers,
         NEW b \in Outcome(account, i, signers)
  PROVE  /\ SignersOf(i) \subseteq signers
         /\ \/ ClosesLegacy(account, i, b) \/ Initializes(account, i, b)
            \/ Migrates(account, i, b) \/ Closes(account, i, b)
            \/ Modifies(account, i, b)
<1> DEFINE size == IF i.name \in {"initialize", "resize"} THEN i.arg ELSE account.space
           Stored(a, bytes) ==
             [account EXCEPT !.exists = TRUE, !.data = a, !.space = bytes]
           Fitting(contents, bytes) ==
             {Stored(a, bytes) :
                a \in {c \in contents : DISCRIMINATOR + Size(c) <= bytes}}
<1>1. SignersOf(i) \subseteq signers
  BY DEF Outcome
<1>2. CASE i.name = "close_legacy"
  BY <1>1, <1>2 DEF Outcome, ClosesLegacy
<1>3. CASE i.name = "initialize"
  <2>1. ~account.exists /\ b \in Fitting({NewAccount(Did)}, i.arg)
    BY <1>1, <1>3 DEF Outcome
  <2>2. QED
    BY <1>1, <1>3, <2>1 DEF Initializes
<1>4. CASE i.name = "migrate"
  <2>1. /\ ~account.exists
        /\ b \in UNION {Fitting({Migrated(doc)}, PostMigrationSize(doc)) :
                          doc \in {l \in account.legacy : CanMigrate(l)}}
    BY <1>1, <1>4 DEF Outcome
  <2>2. PICK doc \in account.legacy :
          CanMigrate(doc) /\ b \in Fitting({Migrated(doc)}, PostMigrationSize(doc))
    BY <2>1
  <2>3. b = Stored(Migrated(doc), PostMigrationSize(doc))
    BY <2>2
  <2>4. QED
    BY <1>1, <1>4, <2>1, <2>2, <2>3 DEF Migrates
<1>5. CASE i.name = "close"
  BY <1>1, <1>5 DEF Outcome, Closes
<1>6. CASE i.name \in Modifying
  <2>1. i.name \notin {"close_legacy", "initialize", "migrate", "close"}
    BY <1>6 DEF Modifying
  <2>2. /\ account.exists /\ Authorised(account.data, i)
        /\ b \in Fitting(Modified(Counted(account.data, i.eth), i), size)
    BY <1>1, <2>1 DEF Outcome
  <2>3. size = IF i.name = "resize" THEN i.arg ELSE account.space
    BY <2>1
  <2> HIDE DEF size
  <2>4. QED
    BY <1>1, <1>6, <2>2, <2>3 DEF Modifies
<1>7. QED
  BY <1>2, <1>3, <1>4, <1>5, <1>6 DEF Typed, InstructionNames

\* Every handler leaves an account that is well-formed.
LEMMA OutcomeAccount ==
  ASSUME NEW account, IsAccount(account), NEW i, Typed(i), NEW signers,
         NEW b \in Outcome(account, i, signers)
  PROVE  IsAccount(b)
<1> DEFINE Cell == [exists: BOOLEAN, data: DidAccounts, space: Nat,
                    legacy: SUBSET LegacyAccounts]
<1>1. /\ account \in Cell
      /\ Valid(Did, account.data) /\ FiniteLists(account.data)
      /\ \A doc, other \in account.legacy : doc = other
  BY DEF IsAccount
<1>2. ASSUME NEW a, Valid(Did, a), FiniteLists(a), NEW bytes \in Nat,
             b = [account EXCEPT !.exists = TRUE, !.data = a, !.space = bytes]
      PROVE  IsAccount(b)
  <2>1. a \in DidAccounts
    BY <1>2 DEF Valid
  <2>2. b \in Cell /\ b.data = a /\ b.legacy = account.legacy
    BY <1>1, <1>2, <2>1
  <2>3. QED
    BY <1>1, <1>2, <2>2 DEF IsAccount
<1>3. Valid(Did, NewAccount(Did)) /\ FiniteLists(NewAccount(Did))
  BY NewValid, DidAssumption, FS_EmptySet DEF FiniteLists, NewAccount, InitAccount
<1>4. CASE ClosesLegacy(account, i, b)
  <2>1. b \in Cell /\ b.data = account.data /\ b.legacy = {}
    BY <1>1, <1>4 DEF ClosesLegacy
  <2>2. QED
    BY <1>1, <2>1 DEF IsAccount
<1>5. CASE Initializes(account, i, b)
  <2>1. i.arg \in Nat
    BY <1>5 DEF Initializes, Typed, ArgumentsOf
  <2>2. QED
    BY <1>2, <1>3, <1>5, <2>1 DEF Initializes
<1>6. CASE Migrates(account, i, b)
  <2>0. PICK doc \in account.legacy :
          /\ CanMigrate(doc)
          /\ b = [account EXCEPT !.exists = TRUE, !.data = Migrated(doc),
                                 !.space = PostMigrationSize(doc)]
    BY <1>6 DEF Migrates
  <2>1. /\ doc \in LegacyDidAccounts /\ doc.authority = Did
        /\ IsFiniteSet(doc.verification_method)
        /\ IsFiniteSet(doc.service) /\ IsFiniteSet(doc.controller)
    BY <1>1 DEF LegacyAccounts
  <2>2. Valid(Did, Migrated(doc))
    BY <2>0, <2>1, MigratedValid
  <2>3. PostMigrationSize(doc) \in Nat /\ FiniteLists(Migrated(doc))
    BY <2>1, MigratedFinite
  <2>4. QED
    BY <1>2, <2>0, <2>2, <2>3
<1>7. CASE Closes(account, i, b)
  <2>1. NewAccount(Did) \in DidAccounts
    BY <1>3 DEF Valid
  <2>2. b \in Cell /\ b.data = NewAccount(Did) /\ b.legacy = account.legacy
    BY <1>1, <1>7, <2>1 DEF Closes, NoAccount
  <2>3. QED
    BY <1>1, <1>3, <2>2 DEF IsAccount
<1>8. CASE Modifies(account, i, b)
  <2> DEFINE c == Counted(account.data, i.eth)
             bytes == IF i.name = "resize" THEN i.arg ELSE account.space
  <2>0. PICK a \in Modified(c, i) :
          b = [account EXCEPT !.exists = TRUE, !.data = a, !.space = bytes]
    BY <1>8 DEF Modifies
  <2>1. Valid(Did, c)
    BY <1>1, <1>8, CountedValid DEF Modifies, Authorised
  <2>2. FiniteLists(c)
    BY <1>1 DEF Counted, FiniteLists, Valid, DidAccounts
  <2>3. bytes \in Nat
    BY <1>1 DEF Typed, ArgumentsOf
  <2> HIDE DEF c, bytes
  <2>4. Valid(Did, a) /\ FiniteLists(a)
    BY <1>8, <2>1, <2>2, ModifiedValid DEF Modifies, Typed
  <2>5. QED
    BY <1>2, <2>0, <2>3, <2>4
<1>9. QED
  BY <1>4, <1>5, <1>6, <1>7, <1>8, OutcomeCases

\* What an instruction does to the nonce of an account, and whether it makes or
\* closes one.
LEMMA OutcomeNonce ==
  ASSUME NEW account, IsAccount(account), NEW i, Typed(i), NEW signers,
         NEW b \in Outcome(account, i, signers)
  PROVE  /\ account.exists => i.name \notin {"initialize", "migrate"}
         /\ ~account.exists => i.name \in {"initialize", "migrate", "close_legacy"}
         /\ ~account.exists /\ b.exists => i.name \in {"initialize", "migrate"}
         /\ i.name \in {"initialize", "migrate"} => b.exists
         /\ account.exists /\ ~b.exists => i.name = "close"
         /\ i.name # "close_legacy" => b.legacy = account.legacy
         /\ account.exists /\ b.exists =>
              b.data.nonce =
                IF i.eth = {} \/ i.name = "close_legacy" THEN account.data.nonce
                ELSE account.data.nonce + 1
<1>1. account = [exists |-> account.exists, data |-> account.data,
                 space |-> account.space, legacy |-> account.legacy]
      /\ Valid(Did, account.data) /\ FiniteLists(account.data)
  BY DEF IsAccount
<1>2. CASE ClosesLegacy(account, i, b)
  BY <1>1, <1>2 DEF ClosesLegacy
<1>3. CASE Initializes(account, i, b)
  BY <1>1, <1>3 DEF Initializes
<1>4. CASE Migrates(account, i, b)
  BY <1>1, <1>4 DEF Migrates
<1>5. CASE Closes(account, i, b)
  BY <1>5 DEF Closes, NoAccount
<1>6. CASE Modifies(account, i, b)
  <2> DEFINE c == Counted(account.data, i.eth)
             bytes == IF i.name = "resize" THEN i.arg ELSE account.space
  <2>0. PICK a \in Modified(c, i) :
          b = [account EXCEPT !.exists = TRUE, !.data = a, !.space = bytes]
    BY <1>6 DEF Modifies
  <2>1. Valid(Did, c)
    BY <1>1, <1>6, CountedValid DEF Modifies, Authorised
  <2>2. FiniteLists(c)
    BY <1>1 DEF Counted, FiniteLists, Valid, DidAccounts
  <2>3. c.nonce = IF i.eth = {} THEN account.data.nonce ELSE account.data.nonce + 1
    BY <1>1 DEF Counted, Valid, DidAccounts
  <2> HIDE DEF c, bytes
  <2>4. a.nonce = c.nonce
    BY <1>6, <2>1, <2>2, ModifiedValid DEF Modifies, Typed
  <2>5. b.exists /\ b.legacy = account.legacy /\ b.data = a
    BY <1>1, <2>0
  <2>6. account.exists /\ i.name \notin {"initialize", "migrate", "close", "close_legacy"}
    BY <1>6 DEF Modifies, Modifying
  <2>7. QED
    BY <2>3, <2>4, <2>5, <2>6
<1>7. QED
  BY <1>2, <1>3, <1>4, <1>5, <1>6, OutcomeCases

\* An instruction leaves at most one account.
LEMMA OutcomeOne ==
  ASSUME NEW account, IsAccount(account), NEW i, Typed(i), NEW signers,
         NEW b \in Outcome(account, i, signers),
         NEW c \in Outcome(account, i, signers)
  PROVE  b = c
<1>1. \A doc, other \in account.legacy : doc = other
  BY DEF IsAccount
<1>2. \A d \in Outcome(account, i, signers) :
        \/ ClosesLegacy(account, i, d) \/ Initializes(account, i, d)
        \/ Migrates(account, i, d) \/ Closes(account, i, d)
        \/ Modifies(account, i, d)
  BY OutcomeCases
<1>3. CASE i.name = "close_legacy"
  BY <1>2, <1>3 DEF ClosesLegacy, Initializes, Migrates, Closes, Modifies, Modifying
<1>4. CASE i.name = "initialize"
  BY <1>2, <1>4 DEF ClosesLegacy, Initializes, Migrates, Closes, Modifies, Modifying
<1>5. CASE i.name = "migrate"
  <2>1. Migrates(account, i, b) /\ Migrates(account, i, c)
    BY <1>2, <1>5 DEF ClosesLegacy, Initializes, Closes, Modifies, Modifying
  <2>2. QED
    BY <1>1, <2>1 DEF Migrates
<1>6. CASE i.name = "close"
  BY <1>2, <1>6 DEF ClosesLegacy, Initializes, Migrates, Closes, Modifies, Modifying
<1>7. CASE i.name \in Modifying
  <2> DEFINE a == Counted(account.data, i.eth)
  <2>1. Modifies(account, i, b) /\ Modifies(account, i, c)
    BY <1>2, <1>7 DEF ClosesLegacy, Initializes, Migrates, Closes, Modifying
  <2>2. \A x, y \in Modified(a, i) : x = y
    <3> HIDE DEF a
    <3>1. \A condition, result : \A x, y \in When(condition, result) : x = y
      BY DEF When
    <3>2. QED
      BY <1>7, <3>1 DEF Modified, Modifying
  <2>3. QED
    BY <2>1, <2>2 DEF Modifies
<1>8. QED
  BY <1>3, <1>4, <1>5, <1>6, <1>7 DEF Typed, InstructionNames

-----------------------------------------------------------------------------
(* What a transaction of any length does.                                  *)

\* A chain of instructions that are typed but for their signatures.
TypedChain(chain) ==
  Len(chain) \in Nat /\ \A p \in 1..Len(chain) : Typed(chain[p])

\* All accounts on the way are well-formed, and there is at most one of them
\* after each instruction.
LEMMA RunAccount ==
  ASSUME NEW account, IsAccount(account), NEW chain, TypedChain(chain), NEW signers
  PROVE  \A n \in 0..Len(chain) :
           /\ \A b \in Run(account, chain, signers)[n] : IsAccount(b)
           /\ \A b, c \in Run(account, chain, signers)[n] : b = c
<1> DEFINE run == Run(account, chain, signers)
           Good(n) == /\ \A b \in run[n] : IsAccount(b)
                      /\ \A b, c \in run[n] : b = c
           S == {n \in Nat : n <= Len(chain) => Good(n)}
<1>0. Len(chain) \in Nat
  BY DEF TypedChain
<1>1. 0 \in S
  <2>1. run[0] = {account}
    BY <1>0, RunSteps
  <2>2. Good(0)
    BY <2>1
  <2>3. QED
    BY <2>2
<1>2. ASSUME NEW n \in Nat, n \in S
      PROVE  n + 1 \in S
  <2>1. SUFFICES ASSUME n + 1 <= Len(chain) PROVE Good(n + 1)
    OBVIOUS
  <2>2. Good(n)
    BY <1>0, <1>2, <2>1
  <2>3. \A b \in run[n + 1] : \E a \in run[n] : b \in Outcome(a, chain[n + 1], signers)
    BY <1>0, <2>1, RunFrom
  <2>4. Typed(chain[n + 1])
    BY <1>0, <2>1 DEF TypedChain
  <2> HIDE DEF run
  <2>5. \A b \in run[n + 1] : IsAccount(b)
    BY <2>2, <2>3, <2>4, OutcomeAccount
  <2>6. ASSUME NEW b \in run[n + 1], NEW c \in run[n + 1]
        PROVE  b = c
    <3>1. PICK x \in run[n] : b \in Outcome(x, chain[n + 1], signers)
      BY <2>3
    <3>2. PICK y \in run[n] : c \in Outcome(y, chain[n + 1], signers)
      BY <2>3
    <3>3. x = y /\ IsAccount(x)
      BY <2>2
    <3>4. QED
      BY <2>4, <3>1, <3>2, <3>3, OutcomeOne
  <2>7. QED
    BY <2>5, <2>6
<1> HIDE DEF S
<1>3. \A n \in Nat : n \in S
  BY <1>1, <1>2, Induction
<1>4. \A n \in 0..Len(chain) : Good(n)
  BY <1>0, <1>3 DEF S
<1>5. QED
  BY <1>4

\* When an instruction fails, so does the transaction.
LEMMA RunFails ==
  ASSUME NEW account, NEW chain, Len(chain) \in Nat, NEW signers,
         NEW m \in 0..Len(chain), Run(account, chain, signers)[m] = {}
  PROVE  Execute(account, chain, signers) = {}
<1> DEFINE run == Run(account, chain, signers)
           S == {n \in Nat : m <= n /\ n <= Len(chain) => run[n] = {}}
<1>1. 0 \in S
  <2>1. m <= 0 => m = 0
    OBVIOUS
  <2>2. QED
    BY <2>1
<1>2. ASSUME NEW n \in Nat, n \in S
      PROVE  n + 1 \in S
  <2>1. SUFFICES ASSUME m <= n + 1, n + 1 <= Len(chain) PROVE run[n + 1] = {}
    OBVIOUS
  <2>2. CASE m = n + 1
    BY <2>2
  <2>3. CASE m <= n
    <3>1. run[n] = {}
      BY <1>2, <2>1, <2>3
    <3>2. \A b \in run[n + 1] : \E a \in run[n] : b \in Outcome(a, chain[n + 1], signers)
      BY <2>1, RunFrom
    <3> HIDE DEF run
    <3>3. QED
      BY <3>1, <3>2
  <2>4. QED
    BY <2>1, <2>2, <2>3
<1> HIDE DEF S
<1>3. \A n \in Nat : n \in S
  BY <1>1, <1>2, Induction
<1>4. Len(chain) \in S
  BY <1>3
<1>5. QED
  BY <1>4 DEF S, Execute

LEMMA ExecuteAccount ==
  ASSUME NEW account, IsAccount(account), NEW chain, TypedChain(chain), NEW signers,
         NEW b \in Execute(account, chain, signers)
  PROVE  IsAccount(b)
BY RunAccount DEF Execute, TypedChain

\* Only the first instruction of a chain makes an account, and only those that
\* find one are signed by Ethereum keys.
OrderedChain(chain) ==
  \A p \in 1..Len(chain) :
    /\ chain[p].name \in {"initialize", "migrate"} => p = 1
    /\ chain[p].name \in {"initialize", "migrate", "close_legacy"} => chain[p].eth = {}

\* Along such a chain the nonce of an account that stays open never falls, and
\* passes the nonce of every signature that is accepted.
LEMMA RunNonces ==
  ASSUME NEW account, IsAccount(account), NEW chain, TypedChain(chain),
         OrderedChain(chain), NEW signers
  PROVE  \A n \in 0..Len(chain) : \A b \in Run(account, chain, signers)[n] :
           b.exists =>
             /\ account.exists => account.data.nonce <= b.data.nonce
             /\ \A p \in 1..n : \A s \in chain[p].eth :
                  \A a \in Run(account, chain, signers)[p - 1] :
                    s.nonce = a.data.nonce => s.nonce < b.data.nonce
<1> DEFINE run == Run(account, chain, signers)
           Passed(p, b) == \A s \in chain[p].eth : \A a \in run[p - 1] :
                             s.nonce = a.data.nonce => s.nonce < b.data.nonce
           Good(n, b) ==
             b.exists =>
               /\ account.exists => account.data.nonce <= b.data.nonce
               /\ \A p \in 1..n : Passed(p, b)
           S == {n \in Nat : n <= Len(chain) => \A b \in run[n] : Good(n, b)}
<1>0. /\ Len(chain) \in Nat
      /\ \A a : IsAccount(a) => a.data.nonce \in Nat
  BY NonceAssumption DEF TypedChain, IsAccount, Valid, DidAccounts
<1>1. 0 \in S
  <2>1. run[0] = {account}
    BY <1>0, RunSteps
  <2>2. account.data.nonce <= account.data.nonce
    BY <1>0
  <2>3. Good(0, account)
    BY <2>2
  <2> HIDE DEF Good
  <2>4. QED
    BY <2>1, <2>3
<1>2. ASSUME NEW n \in Nat, n \in S
      PROVE  n + 1 \in S
  <2>1. SUFFICES ASSUME n + 1 <= Len(chain), NEW b \in run[n + 1], b.exists
                 PROVE  Good(n + 1, b)
    OBVIOUS
  <2>2. PICK a \in run[n] : b \in Outcome(a, chain[n + 1], signers)
    BY <1>0, <2>1, RunFrom
  <2>3. /\ IsAccount(a) /\ Good(n, a)
        /\ \A c \in run[n] : c = a
    <3>1. n \in 0..Len(chain)
      BY <1>0, <2>1
    <3>2. QED
      BY <1>2, <2>1, <3>1, RunAccount
  <2>4. Typed(chain[n + 1]) /\ IsAccount(b)
    BY <1>0, <2>1, <2>2, <2>3, OutcomeAccount DEF TypedChain
  <2> HIDE DEF run
  <2>5. n + 1 \in 1..Len(chain)
    BY <1>0, <2>1
  <2>6. CASE ~a.exists
    <3>1. chain[n + 1].name \in {"initialize", "migrate"}
      BY <2>1, <2>2, <2>3, <2>4, <2>6, OutcomeNonce
    <3>2. n = 0 /\ chain[1].eth = {}
      BY <2>5, <3>1 DEF OrderedChain
    <3>3. run[0] = {account}
      BY <1>0, RunSteps DEF run
    <3>4. ~account.exists
      BY <2>6, <3>2, <3>3
    <3>5. QED
      BY <3>2, <3>4
  <2>7. CASE a.exists
    <3> DEFINE eth == chain[n + 1].eth
    <3>1. b.data.nonce = IF eth = {} \/ chain[n + 1].name = "close_legacy"
                         THEN a.data.nonce ELSE a.data.nonce + 1
      BY <2>1, <2>2, <2>3, <2>4, <2>7, OutcomeNonce
    <3>2. eth # {} => chain[n + 1].name # "close_legacy"
      BY <2>5 DEF OrderedChain
    <3>3. /\ a.data.nonce \in Nat /\ b.data.nonce \in Nat
          /\ account.data.nonce \in Nat
      BY <1>0, <2>3, <2>4
    <3>4. a.data.nonce <= b.data.nonce
      BY <3>1, <3>3
    <3>5. account.exists => account.data.nonce <= b.data.nonce
      BY <2>3, <2>7, <3>3, <3>4
    <3>6. ASSUME NEW p \in 1..(n + 1), NEW s \in chain[p].eth, NEW c \in run[p - 1],
                 s.nonce = c.data.nonce
          PROVE  s.nonce < b.data.nonce
      <4>1. CASE p = n + 1
        <5>1. c = a /\ eth # {}
          BY <2>3, <3>6, <4>1
        <5>2. b.data.nonce = a.data.nonce + 1
          BY <3>1, <3>2, <5>1
        <5>3. QED
          BY <3>3, <3>6, <5>1, <5>2
      <4>2. CASE p \in 1..n
        <5>1. s.nonce < a.data.nonce
          BY <2>3, <2>7, <3>6, <4>2
        <5>2. s.nonce \in Nat
          <6>1. p - 1 \in 0..Len(chain)
            BY <1>0, <2>1, <4>2
          <6>2. IsAccount(c)
            BY <6>1, RunAccount DEF run
          <6>3. QED
            BY <1>0, <3>6, <6>2
        <5>3. QED
          BY <3>3, <3>4, <5>1, <5>2
      <4>3. QED
        BY <4>1, <4>2
    <3>7. QED
      BY <3>5, <3>6
  <2>8. QED
    BY <2>6, <2>7
<1> HIDE DEF S
<1>3. \A n \in Nat : n \in S
  BY <1>1, <1>2, Induction
<1>4. \A n \in 0..Len(chain) : \A b \in run[n] : Good(n, b)
  BY <1>0, <1>3 DEF S
<1>5. QED
  BY <1>4

\* What becomes of the document of the predecessor, and of a chain that begins
\* with a migration.
LEMMA RunLegacy ==
  ASSUME NEW account, IsAccount(account), NEW chain, TypedChain(chain), NEW signers
  PROVE  \A n \in 0..Len(chain) : \A b \in Run(account, chain, signers)[n] :
           /\ \/ b.legacy = account.legacy
              \/ \E p \in 1..n : chain[p].name = "close_legacy"
           /\ n >= 1 /\ chain[1].name = "migrate" =>
                /\ ~account.exists
                /\ b.exists \/ \E p \in 1..n : chain[p].name = "close"
<1> DEFINE run == Run(account, chain, signers)
           Holds(name, n) == \E p \in 1..n : chain[p].name = name
           Good(n, b) ==
             /\ b.legacy = account.legacy \/ Holds("close_legacy", n)
             /\ n >= 1 /\ chain[1].name = "migrate" =>
                  ~account.exists /\ (b.exists \/ Holds("close", n))
           S == {n \in Nat : n <= Len(chain) => \A b \in run[n] : Good(n, b)}
<1>0. Len(chain) \in Nat
  BY DEF TypedChain
<1>1. 0 \in S
  <2>1. run[0] = {account}
    BY <1>0, RunSteps
  <2>2. Good(0, account)
    OBVIOUS
  <2> HIDE DEF Good
  <2>3. QED
    BY <2>1, <2>2
<1>2. ASSUME NEW n \in Nat, n \in S
      PROVE  n + 1 \in S
  <2>1. SUFFICES ASSUME n + 1 <= Len(chain), NEW b \in run[n + 1]
                 PROVE  Good(n + 1, b)
    OBVIOUS
  <2>2. PICK a \in run[n] : b \in Outcome(a, chain[n + 1], signers)
    BY <1>0, <2>1, RunFrom
  <2>3. IsAccount(a) /\ Good(n, a)
    <3>1. n \in 0..Len(chain)
      BY <1>0, <2>1
    <3>2. QED
      BY <1>2, <2>1, <3>1, RunAccount
  <2>4. Typed(chain[n + 1])
    BY <1>0, <2>1 DEF TypedChain
  <2>5. /\ n + 1 \in 1..(n + 1) /\ 1..n \subseteq 1..(n + 1)
        /\ \A name : Holds(name, n) => Holds(name, n + 1)
        /\ Holds(chain[n + 1].name, n + 1)
    OBVIOUS
  <2> DEFINE i == chain[n + 1]
  <2>6. /\ a.exists => i.name \notin {"initialize", "migrate"}
        /\ i.name \in {"initialize", "migrate"} => b.exists
        /\ a.exists /\ ~b.exists => i.name = "close"
        /\ i.name # "close_legacy" => b.legacy = a.legacy
    BY <2>2, <2>3, <2>4, OutcomeNonce
  <2>7. Holds(i.name, n + 1)
    BY <2>5
  <2>8. a.exists \in BOOLEAN
    BY <2>3 DEF IsAccount
  <2>9. n = 0 => a = account
    <3>1. run[0] = {account}
      BY <1>0, RunSteps
    <3>2. QED
      BY <2>2, <3>1
  <2> HIDE DEF run, i, Holds
  <2>10. b.legacy = account.legacy \/ Holds("close_legacy", n + 1)
    BY <2>3, <2>5, <2>6, <2>7
  <2>11. ASSUME chain[1].name = "migrate"
         PROVE  ~account.exists /\ (b.exists \/ Holds("close", n + 1))
    <3>1. CASE n = 0
      BY <2>6, <2>9, <2>11, <3>1 DEF i
    <3>2. CASE n >= 1
      BY <2>3, <2>5, <2>6, <2>7, <2>11, <3>2
    <3>3. QED
      BY <3>1, <3>2
  <2>12. QED
    BY <2>10, <2>11
<1> HIDE DEF S
<1>3. \A n \in Nat : n \in S
  BY <1>1, <1>2, Induction
<1>4. \A n \in 0..Len(chain) : \A b \in run[n] : Good(n, b)
  BY <1>0, <1>3 DEF S
<1>5. QED
  BY <1>4

\* An existing account refuses an instruction whose signatures are for another
\* nonce, in a transaction that no Ed25519 key of its own signed.
LEMMA StaleFails ==
  ASSUME NEW account, IsAccount(account), account.exists,
         NEW i, Typed(i), i.name # "close_legacy", NEW signers,
         \A s \in i.eth : s.nonce # account.data.nonce,
         ~FindAuthority(account.data, Ed25519VerificationKey2018, signers, Fragments)
  PROVE  Outcome(account, i, signers) = {}
<1>1. SUFFICES ASSUME NEW b \in Outcome(account, i, signers) PROVE FALSE
  OBVIOUS
<1>2. /\ SignersOf(i) \subseteq signers /\ Authorised(account.data, i)
      /\ i.name # "migrate"
  BY OutcomeCases DEF ClosesLegacy, Initializes, Migrates, Closes, Modifies, Modifying
<1>3. i.authority \in signers
  BY <1>2 DEF SignersOf
<1>4. Recovered(i.eth, i.arg, account.data.nonce) = {}
  BY DEF Recovered
<1>5. PICK among : FindAuthority(account.data, Ed25519VerificationKey2018,
                                 {i.authority}, among)
  BY <1>2, <1>4 DEF Authorised, IsAuthority, FindAuthority
<1>6. \A m \in AllMethods(account.data) : m.fragment \in Fragments
  BY DEF IsAccount, AllMethods, DidAccounts, VerificationMethods
<1>7. QED
  BY <1>3, <1>5, <1>6 DEF FindAuthority
=============================================================================
