-------------------------- MODULE AllocationProofs --------------------------
(***************************************************************************)
(* What a transaction of DidSolTransactionBuilder needs of its account.    *)
(* Two executions of an instruction are compared: that of the program, with *)
(* the space that was asked for and the nonces that were counted up, and   *)
(* one that differs in the nonce and has enough space.  And the size that  *)
(* an allocation asks for is compared with that of the documents that the  *)
(* program stores, after every instruction.                                *)
(***************************************************************************)
EXTENDS DidSolTransactionBuilderProofs

-----------------------------------------------------------------------------
(* Handlers do not depend on the nonce, once they are authorised.          *)

WithNonce(a, m) == [a EXCEPT !.nonce = m]

LEMMA WithNonceKeeps ==
  ASSUME NEW a \in DidAccounts, NEW m
  PROVE  /\ WithNonce(a, m).nonce = m
         /\ WithNonce(a, m).initial_verification_method = a.initial_verification_method
         /\ WithNonce(a, m).verification_methods = a.verification_methods
         /\ WithNonce(a, m).services = a.services
         /\ WithNonce(a, m).native_controllers = a.native_controllers
         /\ WithNonce(a, m).other_controllers = a.other_controllers
         /\ AllMethods(WithNonce(a, m)) = AllMethods(a)
         /\ Size(WithNonce(a, m)) = Size(a)
<1>1. /\ WithNonce(a, m).nonce = m
      /\ WithNonce(a, m).initial_verification_method = a.initial_verification_method
      /\ WithNonce(a, m).verification_methods = a.verification_methods
      /\ WithNonce(a, m).services = a.services
      /\ WithNonce(a, m).native_controllers = a.native_controllers
      /\ WithNonce(a, m).other_controllers = a.other_controllers
  BY DEF WithNonce, DidAccounts
<1>2. QED
  BY <1>1 DEF AllMethods, Size

LEMMA PredicatesIgnoreNonce ==
  ASSUME NEW a \in DidAccounts, NEW m
  PROVE  /\ Readable(WithNonce(a, m)) <=> Readable(a)
         /\ HasAuthority(WithNonce(a, m)) <=> HasAuthority(a)
         /\ \A among : HasProtected(WithNonce(a, m), among) <=> HasProtected(a, among)
         /\ \A type, keys, among : FindAuthority(WithNonce(a, m), type, keys, among) <=>
                                   FindAuthority(a, type, keys, among)
         /\ \A s, o : CanAddService(WithNonce(a, m), s, o) <=> CanAddService(a, s, o)
         /\ \A n, o : CanSetControllers(WithNonce(a, m), n, o) <=> CanSetControllers(a, n, o)
BY WithNonceKeeps DEF Readable, HasAuthority, HasProtected, FindAuthority,
   CanAddService, CanSetControllers

\* What is written keeps the other nonce.
LEMMA WritesIgnoreNonce ==
  ASSUME NEW a, Valid(Did, a), NEW m
  PROVE  /\ \A f : RemoveMethod(WithNonce(a, m), f) = WithNonce(RemoveMethod(a, f), m)
         /\ \A f, flags : WithFlags(WithNonce(a, m), f, flags) = WithNonce(WithFlags(a, f, flags), m)
         /\ \A E, I : SetVerificationMethods(WithNonce(a, m), E, I) =
                      WithNonce(SetVerificationMethods(a, E, I), m)
         /\ \A s : AddedService(WithNonce(a, m), s) = WithNonce(AddedService(a, s), m)
         /\ \A S : [WithNonce(a, m) EXCEPT !.services = S] =
                   WithNonce([a EXCEPT !.services = S], m)
         /\ \A n, o : SetControllers(WithNonce(a, m), n, o) =
                      WithNonce(SetControllers(a, n, o), m)
<1> DEFINE w == WithNonce(a, m)
<1>0. a \in DidAccounts
  BY DEF Valid
<1>1. /\ w.initial_verification_method = a.initial_verification_method
      /\ w.verification_methods = a.verification_methods
      /\ w.services = a.services
      /\ DOMAIN a.initial_verification_method = {"fragment", "flags", "method_type", "key_data"}
  BY <1>0, WithNonceKeeps DEF DidAccounts, VerificationMethods
<1>2. \A S : /\ [w EXCEPT !.verification_methods = S] =
                WithNonce([a EXCEPT !.verification_methods = S], m)
             /\ [w EXCEPT !.services = S] = WithNonce([a EXCEPT !.services = S], m)
  BY <1>0 DEF WithNonce, DidAccounts
<1>3. \A g : [w EXCEPT !.initial_verification_method.flags = g] =
             WithNonce([a EXCEPT !.initial_verification_method.flags = g], m)
  BY <1>0 DEF WithNonce, DidAccounts
<1>4. \A S, g : [w EXCEPT !.initial_verification_method.flags = g,
                          !.verification_methods = S] =
                WithNonce([a EXCEPT !.initial_verification_method.flags = g,
                                    !.verification_methods = S], m)
  BY <1>0 DEF WithNonce, DidAccounts
<1>5. \A n, o : SetControllers(w, n, o) = WithNonce(SetControllers(a, n, o), m)
  BY <1>0 DEF WithNonce, DidAccounts, SetControllers
<1> HIDE DEF w
<1>6. \A f : RemoveMethod(w, f) = WithNonce(RemoveMethod(a, f), m)
  BY <1>1, <1>2, <1>3 DEF RemoveMethod
<1>7. ASSUME NEW f, NEW flags
      PROVE  WithFlags(w, f, flags) = WithNonce(WithFlags(a, f, flags), m)
  <2> DEFINE x == CHOOSE y \in Fragmented(a.verification_methods, f) : TRUE
             S == (a.verification_methods \ {x}) \cup {[x EXCEPT !.flags = flags]}
  <2>1. CASE f = a.initial_verification_method.fragment
    BY <1>1, <1>3, <2>1 DEF WithFlags
  <2>2. CASE f # a.initial_verification_method.fragment
    <3>1. /\ WithFlags(a, f, flags) = [a EXCEPT !.verification_methods = S]
          /\ WithFlags(w, f, flags) = [w EXCEPT !.verification_methods = S]
      BY Zenon, <1>1, <2>2 DEF WithFlags
    <3> HIDE DEF S
    <3>2. QED
      BY <1>2, <3>1
  <2>3. QED
    BY <2>1, <2>2
<1>8. ASSUME NEW E, NEW I
      PROVE  SetVerificationMethods(w, E, I) = WithNonce(SetVerificationMethods(a, E, I), m)
  <2> DEFINE named == Fragmented(E \cup I, a.initial_verification_method.fragment)
             x == CHOOSE y \in named : TRUE
  <2>1. CASE named = {}
    <3>1. /\ SetVerificationMethods(a, E, I) = [a EXCEPT !.verification_methods = E \cup I]
          /\ SetVerificationMethods(w, E, I) = [w EXCEPT !.verification_methods = E \cup I]
      BY Zenon, <1>1, <2>1 DEF SetVerificationMethods
    <3>2. QED
      BY <1>2, <3>1
  <2>2. CASE named # {}
    <3>1. /\ SetVerificationMethods(a, E, I) =
               [a EXCEPT !.initial_verification_method.flags = x.flags,
                         !.verification_methods = (E \cup I) \ {x}]
          /\ SetVerificationMethods(w, E, I) =
               [w EXCEPT !.initial_verification_method.flags = x.flags,
                         !.verification_methods = (E \cup I) \ {x}]
      BY Zenon, <1>1, <2>2 DEF SetVerificationMethods
    <3> DEFINE g == x.flags
               S == (E \cup I) \ {x}
    <3>2. [w EXCEPT !.initial_verification_method.flags = g, !.verification_methods = S] =
          WithNonce([a EXCEPT !.initial_verification_method.flags = g,
                              !.verification_methods = S], m)
      <4> HIDE DEF g, S
      <4> QED
        BY <1>4
    <3>3. QED
      BY Zenon, <3>1, <3>2
  <2>3. QED
    BY <2>1, <2>2
<1>9. \A s : AddedService(w, s) = WithNonce(AddedService(a, s), m)
  BY <1>1, <1>2 DEF AddedService
<1>10. QED
  BY <1>2, <1>5, <1>6, <1>7, <1>8, <1>9 DEF w

\* The branches of Modified.
IsModified(a, i, b) ==
  /\ i.name = "resize" => b = a
  /\ i.name = "add_verification_method" =>
       /\ CanSetVerificationMethods(AllMethods(a), {i.arg})
       /\ b = SetVerificationMethods(a, AllMethods(a), {i.arg})
  /\ i.name = "remove_verification_method" =>
       ~HasProtected(a, {i.arg}) /\ b = RemoveMethod(a, i.arg) /\ HasAuthority(b)
  /\ i.name = "set_vm_flags" =>
       /\ i.arg.flags \subseteq KnownFlags
       /\ Fragmented(AllMethods(a), i.arg.fragment) # {}
       /\ b = WithFlags(a, i.arg.fragment, i.arg.flags) /\ HasAuthority(b)
  /\ i.name = "add_service" =>
       /\ CanAddService(a, i.arg.service, i.arg.allow_overwrite)
       /\ b = AddedService(a, i.arg.service)
  /\ i.name = "remove_service" =>
       /\ Fragmented(a.services, i.arg) # {}
       /\ b = [a EXCEPT !.services = WithoutFirst(a.services, i.arg)]
  /\ i.name = "set_controllers" =>
       /\ CanSetControllers(a, i.arg.native_controllers, i.arg.other_controllers)
       /\ b = SetControllers(a, i.arg.native_controllers, i.arg.other_controllers)
  /\ i.name = "update" =>
       /\ ~HasProtected(a, Fragments)
       /\ CanSetServices(i.arg.services)
       /\ CanSetVerificationMethods({}, i.arg.verification_methods)
       /\ CanSetControllers(a, i.arg.native_controllers, i.arg.other_controllers)
       /\ b = Updated(a, i.arg) /\ HasAuthority(b)

LEMMA ModifiedCases ==
  ASSUME NEW a, NEW i, i.name \in Modifying, NEW b
  PROVE  b \in Modified(a, i) <=> IsModified(a, i, b)
<1> USE DEF Modified, When
<1>1. i.name = "resize" => (b \in Modified(a, i) <=> b = a)
  OBVIOUS
<1>2. ASSUME i.name = "add_verification_method"
      PROVE  b \in Modified(a, i) <=>
             /\ CanSetVerificationMethods(AllMethods(a), {i.arg})
             /\ b = SetVerificationMethods(a, AllMethods(a), {i.arg})
  BY <1>2
<1>3. ASSUME i.name = "remove_verification_method"
      PROVE  b \in Modified(a, i) <=>
             /\ ~HasProtected(a, {i.arg})
             /\ b = RemoveMethod(a, i.arg) /\ HasAuthority(b)
  BY <1>3
<1>4. ASSUME i.name = "set_vm_flags"
      PROVE  b \in Modified(a, i) <=>
             /\ i.arg.flags \subseteq KnownFlags
             /\ Fragmented(AllMethods(a), i.arg.fragment) # {}
             /\ b = WithFlags(a, i.arg.fragment, i.arg.flags) /\ HasAuthority(b)
  BY <1>4
<1>5. ASSUME i.name = "add_service"
      PROVE  b \in Modified(a, i) <=>
             /\ CanAddService(a, i.arg.service, i.arg.allow_overwrite)
             /\ b = AddedService(a, i.arg.service)
  BY <1>5
<1>6. ASSUME i.name = "remove_service"
      PROVE  b \in Modified(a, i) <=>
             /\ Fragmented(a.services, i.arg) # {}
             /\ b = [a EXCEPT !.services = WithoutFirst(a.services, i.arg)]
  BY <1>6
<1>7. ASSUME i.name = "set_controllers"
      PROVE  b \in Modified(a, i) <=>
             /\ CanSetControllers(a, i.arg.native_controllers, i.arg.other_controllers)
             /\ b = SetControllers(a, i.arg.native_controllers, i.arg.other_controllers)
  BY <1>7
<1>8. ASSUME i.name = "update"
      PROVE  b \in Modified(a, i) <=>
             /\ ~HasProtected(a, Fragments)
             /\ CanSetServices(i.arg.services)
             /\ CanSetVerificationMethods({}, i.arg.verification_methods)
             /\ CanSetControllers(a, i.arg.native_controllers, i.arg.other_controllers)
             /\ b = Updated(a, i.arg) /\ HasAuthority(b)
  BY <1>8
<1> HIDE DEF Modified
<1>9. QED
  BY <1>1, <1>2, <1>3, <1>4, <1>5, <1>6, <1>7, <1>8 DEF IsModified, Modifying

\* What a handler makes of an account with another nonce.
LEMMA ModifiedIgnoresNonce ==
  ASSUME NEW a, Valid(Did, a), FiniteLists(a), NEW m,
         NEW i, i.name \in Modifying, i.arg \in ArgumentsOf(i.name),
         NEW j, j.name = i.name, j.arg = i.arg,
         NEW c \in Modified(a, i)
  PROVE  WithNonce(c, m) \in Modified(WithNonce(a, m), j)
<1> DEFINE w == WithNonce(a, m)
           b == WithNonce(c, m)
<1>a. Valid(Did, c) /\ FiniteLists(c)
  BY ModifiedValid
<1>b. a \in DidAccounts /\ c \in DidAccounts
  BY <1>a DEF Valid
<1>c. /\ AllMethods(w) = AllMethods(a) /\ w.services = a.services
      /\ HasAuthority(b) <=> HasAuthority(c)
  BY <1>b, WithNonceKeeps, PredicatesIgnoreNonce
<1>d. IsModified(a, i, c)
  BY ModifiedCases
<1>e. SUFFICES IsModified(w, j, b)
  BY ModifiedCases
<1> HIDE DEF w, b
<1> USE DEF IsModified
<1>1. CASE i.name = "resize"
  BY <1>1, <1>d DEF w, b
<1>2. CASE i.name = "add_verification_method"
  <2>1. /\ CanSetVerificationMethods(AllMethods(a), {i.arg})
        /\ c = SetVerificationMethods(a, AllMethods(a), {i.arg})
    BY <1>2, <1>d
  <2>2. SetVerificationMethods(w, AllMethods(a), {i.arg}) = b
    BY <2>1, WritesIgnoreNonce DEF w, b
  <2>3. QED
    BY <1>2, <1>c, <2>1, <2>2
<1>3. CASE i.name = "remove_verification_method"
  <2>1. ~HasProtected(a, {i.arg}) /\ c = RemoveMethod(a, i.arg) /\ HasAuthority(c)
    BY <1>3, <1>d
  <2>2. ~HasProtected(w, {i.arg}) /\ RemoveMethod(w, i.arg) = b
    BY <1>b, <2>1, PredicatesIgnoreNonce, WritesIgnoreNonce DEF w, b
  <2>3. QED
    BY <1>3, <1>c, <2>1, <2>2
<1>4. CASE i.name = "set_vm_flags"
  <2>1. /\ i.arg.flags \subseteq KnownFlags
        /\ Fragmented(AllMethods(a), i.arg.fragment) # {}
        /\ c = WithFlags(a, i.arg.fragment, i.arg.flags) /\ HasAuthority(c)
    BY <1>4, <1>d
  <2>2. WithFlags(w, i.arg.fragment, i.arg.flags) = b
    BY <2>1, WritesIgnoreNonce DEF w, b
  <2>3. QED
    BY <1>4, <1>c, <2>1, <2>2
<1>5. CASE i.name = "add_service"
  <2>1. /\ CanAddService(a, i.arg.service, i.arg.allow_overwrite)
        /\ c = AddedService(a, i.arg.service)
    BY <1>5, <1>d
  <2>2. /\ CanAddService(w, i.arg.service, i.arg.allow_overwrite)
        /\ AddedService(w, i.arg.service) = b
    BY <1>b, <2>1, PredicatesIgnoreNonce, WritesIgnoreNonce DEF w, b
  <2>3. QED
    BY <1>5, <2>2
<1>6. CASE i.name = "remove_service"
  <2>1. /\ Fragmented(a.services, i.arg) # {}
        /\ c = [a EXCEPT !.services = WithoutFirst(a.services, i.arg)]
    BY <1>6, <1>d
  <2>2. [w EXCEPT !.services = WithoutFirst(a.services, i.arg)] = b
    BY <2>1, WritesIgnoreNonce DEF w, b
  <2>3. QED
    BY <1>6, <1>c, <2>1, <2>2
<1>7. CASE i.name = "set_controllers"
  <2>1. /\ CanSetControllers(a, i.arg.native_controllers, i.arg.other_controllers)
        /\ c = SetControllers(a, i.arg.native_controllers, i.arg.other_controllers)
    BY <1>7, <1>d
  <2>2. /\ CanSetControllers(w, i.arg.native_controllers, i.arg.other_controllers)
        /\ SetControllers(w, i.arg.native_controllers, i.arg.other_controllers) =
           b
    BY <1>b, <2>1, PredicatesIgnoreNonce, WritesIgnoreNonce DEF w, b
  <2>3. QED
    BY <1>7, <2>2
<1>8. CASE i.name = "update"
  <2>1. /\ ~HasProtected(a, Fragments)
        /\ CanSetServices(i.arg.services)
        /\ CanSetVerificationMethods({}, i.arg.verification_methods)
        /\ CanSetControllers(a, i.arg.native_controllers, i.arg.other_controllers)
        /\ c = Updated(a, i.arg) /\ HasAuthority(c)
    BY <1>8, <1>d
  <2>2. /\ ~HasProtected(w, Fragments)
        /\ CanSetControllers(w, i.arg.native_controllers, i.arg.other_controllers)
    BY <1>b, <2>1, PredicatesIgnoreNonce DEF w, b
  <2>3. Updated(w, i.arg) = b
    <3> DEFINE served == SetServices(a, i.arg.services)
               named == SetVerificationMethods(served, {}, i.arg.verification_methods)
    <3>1. i.arg \in UpdateArgs
      BY <1>8 DEF ArgumentsOf
    <3>2. Valid(Did, served) /\ SetServices(w, i.arg.services) = WithNonce(served, m)
      BY <2>1, <3>1, ServicesValid, WritesIgnoreNonce DEF UpdateArgs, SetServices, w
    <3> HIDE DEF served
    <3>3. /\ Valid(Did, named)
          /\ SetVerificationMethods(WithNonce(served, m), {}, i.arg.verification_methods) =
             WithNonce(named, m)
      BY <2>1, <3>1, <3>2, ReplaceMethodsValid, WritesIgnoreNonce
         DEF UpdateArgs, CanSetVerificationMethods
    <3> HIDE DEF named
    <3>4. SetControllers(WithNonce(named, m), i.arg.native_controllers,
                         i.arg.other_controllers) =
          WithNonce(SetControllers(named, i.arg.native_controllers,
                                   i.arg.other_controllers), m)
      BY <3>3, WritesIgnoreNonce
    <3>5. QED
      BY <2>1, <3>2, <3>3, <3>4 DEF Updated, served, named, b
  <2>4. QED
    BY <1>8, <1>c, <2>1, <2>2, <2>3
<1>9. QED
  BY <1>1, <1>2, <1>3, <1>4, <1>5, <1>6, <1>7, <1>8 DEF Modifying, w

-----------------------------------------------------------------------------
(* One instruction, in two executions.                                     *)

\* Accounts of two executions that differ in the nonce and in their space.
Match(a, r) ==
  /\ r.exists = a.exists
  /\ r.data = WithNonce(a.data, r.data.nonce)
  /\ r.legacy = a.legacy

\* The same instruction, with signatures of the same key if its account exists,
\* each for the nonce of its own account.
SameCall(a, i, r, j, signer) ==
  /\ j.name = i.name /\ j.arg = i.arg /\ j.authority = i.authority
  /\ j.payer = i.payer
  /\ a.exists =>
       \/ i.eth = {} /\ j.eth = {}
       \/ /\ i.eth = {[key |-> k, message |-> i.arg, nonce |-> a.data.nonce] : k \in signer}
          /\ j.eth = {[key |-> k, message |-> i.arg, nonce |-> r.data.nonce] : k \in signer}

\* A signature over the message and the nonce proves its key.
LEMMA RecoveredKeys ==
  ASSUME NEW signer, NEW message, NEW nonce
  PROVE  Recovered({[key |-> k, message |-> message, nonce |-> nonce] : k \in signer},
                   message, nonce) = signer
<1> DEFINE Sign(k) == [key |-> k, message |-> message, nonce |-> nonce]
           S == {Sign(k) : k \in signer}
<1>1. \A k : Sign(k).key = k /\ Sign(k).message = message /\ Sign(k).nonce = nonce
  OBVIOUS
<1> HIDE DEF Sign
<1>2. {t \in S : t.message = message /\ t.nonce = nonce} = S
  BY <1>1
<1>3. {t.key : t \in S} = signer
  BY <1>1
<1>4. QED
  BY <1>2, <1>3 DEF Recovered, Sign

LEMMA AuthorisedAlike ==
  ASSUME NEW a, IsAccount(a), NEW r, IsAccount(r), Match(a, r), a.exists,
         NEW i, NEW j, NEW signer, SameCall(a, i, r, j, signer),
         Authorised(a.data, i), r.data.nonce < MaxNonce
  PROVE  /\ Authorised(r.data, j)
         /\ Counted(r.data, j.eth) =
              WithNonce(Counted(a.data, i.eth), Counted(r.data, j.eth).nonce)
         /\ Counted(r.data, j.eth).nonce \in 0..MaxNonce
<1> DEFINE among == IF i.name = "set_vm_flags"
                    THEN FilterFragment(i.arg.fragment, i.arg.flags) ELSE Fragments
           ours == Recovered(i.eth, i.arg, a.data.nonce)
           theirs == Recovered(j.eth, i.arg, r.data.nonce)
<1>1. a.data \in DidAccounts /\ r.data \in DidAccounts
  BY DEF IsAccount
<1>2. /\ j.name = i.name /\ j.arg = i.arg /\ j.authority = i.authority
      /\ r.data = WithNonce(a.data, r.data.nonce)
      /\ \/ i.eth = {} /\ j.eth = {}
         \/ /\ i.eth = {[key |-> k, message |-> i.arg, nonce |-> a.data.nonce] : k \in signer}
            /\ j.eth = {[key |-> k, message |-> i.arg, nonce |-> r.data.nonce] : k \in signer}
  BY DEF Match, SameCall
<1>3. ours = theirs /\ (i.eth = {} <=> j.eth = {})
  <2>1. CASE i.eth = {} /\ j.eth = {}
    BY <2>1 DEF Recovered
  <2>2. CASE /\ i.eth = {[key |-> k, message |-> i.arg, nonce |-> a.data.nonce] : k \in signer}
             /\ j.eth = {[key |-> k, message |-> i.arg, nonce |-> r.data.nonce] : k \in signer}
    <3> DEFINE E(n) == {[key |-> k, message |-> i.arg, nonce |-> n] : k \in signer}
    <3>0. \A n : Recovered(E(n), i.arg, n) = signer
      BY RecoveredKeys
    <3>a. i.eth = E(a.data.nonce) /\ j.eth = E(r.data.nonce)
      BY <2>2
    <3> HIDE DEF E
    <3>1. ours = signer /\ theirs = signer
      BY <3>0, <3>a
    <3>2. i.eth = {} <=> j.eth = {}
      <4>1. i.eth = {} <=> signer = {}
        BY <2>2
      <4>2. j.eth = {} <=> signer = {}
        BY <2>2
      <4>3. QED
        BY <4>1, <4>2
    <3>3. QED
      BY <3>1, <3>2
  <2>3. QED
    BY <1>2, <2>1, <2>2
<1>4. IsAuthority(a.data, i.authority, i.arg, i.eth, among)
  BY DEF Authorised
<1> HIDE DEF among
<1>5. IsAuthority(r.data, i.authority, i.arg, j.eth, among)
  <2> DEFINE m == r.data.nonce
  <2>1. /\ Readable(WithNonce(a.data, m)) <=> Readable(a.data)
        /\ \A type, keys, names : FindAuthority(WithNonce(a.data, m), type, keys, names) <=>
                                  FindAuthority(a.data, type, keys, names)
    BY <1>1, PredicatesIgnoreNonce
  <2>2. QED
    BY <1>2, <1>3, <1>4, <2>1 DEF IsAuthority
<1>6. Authorised(r.data, j)
  BY <1>2, <1>5 DEF Authorised, CanCount, among
<1>7. r.data.nonce \in 0..MaxNonce /\ r.data.nonce + 1 \in 0..MaxNonce
  BY <1>1, NonceAssumption DEF DidAccounts
<1>8. CASE i.eth = {}
  <2>1. Counted(r.data, j.eth) = r.data /\ Counted(a.data, i.eth) = a.data
    BY <1>3, <1>8 DEF Counted
  <2>2. QED
    BY <1>2, <1>6, <1>7, <2>1
<1>9. CASE i.eth # {}
  <2> DEFINE m == r.data.nonce
  <2>1. /\ Counted(r.data, j.eth) = [r.data EXCEPT !.nonce = m + 1]
        /\ Counted(a.data, i.eth) = [a.data EXCEPT !.nonce = a.data.nonce + 1]
    BY <1>3, <1>9 DEF Counted
  <2>2. Counted(r.data, j.eth).nonce = m + 1
    BY <1>1, <2>1 DEF DidAccounts
  <2>3. Counted(r.data, j.eth) = WithNonce(Counted(a.data, i.eth), m + 1)
    <3>1. Counted(r.data, j.eth) = WithNonce(WithNonce(a.data, m), m + 1)
      BY <1>2, <2>1 DEF WithNonce
    <3>2. Counted(a.data, i.eth) = WithNonce(a.data, a.data.nonce + 1)
      BY <2>1 DEF WithNonce
    <3>3. \A x, y, z : WithNonce(WithNonce(a.data, x), z) = WithNonce(WithNonce(a.data, y), z)
      BY <1>1 DEF WithNonce, DidAccounts
    <3>4. QED
      BY <3>1, <3>2, <3>3
  <2>4. QED
    BY <1>6, <1>7, <2>2, <2>3
<1>10. QED
  BY <1>8, <1>9

\* An account that is written, and the space of one that was modified.
Stored(cell, x, bytes) ==
  [cell EXCEPT !.exists = TRUE, !.data = x, !.space = bytes]
Bytes(i, cell) == IF i.name = "resize" THEN i.arg ELSE cell.space

LEMMA StoredFields ==
  ASSUME NEW a, IsAccount(a), NEW x, NEW n
  PROVE  /\ Stored(a, x, n).exists /\ Stored(a, x, n).data = x
         /\ Stored(a, x, n).space = n /\ Stored(a, x, n).legacy = a.legacy
BY DEF IsAccount, Stored

\* What Outcome makes of an instruction that succeeds.
LEMMA OutcomeMade ==
  ASSUME NEW cell, NEW i, NEW signers, SignersOf(i) \subseteq signers
  PROVE  /\ \A l \in cell.legacy :
              i.name = "close_legacy" /\ l.authority = i.authority =>
                [cell EXCEPT !.legacy = {}] \in Outcome(cell, i, signers)
         /\ i.name = "close" /\ cell.exists /\ Authorised(cell.data, i) =>
              [NoAccount EXCEPT !.legacy = cell.legacy] \in Outcome(cell, i, signers)
         /\ i.name = "initialize" /\ ~cell.exists /\ i.authority = Did
              /\ DISCRIMINATOR + Size(NewAccount(Did)) <= i.arg =>
              Stored(cell, NewAccount(Did), i.arg) \in Outcome(cell, i, signers)
         /\ \A doc \in cell.legacy :
              /\ i.name = "migrate" /\ ~cell.exists /\ i.authority = Did
              /\ CanMigrate(doc)
              /\ DISCRIMINATOR + Size(Migrated(doc)) <= PostMigrationSize(doc)
              => Stored(cell, Migrated(doc), PostMigrationSize(doc)) \in Outcome(cell, i, signers)
         /\ \A c \in Modified(Counted(cell.data, i.eth), i) :
              i.name \in Modifying /\ cell.exists /\ Authorised(cell.data, i) =>
                (DISCRIMINATOR + Size(c) <= Bytes(i, cell) =>
                   Stored(cell, c, Bytes(i, cell)) \in Outcome(cell, i, signers))
<1>1. ASSUME NEW l \in cell.legacy, i.name = "close_legacy", l.authority = i.authority
      PROVE  [cell EXCEPT !.legacy = {}] \in Outcome(cell, i, signers)
  BY <1>1 DEF Outcome
<1>2. ASSUME i.name = "close", cell.exists, Authorised(cell.data, i)
      PROVE  [NoAccount EXCEPT !.legacy = cell.legacy] \in Outcome(cell, i, signers)
  BY <1>2 DEF Outcome
<1>3. ASSUME i.name = "initialize", ~cell.exists, i.authority = Did,
             DISCRIMINATOR + Size(NewAccount(Did)) <= i.arg
      PROVE  Stored(cell, NewAccount(Did), i.arg) \in Outcome(cell, i, signers)
  BY <1>3 DEF Outcome, Stored
<1>4. ASSUME NEW c \in Modified(Counted(cell.data, i.eth), i),
             i.name \in Modifying, cell.exists, Authorised(cell.data, i),
             DISCRIMINATOR + Size(c) <= Bytes(i, cell)
      PROVE  Stored(cell, c, Bytes(i, cell)) \in Outcome(cell, i, signers)
  <2>1. /\ i.name \notin {"close_legacy", "initialize", "migrate", "close"}
        /\ Bytes(i, cell) =
             IF i.name \in {"initialize", "resize"} THEN i.arg ELSE cell.space
    BY <1>4 DEF Modifying, Bytes
  <2>2. QED
    BY <1>4, <2>1 DEF Outcome, Stored
<1>5. ASSUME NEW doc \in cell.legacy,
             i.name = "migrate", ~cell.exists, i.authority = Did, CanMigrate(doc),
             DISCRIMINATOR + Size(Migrated(doc)) <= PostMigrationSize(doc)
      PROVE  Stored(cell, Migrated(doc), PostMigrationSize(doc)) \in Outcome(cell, i, signers)
  <2> DEFINE Fitting(contents, bytes) ==
               {Stored(cell, x, bytes) :
                  x \in {b \in contents : DISCRIMINATOR + Size(b) <= bytes}}
  <2>1. Outcome(cell, i, signers) =
          UNION {Fitting({Migrated(l)}, PostMigrationSize(l)) :
                   l \in {l \in cell.legacy : CanMigrate(l)}}
    BY <1>5 DEF Outcome, Stored
  <2>2. Stored(cell, Migrated(doc), PostMigrationSize(doc))
          \in Fitting({Migrated(doc)}, PostMigrationSize(doc))
    BY <1>5
  <2> HIDE DEF Fitting
  <2>3. Stored(cell, Migrated(doc), PostMigrationSize(doc)) \in Outcome(cell, i, signers)
    BY <1>5, <2>1, <2>2
  <2>4. QED
    BY <2>3
<1>6. QED
  BY <1>1, <1>2, <1>3, <1>4, <1>5

\* What an instruction that succeeds was given.
LEMMA OutcomeGiven ==
  ASSUME NEW cell, NEW i, NEW signers, NEW c \in Outcome(cell, i, signers)
  PROVE  /\ i.name = "initialize" =>
              i.authority = Did /\ DISCRIMINATOR + Size(NewAccount(Did)) <= i.arg
         /\ i.name = "migrate" =>
              \E doc \in cell.legacy :
                /\ i.authority = Did /\ CanMigrate(doc)
                /\ DISCRIMINATOR + Size(Migrated(doc)) <= PostMigrationSize(doc)
                /\ c = Stored(cell, Migrated(doc), PostMigrationSize(doc))
         /\ i.name \in Modifying =>
              \E e \in Modified(Counted(cell.data, i.eth), i) :
                /\ DISCRIMINATOR + Size(e) <= Bytes(i, cell)
                /\ c = Stored(cell, e, Bytes(i, cell))
<1>1. CASE i.name = "initialize"
  BY <1>1 DEF Outcome, Modifying
<1>2. CASE i.name = "migrate"
  <2>1. /\ i.authority = Did
        /\ \E doc \in {l \in cell.legacy : CanMigrate(l)} :
             c \in {Stored(cell, x, PostMigrationSize(doc)) :
                      x \in {b \in {Migrated(doc)} :
                               DISCRIMINATOR + Size(b) <= PostMigrationSize(doc)}}
    BY <1>2 DEF Outcome, Stored
  <2>2. QED
    BY <1>2, <2>1 DEF Modifying
<1>3. CASE i.name \in Modifying
  <2> DEFINE size == Bytes(i, cell)
  <2>1. /\ i.name \notin {"close_legacy", "initialize", "migrate", "close"}
        /\ size = IF i.name \in {"initialize", "resize"} THEN i.arg ELSE cell.space
    BY <1>3 DEF Modifying, Bytes
  <2> HIDE DEF size
  <2>2. c \in {Stored(cell, x, size) :
                 x \in {b \in Modified(Counted(cell.data, i.eth), i) :
                          DISCRIMINATOR + Size(b) <= size}}
    BY <2>1 DEF Outcome, Stored
  <2>3. QED
    BY <2>1, <2>2 DEF size
<1>4. QED
  BY <1>1, <1>2, <1>3

\* An instruction that succeeds in one execution succeeds in the other, and
\* leaves the same but for the nonce, if the other has the space for it.
Room(i, r, c) ==
  i.name \in Modifying \ {"resize"} => DISCRIMINATOR + Size(c.data) <= r.space

LEMMA OutcomeMatch ==
  ASSUME NEW a, IsAccount(a), NEW r, IsAccount(r), Match(a, r),
         NEW i, Typed(i), NEW j, NEW signer, SameCall(a, i, r, j, signer),
         r.exists => r.data.nonce < MaxNonce,
         NEW signers, NEW c \in Outcome(a, i, signers), Room(i, r, c)
  PROVE  \E d \in Outcome(r, j, signers) :
           /\ Match(c, d)
           /\ IF i.name \in (Modifying \ {"resize"}) \cup {"close_legacy"}
              THEN c.space = a.space /\ d.space = r.space
              ELSE d.space = c.space
<1> DEFINE Fine(d) ==
             /\ Match(c, d)
             /\ IF i.name \in (Modifying \ {"resize"}) \cup {"close_legacy"}
                THEN c.space = a.space /\ d.space = r.space
                ELSE d.space = c.space
<1>0. /\ j.name = i.name /\ j.arg = i.arg /\ j.authority = i.authority
      /\ j.payer = i.payer
      /\ r.exists = a.exists /\ r.legacy = a.legacy
      /\ r.data = WithNonce(a.data, r.data.nonce)
  BY DEF Match, SameCall
<1>1. /\ a = [exists |-> a.exists, data |-> a.data, space |-> a.space, legacy |-> a.legacy]
      /\ r = [exists |-> r.exists, data |-> r.data, space |-> r.space, legacy |-> r.legacy]
      /\ a.data \in DidAccounts /\ r.data \in DidAccounts
  BY DEF IsAccount
<1>2. SignersOf(i) \subseteq signers /\ SignersOf(j) \subseteq signers
  BY <1>0, OutcomeCases DEF SignersOf
<1>3. CASE ClosesLegacy(a, i, c)
  <2> DEFINE d == [r EXCEPT !.legacy = {}]
  <2>1. PICK l \in a.legacy : l.authority = i.authority
    BY <1>3 DEF ClosesLegacy, Outcome
  <2>2. d \in Outcome(r, j, signers)
    BY <1>0, <1>2, <1>3, <2>1, OutcomeMade DEF ClosesLegacy
  <2>3. Fine(d)
    BY <1>0, <1>1, <1>3 DEF ClosesLegacy, Match
  <2>4. QED
    BY <2>2, <2>3
<1>a. \A x \in DidAccounts : WithNonce(x, x.nonce) = x
  BY DEF WithNonce, DidAccounts
<1>4. CASE Initializes(a, i, c)
  <2> DEFINE d == Stored(r, NewAccount(Did), i.arg)
  <2>1. i.authority = Did /\ DISCRIMINATOR + Size(NewAccount(Did)) <= i.arg
    BY <1>4, OutcomeGiven DEF Initializes
  <2>2. d \in Outcome(r, j, signers)
    BY <1>0, <1>2, <1>4, <2>1, OutcomeMade DEF Initializes
  <2>3. NewAccount(Did) \in DidAccounts
    BY NewValid, DidAssumption DEF Valid
  <2>4. /\ c.exists /\ c.data = NewAccount(Did) /\ c.space = i.arg
        /\ c.legacy = a.legacy /\ i.name = "initialize"
    <3>1. c = Stored(a, NewAccount(Did), i.arg) /\ i.name = "initialize"
      BY <1>4 DEF Initializes, Stored
    <3>2. QED
      BY <3>1, StoredFields
  <2>b. /\ d.exists /\ d.data = NewAccount(Did) /\ d.space = i.arg
        /\ d.legacy = r.legacy
    BY StoredFields
  <2> HIDE DEF d
  <2>5. Fine(d)
    BY <1>0, <1>a, <2>3, <2>4, <2>b DEF Match, Modifying
  <2>6. QED
    BY <2>2, <2>5
<1>b. CASE Migrates(a, i, c)
  <2>1. PICK doc \in a.legacy :
          /\ i.authority = Did /\ CanMigrate(doc)
          /\ DISCRIMINATOR + Size(Migrated(doc)) <= PostMigrationSize(doc)
          /\ c = Stored(a, Migrated(doc), PostMigrationSize(doc))
    BY <1>b, OutcomeGiven DEF Migrates
  <2> DEFINE d == Stored(r, Migrated(doc), PostMigrationSize(doc))
  <2>2. d \in Outcome(r, j, signers)
    BY <1>0, <1>2, <1>b, <2>1, OutcomeMade DEF Migrates
  <2>3. Migrated(doc) \in DidAccounts
    <3>1. doc \in LegacyDidAccounts
      BY DEF IsAccount, LegacyAccounts
    <3>2. QED
      BY <2>1, <3>1, MigratedValid DEF Valid
  <2>4. /\ c.exists /\ c.data = Migrated(doc) /\ c.space = PostMigrationSize(doc)
        /\ c.legacy = a.legacy /\ i.name = "migrate"
    <3>1. i.name = "migrate"
      BY <1>b DEF Migrates
    <3>2. QED
      BY <2>1, <3>1, StoredFields
  <2>b. /\ d.exists /\ d.data = Migrated(doc) /\ d.space = PostMigrationSize(doc)
        /\ d.legacy = r.legacy
    BY StoredFields
  <2> HIDE DEF d
  <2>5. Fine(d)
    BY <1>0, <1>a, <2>3, <2>4, <2>b DEF Match, Modifying
  <2>6. QED
    BY <2>2, <2>5
<1>5. CASE Closes(a, i, c)
  <2> DEFINE d == [NoAccount EXCEPT !.legacy = r.legacy]
  <2>1. Authorised(r.data, j)
    BY <1>0, <1>5, AuthorisedAlike DEF Closes
  <2>2. d \in Outcome(r, j, signers)
    BY <1>0, <1>2, <1>5, <2>1, OutcomeMade DEF Closes
  <2>3. c = d
    BY <1>0, <1>5 DEF Closes
  <2>4. Match(d, d)
    <3>1. d.data \in DidAccounts
      BY NewValid, DidAssumption DEF NoAccount, Valid
    <3>2. QED
      BY <3>1 DEF Match, WithNonce, DidAccounts
  <2>5. i.name = "close"
    BY <1>5 DEF Closes
  <2>6. QED
    BY <2>2, <2>3, <2>4, <2>5 DEF Modifying
<1>6. CASE Modifies(a, i, c)
  <2> DEFINE n == Counted(r.data, j.eth).nonce
             counted == Counted(a.data, i.eth)
  <2>1. /\ Authorised(r.data, j) /\ n \in 0..MaxNonce
        /\ Counted(r.data, j.eth) = WithNonce(counted, n)
    BY <1>0, <1>6, AuthorisedAlike DEF Modifies
  <2>2. PICK e \in Modified(counted, i) :
          /\ DISCRIMINATOR + Size(e) <= Bytes(i, a)
          /\ c = Stored(a, e, Bytes(i, a))
    BY <1>6, OutcomeGiven DEF Modifies
  <2>3. Valid(Did, counted) /\ FiniteLists(counted)
    <3>1. Valid(Did, a.data) /\ FiniteLists(a.data)
      BY DEF IsAccount
    <3>2. Valid(Did, counted)
      BY <1>6, <3>1, CountedValid DEF Modifies, Authorised
    <3>3. FiniteLists(counted)
      BY <1>1, <3>1 DEF Counted, FiniteLists, DidAccounts
    <3>4. QED
      BY <3>2, <3>3
  <2>4. Valid(Did, e)
    BY <1>6, <2>2, <2>3, ModifiedValid DEF Modifies, Typed
  <2>5. WithNonce(e, n) \in Modified(Counted(r.data, j.eth), j)
    BY <1>0, <1>6, <2>1, <2>2, <2>3, ModifiedIgnoresNonce DEF Modifies, Typed
  <2>6. Size(WithNonce(e, n)) = Size(e) /\ WithNonce(e, n).nonce = n
    BY <2>4, WithNonceKeeps DEF Valid
  <2> DEFINE size == Bytes(i, r)
             d == Stored(r, WithNonce(e, n), size)
  <2>7. DISCRIMINATOR + Size(e) <= size
    <3>1. c.data = e
      BY <2>2, StoredFields
    <3>2. QED
      BY <1>6, <2>2, <3>1 DEF Room, Modifies, Bytes
  <2>8. d \in Outcome(r, j, signers)
    BY <1>0, <1>2, <1>6, <2>1, <2>5, <2>6, <2>7, OutcomeMade DEF Modifies, Bytes
  <2>9. Fine(d)
    <3>1. /\ c.exists /\ c.data = e /\ c.legacy = a.legacy
          /\ c.space = Bytes(i, a)
      BY <2>2, StoredFields
    <3>a. /\ d.exists /\ d.data = WithNonce(e, n) /\ d.space = size
          /\ d.legacy = r.legacy
      BY StoredFields
    <3> HIDE DEF d, n
    <3>2. Match(c, d)
      BY <1>0, <2>6, <3>1, <3>a DEF Match
    <3>3. QED
      BY <1>6, <3>1, <3>a, <3>2 DEF Modifies, Modifying, Bytes
  <2>10. QED
    BY <2>8, <2>9
<1>7. QED
  BY <1>3, <1>4, <1>b, <1>5, <1>6, OutcomeCases

-----------------------------------------------------------------------------
(* The size that an allocation asks for is that of the account that the    *)
(* program leaves, after every instruction.                                *)

NamesOf(S) == {x.fragment : x \in S}

LEMMA NamesCounted ==
  ASSUME NEW S, IsFiniteSet(S), UniqueByFragment(S)
  PROVE  IsFiniteSet(NamesOf(S)) /\ Cardinality(NamesOf(S)) = Cardinality(S)
<1> DEFINE f == [x \in S |-> x.fragment]
<1>1. f \in Bijection(S, NamesOf(S))
  BY DEF Bijection, Injection, Surjection, IsInjective, NamesOf, UniqueByFragment
<1>2. ExistsBijection(S, NamesOf(S))
  BY <1>1 DEF ExistsBijection
<1>3. QED
  BY <1>2, FS_Bijection

LEMMA NamedOnce ==
  ASSUME NEW S, UniqueByFragment(S), NEW f
  PROVE  /\ WithoutFirst(S, f) = {x \in S : x.fragment # f}
         /\ UniqueByFragment(WithoutFirst(S, f))
         /\ NamesOf(WithoutFirst(S, f)) = NamesOf(S) \ {f}
         /\ Fragmented(S, f) = {} <=> f \notin NamesOf(S)
<1>1. WithoutFirst(S, f) = {x \in S : x.fragment # f}
  <2>1. ASSUME NEW x \in S, x.fragment = f
        PROVE  x = CHOOSE y \in Fragmented(S, f) : TRUE
    BY <2>1 DEF UniqueByFragment, Fragmented
  <2>2. QED
    BY <2>1 DEF WithoutFirst
<1>2. QED
  BY <1>1 DEF UniqueByFragment, NamesOf, Fragmented

LEMMA NamedToo ==
  ASSUME NEW S, UniqueByFragment(S), NEW x
  PROVE  /\ NamesOf(S \cup {x}) = NamesOf(S) \cup {x.fragment}
         /\ x.fragment \notin NamesOf(S) => UniqueByFragment(S \cup {x})
BY DEF UniqueByFragment, NamesOf

\* How many names there are with one more, and with one less.
LEMMA NamesMoved ==
  ASSUME NEW S, IsFiniteSet(S), NEW f
  PROVE  /\ Cardinality(S) \in Int
         /\ Cardinality(S \cup {f}) = Cardinality(S) + (IF f \in S THEN 0 ELSE 1)
         /\ Cardinality(S \ {f}) = Cardinality(S) + (IF f \in S THEN 0 - 1 ELSE 0)
<1>1. Cardinality(S) \in Int
  BY FS_CardinalityType
<1>2. Cardinality(S \cup {f}) = IF f \in S THEN Cardinality(S) ELSE Cardinality(S) + 1
  BY FS_AddElement
<1>3. Cardinality(S \ {f}) = IF f \in S THEN Cardinality(S) - 1 ELSE Cardinality(S)
  BY FS_RemoveElement
<1>4. QED
  BY <1>1, <1>2, <1>3

\* The methods that an operation leaves, up to their flags.
LEMMA NamesModified ==
  ASSUME NEW a, Valid(Did, a), FiniteLists(a)
  PROVE  /\ \A f : NamesOf(RemoveMethod(a, f).verification_methods) =
                   NamesOf(a.verification_methods) \ {f}
         /\ \A f, flags : Fragmented(AllMethods(a), f) # {} =>
              NamesOf(WithFlags(a, f, flags).verification_methods) =
              NamesOf(a.verification_methods)
         /\ \A ms : UniqueByFragment(ms) =>
              SetVerificationMethods(a, {}, ms).verification_methods =
              {m \in ms : m.fragment # DefaultFragment}
<1>0. /\ a \in DidAccounts /\ a.initial_verification_method.fragment = DefaultFragment
      /\ DefaultFragment \notin NamesOf(a.verification_methods)
      /\ UniqueByFragment(a.verification_methods)
  BY DEF Valid, NamesOf, Fragmented
<1>1. ASSUME NEW f
      PROVE  NamesOf(RemoveMethod(a, f).verification_methods) =
             NamesOf(a.verification_methods) \ {f}
  <2>1. CASE f = DefaultFragment
    <3>1. RemoveMethod(a, f).verification_methods = a.verification_methods
      BY <1>0, <2>1 DEF RemoveMethod, DidAccounts
    <3>2. QED
      BY <1>0, <2>1, <3>1
  <2>2. CASE f # DefaultFragment
    <3>1. RemoveMethod(a, f).verification_methods = WithoutFirst(a.verification_methods, f)
      BY <1>0, <2>2 DEF RemoveMethod, DidAccounts
    <3>2. QED
      BY <1>0, <3>1, NamedOnce
  <2>3. QED
    BY <2>1, <2>2
<1>2. ASSUME NEW f, NEW flags, Fragmented(AllMethods(a), f) # {}
      PROVE  NamesOf(WithFlags(a, f, flags).verification_methods) =
             NamesOf(a.verification_methods)
  <2>1. CASE f = DefaultFragment
    BY <1>0, <2>1 DEF WithFlags, DidAccounts
  <2>2. CASE f # DefaultFragment
    <3> DEFINE m == CHOOSE x \in Fragmented(a.verification_methods, f) : TRUE
               n == [m EXCEPT !.flags = flags]
    <3>1. m \in a.verification_methods /\ m.fragment = f
      BY <1>0, <1>2, <2>2 DEF Fragmented, AllMethods
    <3>2. n.fragment = f
      BY <1>0, <3>1 DEF DidAccounts, VerificationMethods
    <3>3. WithFlags(a, f, flags).verification_methods =
            (a.verification_methods \ {m}) \cup {n}
      BY <1>0, <2>2 DEF WithFlags, DidAccounts
    <3> HIDE DEF m, n
    <3>4. QED
      BY <3>1, <3>2, <3>3 DEF NamesOf
  <2>3. QED
    BY <2>1, <2>2
<1>3. ASSUME NEW ms, UniqueByFragment(ms)
      PROVE  SetVerificationMethods(a, {}, ms).verification_methods =
             {m \in ms : m.fragment # DefaultFragment}
  <2> DEFINE named == Fragmented({} \cup ms, a.initial_verification_method.fragment)
             n == CHOOSE m \in named : TRUE
  <2>0. named = Fragmented(ms, DefaultFragment)
    BY <1>0
  <2>1. CASE named = {}
    <3>1. SetVerificationMethods(a, {}, ms).verification_methods = ms
      BY <1>0, <2>1 DEF SetVerificationMethods, DidAccounts
    <3>2. QED
      BY <2>0, <2>1, <3>1 DEF Fragmented
  <2>2. CASE named # {}
    <3>1. SetVerificationMethods(a, {}, ms).verification_methods = ms \ {n}
      BY <1>0, <2>2 DEF SetVerificationMethods, DidAccounts
    <3>2. n \in ms /\ n.fragment = DefaultFragment
      BY <2>0, <2>2 DEF Fragmented
    <3> HIDE DEF n
    <3>3. QED
      BY <1>3, <3>1, <3>2 DEF UniqueByFragment
  <2>3. QED
    BY <2>1, <2>2
<1>4. QED
  BY <1>1, <1>2, <1>3

\* A document followed along with an account: it differs from it at most in the
\* methods that have its names, not in what a size depends on.
Follows(d, a) ==
  /\ IsDocument(d) /\ UniqueByFragment(d.verification_methods)
  /\ NamesOf(d.verification_methods) = NamesOf(a.verification_methods)
  /\ d.services = a.services
  /\ d.native_controllers = a.native_controllers
  /\ d.other_controllers = a.other_controllers

LEMMA FollowsCounted ==
  ASSUME NEW a, Valid(Did, a), FiniteLists(a), NEW d, Follows(d, a)
  PROVE  Cardinality(d.verification_methods) = Cardinality(a.verification_methods)
BY NamesCounted DEF Follows, IsDocument, Valid, FiniteLists

\* The bytes of a list of elements of one size.
LEMMA SizeParts ==
  ASSUME NEW a, FiniteLists(a)
  PROVE  /\ Cardinality(a.verification_methods) \in Nat
         /\ Cardinality(a.services) \in Nat
         /\ Cardinality(a.native_controllers) \in Nat
         /\ Cardinality(a.other_controllers) \in Nat
         /\ Size(a) \in Nat
<1>1. /\ Cardinality(a.verification_methods) \in Nat
      /\ Cardinality(a.services) \in Nat
      /\ Cardinality(a.native_controllers) \in Nat
      /\ Cardinality(a.other_controllers) \in Nat
  BY FS_CardinalityType DEF FiniteLists
<1>2. QED
  BY <1>1, SizesAreNumbers DEF Size, INITIAL_SIZE, CONTROLLER_SIZE

\* How sizes move with one list.
LEMMA SizeMoved ==
  ASSUME NEW a, FiniteLists(a), NEW c, FiniteLists(c),
         c.native_controllers = a.native_controllers,
         c.other_controllers = a.other_controllers,
         NEW m \in Int, NEW s \in Int,
         Cardinality(c.verification_methods) = Cardinality(a.verification_methods) + m,
         Cardinality(c.services) = Cardinality(a.services) + s
  PROVE  Size(c) = Size(a) + VmSize * m + ServiceSize * s
<1>1. /\ Cardinality(a.verification_methods) \in Int /\ Cardinality(a.services) \in Int
      /\ VmSize \in Int /\ ServiceSize \in Int /\ OtherSize \in Int
      /\ Cardinality(a.native_controllers) \in Int
      /\ Cardinality(a.other_controllers) \in Int
  BY SizeParts, SizesAreNumbers
<1>2. \A x, y, z \in Int : x * (y + z) = x * y + x * z
  OBVIOUS
<1>3. /\ VmSize * Cardinality(c.verification_methods) =
           VmSize * Cardinality(a.verification_methods) + VmSize * m
      /\ ServiceSize * Cardinality(c.services) =
           ServiceSize * Cardinality(a.services) + ServiceSize * s
  BY <1>1, <1>2
<1> DEFINE p == VmSize * Cardinality(a.verification_methods)
           q == ServiceSize * Cardinality(a.services)
           r == CONTROLLER_SIZE * Cardinality(a.native_controllers)
           t == OtherSize * Cardinality(a.other_controllers)
           u == VmSize * m
           v == ServiceSize * s
<1>4. /\ p \in Int /\ q \in Int /\ r \in Int /\ t \in Int /\ u \in Int /\ v \in Int
  BY <1>1 DEF CONTROLLER_SIZE
<1>5. Size(a) = INITIAL_SIZE + p + q + r + t
  BY DEF Size
<1>6. Size(c) = INITIAL_SIZE + (p + u) + (q + v) + r + t
  BY <1>3 DEF Size
<1> HIDE DEF p, q, r, t, u, v
<1>7. Size(c) = Size(a) + u + v
  BY <1>4, <1>5, <1>6 DEF INITIAL_SIZE
<1>8. QED
  BY <1>7 DEF u, v

Tracked(n, c) == Follows(n.account, c) /\ n.size = DISCRIMINATOR + Size(c)

LEMMA MethodsTracked ==
  ASSUME NEW a, Valid(Did, a), FiniteLists(a), NEW d, Follows(d, a),
         NEW i \in InstrOf(General), NEW c \in Modified(a, i),
         i.name \in {"add_verification_method", "remove_verification_method",
                     "set_vm_flags"}
  PROVE  Tracked(Change(d, DISCRIMINATOR + Size(a), i), c)
<1> DEFINE size == DISCRIMINATOR + Size(a)
           n == Change(d, size, i)
<1>0. i.arg \in ArgumentsOf(i.name) /\ i.name \in Modifying
  BY InstrOfNames DEF InstructionsOf, Modifying
<1>1. Valid(Did, c) /\ FiniteLists(c)
  BY <1>0, ModifiedValid
<1>2. size \in Int /\ VmSize \in Int /\ ServiceSize \in Int
  BY SizeParts, SizesAreNumbers DEF DISCRIMINATOR
<1>3. IsDocument(n.account)
  BY <1>2, ChangeFollowed DEF Follows, Followed
<1>4. IsModified(a, i, c)
  BY <1>0, ModifiedCases
<1>5. /\ a \in DidAccounts /\ c \in DidAccounts /\ d \in DidAccounts
      /\ UniqueByFragment(a.verification_methods) /\ UniqueByFragment(c.verification_methods)
      /\ UniqueByFragment(d.verification_methods)
      /\ IsFiniteSet(a.verification_methods) /\ IsFiniteSet(c.verification_methods)
      /\ IsFiniteSet(NamesOf(a.verification_methods))
      /\ Cardinality(a.verification_methods) = Cardinality(NamesOf(a.verification_methods))
      /\ Cardinality(c.verification_methods) = Cardinality(NamesOf(c.verification_methods))
      /\ Cardinality(a.verification_methods) \in Int
  BY <1>1, NamesCounted, SizeParts DEF Valid, Follows, IsDocument, FiniteLists
<1>6. ASSUME /\ c.services = a.services /\ c.native_controllers = a.native_controllers
             /\ c.other_controllers = a.other_controllers,
             NEW l, n.account = [d EXCEPT !.verification_methods = l],
             UniqueByFragment(l), NamesOf(l) = NamesOf(c.verification_methods)
      PROVE  Follows(n.account, c)
  BY <1>3, <1>5, <1>6 DEF Follows, DidAccounts
<1>7. ASSUME /\ c.services = a.services /\ c.native_controllers = a.native_controllers
             /\ c.other_controllers = a.other_controllers,
             NEW m \in Int,
             Cardinality(NamesOf(c.verification_methods)) =
             Cardinality(NamesOf(a.verification_methods)) + m
      PROVE  Size(c) = Size(a) + VmSize * m
  <2>1. Cardinality(c.services) = Cardinality(a.services) + 0
    BY <1>7, SizeParts
  <2>a. Cardinality(c.verification_methods) = Cardinality(a.verification_methods) + m
    BY <1>5, <1>7
  <2>b. 0 \in Int
    OBVIOUS
  <2>2. Size(c) = Size(a) + VmSize * m + ServiceSize * 0
    BY Zenon, <1>1, <1>7, <2>1, <2>a, <2>b, SizeMoved
  <2>3. Size(a) + VmSize * m \in Int /\ ServiceSize * 0 = 0
    BY <1>2, <1>7, SizeParts
  <2>4. QED
    BY <2>2, <2>3
<1> HIDE DEF size
<1>8. CASE i.name = "add_verification_method"
  <2> DEFINE l == d.verification_methods \cup {i.arg}
  <2>1. i.arg \in VerificationMethods /\ CanSetVerificationMethods(AllMethods(a), {i.arg})
    BY <1>0, <1>4, <1>8 DEF IsModified, ArgumentsOf
  <2>2. c = [a EXCEPT !.verification_methods = @ \cup {i.arg}]
    BY <1>4, <1>8, <2>1, AddMethodEffect DEF IsModified
  <2>3. /\ c.verification_methods = a.verification_methods \cup {i.arg}
        /\ c.services = a.services /\ c.native_controllers = a.native_controllers
        /\ c.other_controllers = a.other_controllers
    BY <1>5, <2>2 DEF DidAccounts
  <2>4. i.arg.fragment \notin NamesOf(a.verification_methods)
    BY <2>1 DEF CanSetVerificationMethods, AllMethods, NamesOf
  <2>5. /\ NamesOf(c.verification_methods) =
             NamesOf(a.verification_methods) \cup {i.arg.fragment}
        /\ NamesOf(l) = NamesOf(d.verification_methods) \cup {i.arg.fragment}
        /\ UniqueByFragment(l)
    <3>1. i.arg.fragment \notin NamesOf(d.verification_methods)
      BY <2>4 DEF Follows
    <3>2. NamesOf(c.verification_methods) =
            NamesOf(a.verification_methods) \cup {i.arg.fragment}
      BY <1>5, <2>3, NamedToo
    <3>3. /\ NamesOf(l) = NamesOf(d.verification_methods) \cup {i.arg.fragment}
          /\ UniqueByFragment(l)
      BY <1>5, <3>1, NamedToo
    <3>4. QED
      BY <3>2, <3>3
  <2>6. Cardinality(NamesOf(c.verification_methods)) =
        Cardinality(NamesOf(a.verification_methods)) + 1
    BY <1>5, <2>4, <2>5, NamesMoved
  <2>7. Size(c) = Size(a) + VmSize
    BY <1>2, <1>7, <2>3, <2>6
  <2>8. n = [account |-> [d EXCEPT !.verification_methods = l], size |-> size + VmSize]
    BY <1>8 DEF Change, AddVerificationMethodChange, Changed
  <2> HIDE DEF l, n
  <2>9. Follows(n.account, c)
    BY <1>6, <2>3, <2>5, <2>8 DEF Follows
  <2>10. n.size = DISCRIMINATOR + Size(c)
    BY <1>2, <2>7, <2>8, SizeParts DEF size, DISCRIMINATOR
  <2>11. QED
    BY <2>9, <2>10 DEF Tracked, n, size
<1>9. CASE i.name = "remove_verification_method"
  <2> DEFINE l == WithoutFirst(d.verification_methods, i.arg)
             m == IF i.arg \in NamesOf(a.verification_methods) THEN 0 - 1 ELSE 0
  <2>1. c = RemoveMethod(a, i.arg)
    BY <1>4, <1>9 DEF IsModified
  <2>2. /\ c.services = a.services /\ c.native_controllers = a.native_controllers
        /\ c.other_controllers = a.other_controllers
    BY <1>5, <2>1 DEF DidAccounts, RemoveMethod
  <2>3. /\ NamesOf(c.verification_methods) = NamesOf(a.verification_methods) \ {i.arg}
        /\ NamesOf(l) = NamesOf(d.verification_methods) \ {i.arg}
        /\ UniqueByFragment(l)
        /\ Fragmented(d.verification_methods, i.arg) = {} <=>
             i.arg \notin NamesOf(d.verification_methods)
    <3>1. NamesOf(c.verification_methods) = NamesOf(a.verification_methods) \ {i.arg}
      BY <2>1, NamesModified
    <3>2. /\ NamesOf(l) = NamesOf(d.verification_methods) \ {i.arg}
          /\ UniqueByFragment(l)
          /\ Fragmented(d.verification_methods, i.arg) = {} <=>
               i.arg \notin NamesOf(d.verification_methods)
      BY <1>5, NamedOnce
    <3>3. QED
      BY <3>1, <3>2
  <2>4. /\ m \in Int
        /\ Cardinality(NamesOf(c.verification_methods)) =
             Cardinality(NamesOf(a.verification_methods)) + m
    <3>1. m \in Int
      OBVIOUS
    <3>2. Cardinality(NamesOf(a.verification_methods) \ {i.arg}) =
          Cardinality(NamesOf(a.verification_methods)) + m
      BY <1>5, NamesMoved
    <3> HIDE DEF m
    <3>3. QED
      BY <2>3, <3>1, <3>2
  <2>5. Size(c) = Size(a) + VmSize * m
    BY <1>7, <2>2, <2>4
  <2>6. n = [account |-> [d EXCEPT !.verification_methods = l],
             size |-> IF Fragmented(d.verification_methods, i.arg) = {} THEN size
                      ELSE size - VmSize]
    BY <1>9 DEF Change, RemoveVerificationMethodChange, Changed
  <2>a. /\ n.account = [d EXCEPT !.verification_methods = l]
        /\ n.size = IF Fragmented(d.verification_methods, i.arg) = {} THEN size
                    ELSE size - VmSize
    BY <2>6
  <2> HIDE DEF l, n
  <2>7. Follows(n.account, c)
    BY <1>6, <2>2, <2>3, <2>a DEF Follows
  <2>8. n.size = DISCRIMINATOR + Size(c)
    <3>1. n.size = size + VmSize * m
      BY <1>2, <2>3, <2>a DEF Follows
    <3>2. VmSize * m \in Int /\ Size(a) \in Int
      BY <1>2, <2>4, SizeParts
    <3>3. QED
      BY <2>5, <3>1, <3>2 DEF size, DISCRIMINATOR
  <2>9. QED
    BY <2>7, <2>8 DEF Tracked, n, size
<1>10. CASE i.name = "set_vm_flags"
  <2>1. /\ c = WithFlags(a, i.arg.fragment, i.arg.flags)
        /\ Fragmented(AllMethods(a), i.arg.fragment) # {}
    BY <1>4, <1>10 DEF IsModified
  <2>2. /\ c.services = a.services /\ c.native_controllers = a.native_controllers
        /\ c.other_controllers = a.other_controllers
    BY <1>5, <2>1 DEF DidAccounts, WithFlags
  <2>3. NamesOf(c.verification_methods) = NamesOf(a.verification_methods)
    BY <2>1, NamesModified
  <2>4. Size(c) = Size(a)
    <3>1. Cardinality(NamesOf(c.verification_methods)) =
          Cardinality(NamesOf(a.verification_methods)) + 0
      BY <1>5, <2>3
    <3>2. Size(c) = Size(a) + VmSize * 0
      BY <1>7, <2>2, <3>1
    <3>3. QED
      BY <1>2, <3>2, SizeParts
  <2>5. n = [account |-> d, size |-> size]
    BY <1>10 DEF Change, SetVmFlagsChange, Changed
  <2>6. Follows(n.account, c) /\ n.size = DISCRIMINATOR + Size(c)
    BY <2>2, <2>3, <2>4, <2>5 DEF Follows, size
  <2>7. QED
    BY <2>6 DEF Tracked, n, size
<1>11. QED
  BY <1>8, <1>9, <1>10

LEMMA ServicesTracked ==
  ASSUME NEW a, Valid(Did, a), FiniteLists(a), NEW d, Follows(d, a),
         NEW i \in InstrOf(General), NEW c \in Modified(a, i),
         i.name \in {"add_service", "remove_service"}
  PROVE  Tracked(Change(d, DISCRIMINATOR + Size(a), i), c)
<1> DEFINE size == DISCRIMINATOR + Size(a)
           n == Change(d, size, i)
           f == IF i.name = "add_service" THEN i.arg.service.fragment ELSE i.arg
           N == NamesOf(a.services)
           rest == WithoutFirst(a.services, f)
<1>0. i.arg \in ArgumentsOf(i.name) /\ i.name \in Modifying
  BY InstrOfNames DEF InstructionsOf, Modifying
<1>1. Valid(Did, c) /\ FiniteLists(c)
  BY <1>0, ModifiedValid
<1>2. size \in Int /\ VmSize \in Int /\ ServiceSize \in Int
  BY SizeParts, SizesAreNumbers DEF DISCRIMINATOR
<1>3. IsDocument(n.account)
  BY <1>2, ChangeFollowed DEF Follows, Followed
<1>4. IsModified(a, i, c)
  BY <1>0, ModifiedCases
<1>5. /\ a \in DidAccounts /\ c \in DidAccounts /\ d \in DidAccounts
      /\ UniqueByFragment(a.services) /\ UniqueByFragment(c.services)
      /\ IsFiniteSet(a.services) /\ IsFiniteSet(c.services)
      /\ d.services = a.services
  BY <1>1 DEF Valid, Follows, IsDocument, FiniteLists
<1>a. /\ IsFiniteSet(N) /\ Cardinality(a.services) = Cardinality(N)
      /\ Cardinality(c.services) = Cardinality(NamesOf(c.services))
      /\ Cardinality(N) \in Int
  BY <1>5, NamesCounted, NamesMoved
<1>b. /\ rest = {s \in a.services : s.fragment # f}
      /\ UniqueByFragment(rest) /\ NamesOf(rest) = N \ {f}
      /\ Fragmented(a.services, f) = {} <=> f \notin N
  BY <1>5, NamedOnce
<1>6. ASSUME c = [a EXCEPT !.services = c.services],
             n.account = [d EXCEPT !.services = c.services]
      PROVE  Follows(n.account, c)
  <2>1. /\ c.verification_methods = a.verification_methods
        /\ c.native_controllers = a.native_controllers
        /\ c.other_controllers = a.other_controllers
    BY <1>5, <1>6 DEF DidAccounts
  <2>2. /\ n.account.verification_methods = d.verification_methods
        /\ n.account.services = c.services
        /\ n.account.native_controllers = d.native_controllers
        /\ n.account.other_controllers = d.other_controllers
    BY <1>5, <1>6 DEF DidAccounts
  <2> HIDE DEF n
  <2>3. QED
    BY <1>3, <2>1, <2>2 DEF Follows
<1>7. ASSUME c = [a EXCEPT !.services = c.services],
             NEW m \in Int, Cardinality(NamesOf(c.services)) = Cardinality(N) + m
      PROVE  Size(c) = Size(a) + ServiceSize * m
  <2>1. /\ c.verification_methods = a.verification_methods
        /\ c.native_controllers = a.native_controllers
        /\ c.other_controllers = a.other_controllers
    BY <1>5, <1>7 DEF DidAccounts
  <2>2. Cardinality(c.verification_methods) = Cardinality(a.verification_methods) + 0
    BY <2>1, SizeParts
  <2>3. Cardinality(c.services) = Cardinality(a.services) + m
    BY <1>a, <1>7
  <2>4. 0 \in Int /\ m \in Int
    BY <1>7
  <2>5. Size(c) = Size(a) + VmSize * 0 + ServiceSize * m
    BY Zenon, <1>1, <2>1, <2>2, <2>3, <2>4, SizeMoved
  <2>6. Size(a) \in Int /\ VmSize * 0 = 0
    BY <1>2, SizeParts
  <2>7. QED
    BY <2>5, <2>6
<1> HIDE DEF size, N, rest
<1>8. CASE i.name = "add_service"
  <2> DEFINE m == IF f \in N THEN 0 ELSE 1
             service == i.arg.service
  <2>1. /\ f = service.fragment
        /\ i.arg.allow_overwrite \/ Fragmented(a.services, f) = {}
        /\ c = AddedService(a, service)
    BY <1>4, <1>8 DEF IsModified, CanAddService
  <2>2. c.services = rest \cup {service} /\ c = [a EXCEPT !.services = c.services]
    BY <1>5, <1>b, <2>1 DEF AddedService, DidAccounts
  <2>3. NamesOf(c.services) = (N \ {f}) \cup {f}
    BY <1>b, <2>1, <2>2, NamedToo
  <2>4. m \in Int /\ Cardinality(NamesOf(c.services)) = Cardinality(N) + m
    <3>1. (N \ {f}) \cup {f} = N \cup {f}
      OBVIOUS
    <3>2. Cardinality(N \cup {f}) = Cardinality(N) + m
      BY <1>a, NamesMoved
    <3>3. QED
      BY <2>3, <3>1, <3>2
  <2>5. Size(c) = Size(a) + ServiceSize * m
    BY <1>7, <2>2, <2>4
  <2>6. n = IF i.arg.allow_overwrite /\ Fragmented(a.services, f) # {}
            THEN [account |-> [d EXCEPT !.services = rest \cup {service}], size |-> size]
            ELSE [account |-> [d EXCEPT !.services = a.services \cup {service}],
                  size |-> size + ServiceSize]
    <3>1. n = AddServiceChange(d, size, service, i.arg.allow_overwrite)
      BY <1>8 DEF Change
    <3>2. f = service.fragment
      BY <2>1
    <3> HIDE DEF n, f, service
    <3>3. n = IF i.arg.allow_overwrite /\ Fragmented(d.services, f) # {}
              THEN [account |-> [d EXCEPT !.services =
                                   WithoutFirst(d.services, f) \cup {service}],
                    size |-> size]
              ELSE [account |-> [d EXCEPT !.services = d.services \cup {service}],
                    size |-> size + ServiceSize]
      BY <3>1, <3>2 DEF AddServiceChange, Changed
    <3>4. QED
      BY <1>5, <3>3 DEF rest
  <2>7. /\ n.account = [d EXCEPT !.services = c.services]
        /\ n.size = size + ServiceSize * m
    <3>1. CASE f \in N
      <4>1. n = [account |-> [d EXCEPT !.services = c.services], size |-> size]
        BY <1>b, <2>1, <2>2, <2>6, <3>1
      <4>2. QED
        BY <1>2, <3>1, <4>1
    <3>2. CASE f \notin N
      <4>1. rest = a.services
        BY <1>b, <3>2 DEF Fragmented
      <4>2. n = [account |-> [d EXCEPT !.services = c.services],
                 size |-> size + ServiceSize]
        BY <1>b, <2>2, <2>6, <3>2, <4>1
      <4>3. QED
        BY <1>2, <3>2, <4>2
    <3>3. QED
      BY <3>1, <3>2
  <2> HIDE DEF n, m, f
  <2>8. n.size = DISCRIMINATOR + Size(c)
    <3>1. ServiceSize * m \in Int /\ Size(a) \in Int
      BY <1>2, <2>4, SizeParts
    <3>2. QED
      BY <2>5, <2>7, <3>1 DEF size, DISCRIMINATOR
  <2>9. QED
    BY <1>6, <2>2, <2>7, <2>8 DEF Tracked, n, size
<1>9. CASE i.name = "remove_service"
  <2>1. /\ f = i.arg /\ Fragmented(a.services, f) # {}
        /\ c = [a EXCEPT !.services = rest]
    BY <1>4, <1>9 DEF IsModified, rest
  <2>2. c.services = rest /\ c = [a EXCEPT !.services = c.services]
    BY <1>5, <2>1 DEF DidAccounts
  <2>3. Cardinality(NamesOf(c.services)) = Cardinality(N) + (0 - 1)
    <3>1. f \in N /\ NamesOf(c.services) = N \ {f}
      BY <1>b, <2>1, <2>2
    <3>2. QED
      BY <1>a, <3>1, NamesMoved
  <2>4. 0 - 1 \in Int
    OBVIOUS
  <2>5. Size(c) = Size(a) + ServiceSize * (0 - 1)
    BY <1>7, <2>2, <2>3, <2>4
  <2>6. n = [account |-> [d EXCEPT !.services = rest],
             size |-> IF Fragmented(a.services, f) = {} THEN size ELSE size - ServiceSize]
    BY <1>5, <1>9, <2>1 DEF Change, RemoveServiceChange, Changed, rest
  <2>7. n.account = [d EXCEPT !.services = c.services] /\ n.size = size - ServiceSize
    BY <2>1, <2>2, <2>6
  <2> HIDE DEF n
  <2>8. n.size = DISCRIMINATOR + Size(c)
    BY <1>2, <2>5, <2>7, SizeParts DEF size, DISCRIMINATOR
  <2>9. QED
    BY <1>6, <2>2, <2>7, <2>8 DEF Tracked, n, size
<1>10. QED
  BY <1>8, <1>9

\* The bytes of the lists that set_controllers leaves alone.
BaseSize(a) ==
  INITIAL_SIZE + VmSize * Cardinality(a.verification_methods)
    + ServiceSize * Cardinality(a.services)

LEMMA SizeSplit ==
  ASSUME NEW a, FiniteLists(a)
  PROVE  /\ Size(a) = BaseSize(a)
                      + ControllersSize(a.native_controllers, a.other_controllers)
         /\ BaseSize(a) \in Int
         /\ ControllersSize(a.native_controllers, a.other_controllers) \in Int
         /\ VmSize * Cardinality(a.verification_methods)
              + ServiceSize * Cardinality(a.services) \in Int
<1> DEFINE p == VmSize * Cardinality(a.verification_methods)
           q == ServiceSize * Cardinality(a.services)
           r == 32 * Cardinality(a.native_controllers)
           t == OtherSize * Cardinality(a.other_controllers)
<1>1. p \in Int /\ q \in Int /\ r \in Int /\ t \in Int
  BY SizeParts, SizesAreNumbers
<1>2. /\ Size(a) = INITIAL_SIZE + p + q + r + t
      /\ BaseSize(a) = INITIAL_SIZE + p + q
      /\ ControllersSize(a.native_controllers, a.other_controllers) = r + t
  BY DEF Size, BaseSize, ControllersSize, CONTROLLER_SIZE
<1>3. p + q \in Int
  BY <1>1
<1> HIDE DEF p, q, r, t
<1>4. /\ Size(a) = BaseSize(a)
                   + ControllersSize(a.native_controllers, a.other_controllers)
      /\ BaseSize(a) \in Int
      /\ ControllersSize(a.native_controllers, a.other_controllers) \in Int
  BY <1>1, <1>2 DEF INITIAL_SIZE
<1>5. QED
  BY <1>3, <1>4 DEF p, q

LEMMA ControllersTracked ==
  ASSUME NEW a, Valid(Did, a), FiniteLists(a), NEW d, Follows(d, a),
         NEW native, NEW other, IsFiniteSet(native), IsFiniteSet(other),
         NEW n, n = SetControllersChange(d, DISCRIMINATOR + Size(a), native, other),
         IsDocument(n.account)
  PROVE  Tracked(n, SetControllers(a, native, other))
<1> DEFINE c == SetControllers(a, native, other)
<1>1. a \in DidAccounts /\ d \in DidAccounts
  BY DEF Valid, Follows, IsDocument
<1>2. /\ c.verification_methods = a.verification_methods /\ c.services = a.services
      /\ c.native_controllers = native /\ c.other_controllers = other
  BY <1>1 DEF SetControllers, DidAccounts
<1>3. n = [account |-> [d EXCEPT !.native_controllers = native,
                                 !.other_controllers = other],
           size |-> DISCRIMINATOR + Size(a) + ControllersSize(native, other)
              - ControllersSize(d.native_controllers, d.other_controllers)]
  BY DEF SetControllersChange, Changed
<1>4. /\ n.account.verification_methods = d.verification_methods
      /\ n.account.services = d.services
      /\ n.account.native_controllers = native /\ n.account.other_controllers = other
  <2>1. n.account = [d EXCEPT !.native_controllers = native, !.other_controllers = other]
    BY <1>3
  <2>2. QED
    BY <1>1, <2>1 DEF DidAccounts
<1>5. Follows(n.account, c)
  BY <1>2, <1>4 DEF Follows
<1>6. n.size = DISCRIMINATOR + Size(c)
  <2>1. FiniteLists(c)
    BY <1>2 DEF FiniteLists
  <2>2. /\ Size(a) = BaseSize(a)
                     + ControllersSize(a.native_controllers, a.other_controllers)
        /\ BaseSize(a) \in Int
        /\ ControllersSize(a.native_controllers, a.other_controllers) \in Int
    BY SizeSplit
  <2>3. /\ Size(c) = BaseSize(c)
                     + ControllersSize(c.native_controllers, c.other_controllers)
        /\ ControllersSize(c.native_controllers, c.other_controllers) \in Int
    BY <2>1, SizeSplit
  <2> HIDE DEF c
  <2>4. BaseSize(c) = BaseSize(a)
    BY <1>2 DEF BaseSize
  <2>5. n.size = DISCRIMINATOR + Size(a) + ControllersSize(native, other)
                  - ControllersSize(a.native_controllers, a.other_controllers)
    BY <1>3 DEF Follows
  <2>6. QED
    BY <1>2, <2>2, <2>3, <2>4, <2>5 DEF DISCRIMINATOR
<1>7. QED
  BY <1>5, <1>6 DEF Tracked

\* What update leaves, apart from the flags of the initial method.
LEMMA UpdateTracked ==
  ASSUME NEW a, Valid(Did, a), FiniteLists(a), NEW d, Follows(d, a),
         NEW i \in InstrOf(General), NEW c \in Modified(a, i), i.name = "update"
  PROVE  Tracked(Change(d, DISCRIMINATOR + Size(a), i), c)
<1> DEFINE size == DISCRIMINATOR + Size(a)
           arg == i.arg
           ms == {m \in arg.verification_methods : m.fragment # DefaultFragment}
           e == [d EXCEPT !.verification_methods = ms, !.services = arg.services]
           served == SetServices(a, arg.services)
           named == SetVerificationMethods(served, {}, arg.verification_methods)
           n == Change(d, size, i)
           Lists(x) == VmSize * Cardinality(x.verification_methods)
                         + ServiceSize * Cardinality(x.services)
<1>0. arg \in UpdateArgs /\ FiniteLists(arg) /\ i.name \in Modifying
  BY InstrOfNames DEF InstructionsOf, Modifying, ArgumentsOf
<1>1. IsModified(a, i, c)
  BY <1>0, ModifiedCases
<1>2. /\ c = SetControllers(named, arg.native_controllers, arg.other_controllers)
      /\ CanSetServices(arg.services)
      /\ UniqueByFragment(arg.verification_methods)
  BY <1>1 DEF IsModified, Updated, CanSetVerificationMethods
<1>3. /\ Valid(Did, served) /\ FiniteLists(served)
      /\ served.services = arg.services
      /\ served.native_controllers = a.native_controllers
      /\ served.other_controllers = a.other_controllers
  <2>1. Valid(Did, served)
    BY <1>0, <1>2, ServicesValid DEF UpdateArgs
  <2>2. FiniteLists(served)
    BY <1>0, FiniteUntouched DEF FiniteLists
  <2>3. QED
    BY <2>1, <2>2 DEF SetServices, Valid, DidAccounts
<1> HIDE DEF served
<1>4. /\ Valid(Did, named) /\ FiniteLists(named)
      /\ named.verification_methods = ms
      /\ named.services = arg.services
      /\ named.native_controllers = a.native_controllers
      /\ named.other_controllers = a.other_controllers
  <2>1. Valid(Did, named)
    BY <1>0, <1>2, <1>3, ReplaceMethodsValid DEF UpdateArgs
  <2>2. FiniteLists(named)
    <3>1. IsFiniteSet({} \cup arg.verification_methods)
      BY <1>0 DEF FiniteLists
    <3>2. QED
      BY <1>3, <3>1, FiniteUntouched
  <2>3. named.verification_methods = ms
    BY <1>2, <1>3, NamesModified
  <2>4. /\ named.services = served.services
        /\ named.native_controllers = served.native_controllers
        /\ named.other_controllers = served.other_controllers
    BY <1>3 DEF SetVerificationMethods, Valid, DidAccounts
  <2>5. QED
    BY <1>3, <2>1, <2>2, <2>3, <2>4
<1> HIDE DEF named
<1>5. /\ d \in DidAccounts /\ IsDocument(d)
      /\ ms \subseteq VerificationMethods /\ IsFiniteSet(ms) /\ UniqueByFragment(ms)
  <2>1. ms \subseteq VerificationMethods /\ IsFiniteSet(ms)
    BY <1>0, FS_Subset DEF UpdateArgs, FiniteLists
  <2>2. QED
    BY <1>2, <2>1 DEF Follows, IsDocument, UniqueByFragment
<1>6. Follows(e, named)
  <2>1. IsDocument([d EXCEPT !.verification_methods = ms])
    BY <1>5, DocumentSet
  <2>2. IsDocument(e)
    <3>1. arg.services \subseteq Services /\ IsFiniteSet(arg.services)
      BY <1>0 DEF UpdateArgs, FiniteLists
    <3> DEFINE x == [d EXCEPT !.verification_methods = ms]
    <3>2. e = [x EXCEPT !.services = arg.services]
      OBVIOUS
    <3> HIDE DEF x, e
    <3>3. QED
      BY <2>1, <3>1, <3>2, DocumentSet DEF x
  <2>3. /\ e.verification_methods = ms /\ e.services = arg.services
        /\ e.native_controllers = d.native_controllers
        /\ e.other_controllers = d.other_controllers
    BY <1>5 DEF DidAccounts
  <2> HIDE DEF e, ms
  <2>4. QED
    BY <1>4, <1>5, <2>2, <2>3 DEF Follows
<1>7. n = SetControllersChange(e, size + Lists(named) - Lists(a),
                               arg.native_controllers, arg.other_controllers)
  <2>1. Lists(d) = Lists(a)
    BY FollowsCounted DEF Follows
  <2>2. n = SetControllersChange(e, size + (VmSize * Cardinality(ms)
                                             + ServiceSize * Cardinality(arg.services))
                                      - Lists(d),
                                 arg.native_controllers, arg.other_controllers)
    <3>1. n = UpdateChange(d, size, arg)
      BY DEF Change
    <3> HIDE DEF n, size, arg
    <3>2. QED
      BY <3>1 DEF UpdateChange, Changed
  <2>3. VmSize * Cardinality(ms) + ServiceSize * Cardinality(arg.services) = Lists(named)
    BY <1>4
  <2> HIDE DEF n, e, size, Lists, ms
  <2>4. size + (VmSize * Cardinality(ms) + ServiceSize * Cardinality(arg.services))
          - Lists(d) = size + Lists(named) - Lists(a)
    BY Zenon, <2>1, <2>3
  <2>5. QED
    BY Zenon, <2>2, <2>4
<1>8. size + Lists(named) - Lists(a) = DISCRIMINATOR + Size(named)
  <2>1. /\ Lists(a) \in Int /\ Lists(named) \in Int
        /\ Size(a) \in Int /\ Size(named) \in Int
    <3>1. Lists(a) \in Int /\ Lists(named) \in Int
      BY Zenon, <1>4, SizeSplit
    <3>2. Size(a) \in Int /\ Size(named) \in Int
      BY <1>4, SizeParts
    <3>3. QED
      BY <3>1, <3>2
  <2>2. /\ Size(a) = BaseSize(a)
                     + ControllersSize(a.native_controllers, a.other_controllers)
        /\ Size(named) = BaseSize(named)
                     + ControllersSize(a.native_controllers, a.other_controllers)
        /\ ControllersSize(a.native_controllers, a.other_controllers) \in Int
    <3>1. Size(named) = BaseSize(named)
            + ControllersSize(named.native_controllers, named.other_controllers)
      BY <1>4, SizeSplit
    <3>2. QED
      BY <1>4, <3>1, SizeSplit
  <2>3. \A x \in {a, named} : BaseSize(x) = INITIAL_SIZE + Lists(x)
    <3>1. ASSUME NEW x, FiniteLists(x)
          PROVE  BaseSize(x) = INITIAL_SIZE + Lists(x)
      <4> DEFINE p == VmSize * Cardinality(x.verification_methods)
                 q == ServiceSize * Cardinality(x.services)
      <4>1. p \in Int /\ q \in Int
        BY <3>1, SizeParts, SizesAreNumbers
      <4>2. BaseSize(x) = INITIAL_SIZE + p + q /\ Lists(x) = p + q
        BY DEF BaseSize
      <4> HIDE DEF p, q, Lists
      <4>3. QED
        BY <4>1, <4>2 DEF INITIAL_SIZE
    <3>2. QED
      BY <1>4, <3>1
  <2> HIDE DEF Lists
  <2>4. QED
    BY <2>1, <2>2, <2>3 DEF INITIAL_SIZE, DISCRIMINATOR
<1>9. IsDocument(n.account)
  <2>1. size \in Int
    BY SizeParts DEF DISCRIMINATOR
  <2>2. QED
    BY <1>5, <2>1, ChangeFollowed DEF Followed
<1>10. IsFiniteSet(arg.native_controllers) /\ IsFiniteSet(arg.other_controllers)
  BY <1>0 DEF FiniteLists
<1> HIDE DEF n, e, size, Lists
<1>11. Tracked(n, c)
  BY <1>2, <1>4, <1>6, <1>7, <1>8, <1>9, <1>10, ControllersTracked
<1>12. QED
  BY <1>11 DEF n, size

LEMMA ChangeTracked ==
  ASSUME NEW a, Valid(Did, a), FiniteLists(a), NEW d, Follows(d, a),
         NEW i \in InstrOf(General), NEW c \in Modified(a, i)
  PROVE  Tracked(Change(d, DISCRIMINATOR + Size(a), i), c)
<1>0. i.name \in General /\ i.arg \in ArgumentsOf(i.name)
  BY InstrOfNames DEF InstructionsOf
<1>1. CASE i.name \in {"add_verification_method", "remove_verification_method",
                       "set_vm_flags"}
  BY <1>1, MethodsTracked
<1>2. CASE i.name \in {"add_service", "remove_service"}
  BY <1>2, ServicesTracked
<1>3. CASE i.name = "update"
  BY <1>3, UpdateTracked
<1>4. CASE i.name = "set_controllers"
  <2> DEFINE n == Change(d, DISCRIMINATOR + Size(a), i)
  <2>1. n = SetControllersChange(d, DISCRIMINATOR + Size(a), i.arg.native_controllers,
                                 i.arg.other_controllers)
    BY <1>4 DEF Change
  <2>2. IsFiniteSet(i.arg.native_controllers) /\ IsFiniteSet(i.arg.other_controllers)
    BY <1>0, <1>4 DEF ArgumentsOf
  <2>3. c = SetControllers(a, i.arg.native_controllers, i.arg.other_controllers)
    <3>1. i.name \in Modifying
      BY <1>4 DEF Modifying
    <3>2. QED
      BY <1>4, <3>1, ModifiedCases DEF IsModified
  <2>4. IsDocument(n.account)
    <3>1. DISCRIMINATOR + Size(a) \in Int
      BY SizeParts DEF DISCRIMINATOR
    <3>2. QED
      BY <3>1, ChangeFollowed DEF Follows, Followed
  <2> HIDE DEF n
  <2>5. Tracked(n, c)
    BY <2>1, <2>2, <2>3, <2>4, ControllersTracked
  <2>6. QED
    BY <2>5 DEF n
<1>5. QED
  BY <1>0, <1>1, <1>2, <1>3, <1>4 DEF General, Operation
=============================================================================
