---------------------------- MODULE Instructions ----------------------------
(***************************************************************************)
(* The instructions of the did:sol program as a function from the account  *)
(* of one DID to the next, for transactions that hold several of them: all *)
(* take effect, one on what the previous one left, or none does.           *)
(*                                                                         *)
(* An instruction is a record: the name and the arguments of a handler, the*)
(* Ed25519 key it names as authority, an optional payer of rent and its    *)
(* optional signature, which is made over the arguments.  SolDid has the   *)
(* same handlers as actions.  close_legacy belongs to the predecessor      *)
(* program, whose account of the same DID is there or not.                 *)
(***************************************************************************)
EXTENDS LegacyDidAccount, Sequences

CONSTANT Did  \* the DID, named by its initial key
ASSUME DidAssumption == Did \in SolKeys

\* The arguments of each handler.
ArgumentsOf(name) ==
  CASE name \in {"initialize", "resize"} -> Nat
    [] name = "add_verification_method" -> VerificationMethods
    [] name \in {"remove_verification_method", "remove_service"} -> Fragments
    [] name = "set_vm_flags" -> [fragment: Fragments, flags: SUBSET (0..15)]
    [] name = "add_service" -> [service: Services, allow_overwrite: BOOLEAN]
    [] name = "set_controllers" ->
         {arg \in ControllersArgs : /\ IsFiniteSet(arg.native_controllers)
                                   /\ IsFiniteSet(arg.other_controllers)}
    [] name = "update" -> {arg \in UpdateArgs : FiniteLists(arg)}
    [] name \in {"close", "migrate", "close_legacy"} -> {"none"}

InstructionsOf(name) ==
  [name: {name}, arg: ArgumentsOf(name), authority: SolKeys,
   payer: SUBSET SolKeys, eth: {{}}]

\* The account of the DID: whether it exists, its content and its bytes; and
\* what the predecessor has of the same DID, at most one document.
NoAccount ==
  [exists |-> FALSE, data |-> NewAccount(Did), space |-> 0, legacy |-> {}]

Instruction(name, arg, authority) ==
  [name |-> name, arg |-> arg, authority |-> authority, payer |-> {}, eth |-> {}]

\* The accounts of an instruction that are signers of its transaction.
SignersOf(i) ==
  i.payer \cup (IF i.name = "migrate" THEN {} ELSE {i.authority})

When(condition, result) == IF condition THEN {result} ELSE {}

Authorised(a, i) ==
  LET among == IF i.name = "set_vm_flags"
               THEN FilterFragment(i.arg.fragment, i.arg.flags) ELSE Fragments
  IN IsAuthority(a, i.authority, i.arg, i.eth, among) /\ CanCount(a, i.eth)

\* The contents a handler can leave, none if it fails, of a counted account.
Modified(a, i) ==
  CASE i.name = "resize" -> {a}
    [] i.name = "add_verification_method" ->
         When(CanSetVerificationMethods(AllMethods(a), {i.arg}),
              SetVerificationMethods(a, AllMethods(a), {i.arg}))
    [] i.name = "remove_verification_method" ->
         When(~HasProtected(a, {i.arg}) /\ HasAuthority(RemoveMethod(a, i.arg)),
              RemoveMethod(a, i.arg))
    [] i.name = "set_vm_flags" ->
         IF i.arg.flags \subseteq KnownFlags
            /\ Fragmented(AllMethods(a), i.arg.fragment) # {}
         THEN LET b == WithFlags(a, i.arg.fragment, i.arg.flags)
              IN When(HasAuthority(b), b)
         ELSE {}
    [] i.name = "add_service" ->
         When(CanAddService(a, i.arg.service, i.arg.allow_overwrite),
              AddedService(a, i.arg.service))
    [] i.name = "remove_service" ->
         When(Fragmented(a.services, i.arg) # {},
              [a EXCEPT !.services = WithoutFirst(@, i.arg)])
    [] i.name = "set_controllers" ->
         When(CanSetControllers(a, i.arg.native_controllers,
                                i.arg.other_controllers),
              SetControllers(a, i.arg.native_controllers,
                             i.arg.other_controllers))
    [] i.name = "update" ->
         When(/\ ~HasProtected(a, Fragments)
              /\ CanSetServices(i.arg.services)
              /\ CanSetVerificationMethods({}, i.arg.verification_methods)
              /\ CanSetControllers(a, i.arg.native_controllers,
                                   i.arg.other_controllers)
              /\ HasAuthority(Updated(a, i.arg)),
              Updated(a, i.arg))

\* The accounts an instruction can leave, in a transaction with these signers.
Outcome(account, i, signers) ==
  LET size == IF i.name \in {"initialize", "resize"} THEN i.arg
              ELSE account.space
      Stored(a, bytes) ==
        [account EXCEPT !.exists = TRUE, !.data = a, !.space = bytes]
      Fitting(contents, bytes) ==
        {Stored(a, bytes) :
           a \in {b \in contents : DISCRIMINATOR + Size(b) <= bytes}}
  IN IF ~(SignersOf(i) \subseteq signers) THEN {}
     ELSE IF i.name = "close_legacy"
     THEN {[account EXCEPT !.legacy = {}] :
             doc \in {l \in account.legacy : l.authority = i.authority}}
     ELSE IF i.name \in {"initialize", "migrate"}
     THEN IF account.exists \/ i.authority # Did THEN {}
          ELSE IF i.name = "initialize" THEN Fitting({NewAccount(Did)}, size)
          ELSE UNION {Fitting({Migrated(doc)}, PostMigrationSize(doc)) :
                        doc \in {l \in account.legacy : CanMigrate(l)}}
     ELSE IF ~account.exists \/ ~Authorised(account.data, i) THEN {}
     ELSE IF i.name = "close"
     THEN {[NoAccount EXCEPT !.legacy = account.legacy]}
     ELSE Fitting(Modified(Counted(account.data, i.eth), i), size)

\* The accounts after the first n instructions of a transaction, for each n.
Run(account, instructions, signers) ==
  LET after[n \in 0..Len(instructions)] ==
        IF n = 0 THEN {account}
        ELSE UNION {Outcome(a, instructions[n], signers) : a \in after[n - 1]}
  IN after

\* A transaction is atomic: the accounts after all of its instructions.
Execute(account, instructions, signers) ==
  Run(account, instructions, signers)[Len(instructions)]

\* The accounts of the DID that there can be between two transactions.
LegacyAccounts ==
  {doc \in LegacyDidAccounts :
     /\ doc.authority = Did
     /\ IsFiniteSet(doc.verification_method)
     /\ IsFiniteSet(doc.service)
     /\ IsFiniteSet(doc.controller)}

IsAccount(account) ==
  /\ account \in [exists: BOOLEAN, data: DidAccounts, space: Nat,
                  legacy: SUBSET LegacyAccounts]
  /\ Valid(Did, account.data)
  /\ FiniteLists(account.data)
  /\ \A doc, other \in account.legacy : doc = other
=============================================================================
