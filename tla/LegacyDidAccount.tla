-------------------------- MODULE LegacyDidAccount --------------------------
(***************************************************************************)
(* A DID document of the predecessor program and its conversion to an      *)
(* account of this one (programs/sol-did/src/legacy/legacy_did_account.rs).*)
(* The predecessor itself is not in the repository: a legacy document is   *)
(* any value of LegacyDidAccounts.                                         *)
(***************************************************************************)
EXTENDS DidAccount

\* The flags a legacy document can express, each by a list of method names:
\* authentication, assertion_method, key_agreement, capability_invocation
\* and capability_delegation, in the order of their bits.
LegacyFlags == 0..4

LegacyDidAccounts ==
  [authority: SolKeys,
   verification_method: SUBSET [id: Fragments, pubkey: SolKeys],
   listed: [LegacyFlags -> SUBSET Fragments],
   service: SUBSET Services,
   controller: SUBSET SolKeys]

\* Mutant: nothing is inferred from an empty list.
GetListedFlags(doc, f) == {b \in LegacyFlags : f \in doc.listed[b]}

\* LegacyDidAccount::get_flags.
GetFlags(doc, f) ==
  {b \in LegacyFlags : f \in doc.listed[b]} \cup
  {b \in {CAPABILITY_INVOCATION} : doc.listed[b] = {} /\ f = DefaultFragment}

\* LegacyDidAccount::migrate_verification_methods.
MigratedMethods(doc) ==
  {[fragment |-> m.id, flags |-> GetFlags(doc, m.id),
    method_type |-> Ed25519VerificationKey2018, key_data |-> m.pubkey] :
     m \in doc.verification_method}

\* Mutant: duplicates are not looked for.
CanMigrateDuplicates(doc) ==
  CanSetServices(doc.service) /\ doc.authority \notin doc.controller

\* Mutant: controllers are copied unchecked.
CanMigrateControllers(doc) ==
  UniqueByFragment(MigratedMethods(doc)) /\ CanSetServices(doc.service)

\* LegacyDidAccount::migrate: when every step of it returns Ok...
CanMigrate(doc) ==
  /\ UniqueByFragment(MigratedMethods(doc))
  /\ CanSetServices(doc.service)
  /\ doc.authority \notin doc.controller

\* ... and the account it leaves.
Migrated(doc) ==
  LET blank == InitAccount(doc.authority,
                           GetFlags(doc, DefaultFragment) \cup GuardedFlags)
      named == SetVerificationMethods(blank, {}, MigratedMethods(doc))
  IN SetControllers(SetServices(named, doc.service), doc.controller, {})

\* Mutant: services are not counted.
SizeWithoutServices(doc) ==
  INITIAL_SIZE + VmSize * Cardinality(doc.verification_method)
    + CONTROLLER_SIZE * Cardinality(doc.controller) + DISCRIMINATOR

\* LegacyDidAccount::post_migration_size, discriminator included.
PostMigrationSize(doc) ==
  INITIAL_SIZE + VmSize * Cardinality(doc.verification_method)
    + ServiceSize * Cardinality(doc.service)
    + CONTROLLER_SIZE * Cardinality(doc.controller) + DISCRIMINATOR
=============================================================================
