# did:sol in TLA+

Specifications of the `did:sol` program and its client, model-checked with TLC
and proved with TLAPS. Paths below are relative to the repository (`src/`);
`program/` is `sol-did/programs/sol-did/src/`, `core/` is
`sol-did/client/packages/core/src/`.

## The system

A DID `did:sol:<key>` is *generative*: without any account it is controlled by
its Ed25519 key. To change its document its owner creates an account at an
address derived from that key; the account then says who may change it.

| Component | State | Operations | Interacts with |
|---|---|---|---|
| Account data (`program/state/did_account.rs`, `utils.rs`) | methods, services, controllers, nonce | setters, look-ups, authorisation, sizes | called by every instruction |
| Instructions (`program/instructions/`, `lib.rs`) | the accounts on chain | initialize, resize, close, add/remove method, set flags, add/remove service, set controllers, update, migrate | atomic transactions sent by clients; anyone may submit one |
| Legacy migration (`program/legacy/`) | reads accounts of the predecessor program | `post_migration_size`, `migrate`, `get_flags` | `migrate` instruction |
| `is_authority` (`program/integrations/`) | none | decides authority, through chains of controllers | called by other programs on accounts the instructions wrote |
| Transaction builder (`core/utils/DidSolTransactionBuilder.ts`) | queued instructions, signers, payer, wallet | chained calls, `rpc()`, `transaction()`, `instructions()` | awaits the cluster for account, nonce and confirmation; shared by whoever holds the object |
| `DidSolService` (`core/DidSolService.ts`) | the builder's | one method per instruction with a size callback, `migrate`, reads, `resolve`, `isMigratable` | extends the builder; asks two programs one after the other |
| Size helper (`core/DidAccountSizeHelper.ts`) | none | byte sizes of documents | size callbacks, allocation |
| Documents and wrappers (`core/DidSolDocument.ts`, `core/lib/`) | none | account to document and back | `resolve`, `updateFromDoc` |
| Identifiers, clusters (`core/DidSolIdentifier.ts`, `core/lib/connection.ts`) | none | reading and writing of `did:sol` texts | documents, `DidSolService.build` |
| Web-service driver (`drivers/uniresolver/src/`) | none; a service per request | register, update, deactivate, resolve | builds a `DidSolService` and chains calls on it |
| CLI, other drivers, IDL, CPI crate, example, scripts | none of their own | stateless wrappers, generated code | `resolve`, `is_authority`, the predecessor's client |

What is hard:

- **Long sequences of instructions** by several authorities with different
  kinds of keys, on one account over several lifetimes. Every update method
  merges lists by name and treats the name `default` apart; protection,
  ownership proof, lockout and the address of the account must survive all of
  it.
- **Ethereum signatures are data.** They are collected, submitted late, again,
  by anybody, in another order. The nonce has to stop that.
- **Stale reads.** The builder reads the account, awaits, reads the nonce,
  awaits, and the transaction is executed on whatever account is there then.
- **Failure and retry.** `sendAndConfirm` may give up on a transaction that
  lands afterwards; a failed call must not leak into the next one, whether it
  throws in the middle of a chain, in a read, in a signature or not at all.
- **The order of chained calls.** Authorities default to the wallet of the
  moment of the call, the fee is paid by the wallet of `rpc()`, and the post
  instructions of a migration are taken later than all others.
- **Two programs.** `resolve` and `isMigratable` ask for two accounts, one after
  the other, while the DID may be migrated, closed or created.
- **Sizes.** A chain of operations can need more space in its middle than at
  its end; migration computes a size from another format.
- **Controller graphs** with cycles and with DIDs that have no account.

The full list, each item at its line and with the properties that cover it, is
under `hazards` in `PROJECT.json`.

## Modules

| Module | What it is |
|---|---|
| `DidAccount` | The data of one account and the operations of `did_account.rs` as operators. `Can...` is "returns `Ok`", the operator without `Can` is the account left. |
| `LegacyDidAccount` | A legacy document and its conversion. |
| `SolDid` | The program: variables, one action per instruction, all properties of the accounts. |
| `DidControl` | The abstract specification: who controls a DID and who may change that. |
| `MCSolDid` | Instances of `SolDid`. |
| `Instructions` | The same handlers as a function from the account of one DID to the next, for transactions of several instructions. |
| `DidSolTransactionBuilder` | The client: builders, callers, transactions in flight, and the account they act on. Uses `Instructions`. |
| `MCBuilder` | Instances of it. |
| `DidSolIdentifier` | `did:sol` texts, their parts and clusters. |
| `DidSolDocument`, `MCDidSolDocument` | Resolving a DID and writing documents back. Composes `SolDid`, `DidSolIdentifier` and the predecessor's accounts. |
| `Registrar`, `MCRegistrar` | The web-service driver: requests as chains of `DidSolTransactionBuilder`. |
| `Authority`, `MCAuthority` | `is_authority` over the reachable states of `SolDid`. |
| `DidAccountProofs` | What each operator of `DidAccount` and `LegacyDidAccount` leaves of an account; induction on natural numbers. |
| `SolDidProofs` | The inductive invariant of `SolDid` and its consequences; lockout, protected methods, guarded flags, nonces; `SolDid` implements `DidControl`; migration. |
| `AuthorityProofs` | Chains of controllers of any length, over any graph. |
| `DidSolDocumentProofs` | Identifiers; the answers of `resolve`; documents from accounts and back. |
| `InstructionsProofs` | Transactions of any length: their accounts, nonces, and what they do to the predecessor's. |
| `DidSolTransactionBuilderProofs` | Objects, chains and transactions of any number of callers. |
| `AllocationProofs` | One instruction executed on two accounts that differ in nonce and space; the size that an allocation asks for and the documents that the program stores. |
| `FreshTransactionsProofs` | A transaction and its operations, executed side by side. |

### The program: `SolDid`

`owner`, `data`, `space` are functions from the DIDs of the instance: who owns
the account at the derived address, its content, its bytes. A DID without an
account reads as `NewAccount`, as `DidAccount::try_from` makes it. `signers` is
history: the keys whose signatures were over the last transaction; only
properties read it.

A step is one successful transaction with one instruction. One that fails
leaves all accounts as they were, so it is not a step. Each action has the
constraints of the handler's `#[derive(Accounts)]` struct (`Authorised`), the
handler, and the write-back with its check of the space (`Write`).

Abstractions. Names, keys, end points and controllers are values that can be
compared. Flag words are sets of bit positions. Vectors are sets: no operation
depends on their order, repeated names are refused, a controller is stored once.
An `Option` is a set with at most one member; a secp256k1 signature is the key,
the message and the nonce that it was made over. Message bytes are a tagged value per
argument: `remove_service` and `remove_verification_method` both sign a bare
fragment and have one tag. The bytes of a method, a service and a foreign
controller are constants (`VmSize`, `ServiceSize`, `OtherSize`).

### The client: `DidSolTransactionBuilder`

`builder` holds the fields of every `DidSolService` object, `call` the progress
of every asynchronous flow, `account` the account on chain with what the
predecessor has of the DID, `pool` the transactions in flight. `spent` (history)
are the nonces of the signatures that the program accepted since the account was
created, `open` (history) the objects whose last chain did not end in `rpc()`.
A call has a flag `alone` (history too): its chain began on an object that the
chain before had left with `rpc()`, and no other was under way on that object
until its transaction was sent.

A nonce is spent only if its signature was checked: a signature attached to an
instruction that its Ed25519 authority already authorises counts the nonce and
may itself be over an older one (`Accepted`).

A job is what a flow does at once: a sequence of chained calls (an operation,
`migrate` with or without the close of the predecessor's account,
`withEthSigner`, `withPartialSigners`, `withSolWallet`, `withAutomaticAlloc`, a
call that throws) and the call that ends it. A call may pass its second, optional
parameter: the payer of `migrate`, the resize authority of `withAutomaticAlloc`;
without it, the wallet of that moment is taken. The steps of a call are the
stretches between two awaits: `StartCall` (the chained calls, up to the first
await), `ReadAccount` (the reply for the allocation; the chain is put together)
or `Chain`, `ReadNonce` (signatures are asked for; post instructions are taken),
then `Send` or, if the signatures do not match what the transaction asks for,
`CannotSign`; `Confirm`, `GiveUp` or `Reject` run the `finally` block.
`Return` is the end of `instructions()`, whose caller sends the instructions by
itself; `transaction()` only wraps them. `Land` and `Expire` are the cluster,
which is external. The size callbacks of `DidSolService` are the `...Change`
operators.

Reads see the account as it is when they are answered. Chains that can meet
instructions of another chain on their object, because they share it or follow
`instructions()`, have no Ethereum signers (`SharingAssumption`): signing changes
a queued instruction in place, which the model does not. A change of connection
or of its options is left out. The fee payer is the wallet; rent is not modelled,
its payers are, as signers.

### Identifiers: `DidSolIdentifier`

A text is a record of its method, the words of its path and its fragment.
`Divided` is what the expression of `parse` makes of it: the colon after
`did:sol` is optional there, so that the rest of a longer method name is taken
as the word for the cluster; `AfterSol` says which names start with `sol`.
`Words` are the texts that `\w*` matches: an id whose fragment is not one of them
is written and cannot be parsed (divergence 4). `LowerWords` are those that may
stand anywhere in a controller; what `VALID_DID_REGEX` takes beyond letters and
digits in its last word is left out, but for underscores.

### Documents: `DidSolDocument`

`held` is the document of the client's last `resolve`. It may be kept for any
time before `updateFromDoc`, while all instructions of `SolDid` go on: the
account may be changed, closed and created again in between. `Named` is the
cluster that the client's DIDs name and `Cluster` the one that its service has
then. `HandMade` are documents the client makes by itself, sparse ones and ones
with ids that are mere fragments among them. A document is what
`DidSolDocument.from` makes: ids in text, the visible methods with their keys in text, the five lists, services and
controllers; `IsDocument` is the type of its fields, which `HandMade` must have.
`written` (history) is the document of the last step.

Not every document of that type is one that an account can have. `Complete` says
which are, and `UpdateYieldsDocument` is said of those: the default method is in
it with the key of the DID, since it cannot be removed nor altered; the lists
name methods of the document; native controllers are on the cluster of the
service; and keys are written as the client writes them.

`reading` is the call of `resolve` or `isMigratable` under way: `Resolve` and
`IsMigratable` are the reply of the first request, `GetLegacyData` of the second.
Between them everybody else acts; `legacy` is what the predecessor has, which a
migration may close in the same transaction and the predecessor at any time.
`getFlagsFromVerificationMethod` compares only the ends of ids; `HashSuffixes`
says which names end with which. A 20-byte key under the Ed25519 type is left
out.

### The driver: `Registrar`

A request becomes a job of `DidSolTransactionBuilder` on a service of its own,
as `register`, `update` and `deactivate` chain their calls. `buildService` gives
the service no wallet, so that its wallet is the `Placeholder` of
`NonSigningWallet`. A registration without an owner is of a key that the driver
generates (`Generated`).

## Checks

| Run | Question | States |
|---|---|---|
| `program` | Names, address, lockout, controllers, replay, guarded and protected flags, refinement, under all instructions but `migrate` | 26,997 |
| `migrate` | Every legacy document of a family, then further instructions | 3,262 |
| `builder` | Do fresh transactions do what was asked; does anything leak between calls; are spent nonces refused; is the predecessor's document kept until it is migrated | 647,483 |
| `shared` | Two flows on one object: do calls settle, is the object as it was built afterwards | 34,321 |
| `authority` | Do chains prove exactly the control that the graph of controllers gives, under each filter | 8,620 |
| `document_round_trip` | Does a document, however old, write back what it shows; does resolving the result give it again; do ids refer to their DID; were the answers of `resolve` and `isMigratable` true | 68,196 |
| `unknown_type`, `update_default`, `hex_key`, `hyphen_id`, `readme_chain`, `registrar` | What a comment or a document says and the code does not do | counterexamples |

Deadlock is not checked: nonces and calls are bounded, and an account whose
only authority is a secp256k1 key stops when its nonces are used up.

**Bounds.** `program`: one DID, a second Ed25519 key, one secp256k1 key with its
address, three names, nonces to 2. Two names besides `default` are enough for a
collision and a replacement, every kind of key can be the only authority, and
two nonces let a signature be late and be replayed. Inputs include what the
program must refuse: a second `default`, guarded flags, unknown bits, repeated
names, two services of one name, a DID as its own controller, a `did:sol` string
as foreign controller, and accounts of just the initial size. `migrate`: all
combinations of three methods (two of one name, one called `default`), lists of
capability invocation, services and controllers. `builder`: an owner with an
Ed25519 key and a relay whose transactions are signed with a secp256k1 key, each
with its own object, two calls each: chains whose size peaks in the middle, an
update of everything, explicit initialize, resize and close, a migration, and
one that throws half-way; starts with no account, with one of just its own size,
and with a document of the predecessor. Two calls are a call and its retry.
`shared`: two callers on one object, one call each, five kinds of chain, among
them one that throws, one that pays with another wallet and one that takes the
instructions; a third chain meets nothing that a second does not.
`document_round_trip`: one DID, a method in every list but one and a hidden
method that can take its name, which is the README's `eth-address`, the initial method with and without protection
and hidden, a service, a legacy document with a controller, two documents made
by hand; without secp256k1 signers, which change who may update and not what is
written. `authority`: three DIDs, all controller graphs, chains as long as there
are DIDs; repetitions prove nothing more. `MaxNonce` and `MaxCalls` are bounds of
the model; all others are sizes of sets.

**Fairness.** Only `CallsSettle` needs it: weak fairness of the steps of each
call (`Proceed`). A request is answered or fails (`Reject`), a wallet signs or
refuses, and `sendAndConfirm` times out (`GiveUp`). Nothing is assumed of the
cluster: a transaction need neither land nor expire. `StartCall` is not fair.

**What the runs show.**

- *Names and address* (`DistinctNames`, `AddressDerivable`): no sequence of
  additions, merges, updates and migrations makes two elements share a name or
  changes the key the address is derived from.
- *Lockout* (`NoLockout`): an account always has a method that can authorise the
  next instruction, if the inputs have types the program knows.
- *Replay* (`SignaturesSpent`, `SpentNoncesRefused`): an accepted signature is
  never accepted again in the lifetime of its account, one that only changed its
  size included. Closing an account ends the lifetime; the nonce of a new account starts at 0.
- *Guarded flags* (`OwnershipProven`, `ProtectedStays`): gained only with the
  method's own signature; a protected method stays.
- *Control* (`ControlSpec`): only keys in control act on an account.
- *Migration* (`MigrationFits`, `MigrationKeepsControl`): the new account has
  room for what the document becomes, and exactly the keys that this document
  let invoke are in control of it.
- *Client* (`FreshTransactionsWork`, `OwnOperations`): a transaction executed on
  the account it was built from has enough space at every moment and the right
  nonces, and carries the operations of its own chain with at most one
  allocation. Both are said of a chain on an object that the chain before had
  left with `rpc()`; after one that threw or ended in `instructions()`, the code
  promises nothing.
- *Objects* (`QuietIsEmpty`, `CallsSettle`): whatever two flows do to one object,
  each settles, and nothing stays behind, unless the last chain did not end in
  `rpc()`.
- *The predecessor's account* (`LegacyKept`): it goes only in a transaction that
  migrates it. With one object per caller; see below.
- *Documents* (`RoundTrip`, `UpdateYieldsDocument`, `IdsReferToTheirDid`): the
  flags read back from the five lists are those of the account; the program
  accepts what it wrote; after the update the document resolves to itself. The
  last two are said of names without `#` (see the notes below). An id that can be parsed
  is one of its own DID; which ones can is limited: ids with any other sign than
  letters, digits and underscores in their name, such as `eth-address`, cannot
  (divergence 4). Guarded flags and hidden methods are not in a document and are
  dropped.
- *Resolution* (`AnswersTrue`): an answer was right at some moment of its call.
- *is_authority* (`ChainsProveControl`): some chain proves a key exactly if a
  path of controllers leads to a DID that has it, with a type and a name that
  the filters let through.

`OwnOperations` and `LegacyKept` are checked with one flow per object. With two
flows on one object they are no promise: `clearInstructions()` and `clear()` of
one flow drop what the other has queued, so that the other sends less than it was
asked for, or fails because nothing is left to send; and the close of the
predecessor's account, taken from the object only after the nonce was read, can
go with the other flow's transaction while the migration is left without it or
fails: the document is gone then (`DidSolTransactionBuilder.ts:222`; TLC finds it
in a few steps). The core package's README asks that `rpc()` is awaited.

## Divergences

1. `unknown_type`: `add_verification_method` accepts any `u8` as type, and
   `verification_methods()` unwraps its conversion (`did_account.rs:103`); after
   one such method every instruction on the account aborts.
2. `update_default`: the core README (line 314) says that an update without
   `default` clears its flags; they stay.
3. `hex_key`: a document with a 64-byte secp256k1 key writes it as
   `publicKeyHex` without `0x` (`core/lib/utils.ts:199`), and `updateFromDoc`
   reads it with `arrayify`, which refuses that (`utils.ts:292`). The core README
   offers to pass on an existing document.
4. `hyphen_id`: the expression of `parse` ends in `#?(\w*)$`
   (`DidSolIdentifier.ts:104`) and refuses the id of a method named
   `eth-address`, as the examples of the core README name one (lines 114, 196,
   304) and the program stores it. The comment at line 100 refers to RFC 3986 for
   fragments, and excepts paths and queries only. `updateFromDoc` does not parse
   the ids of methods and works all the same.
5. `readme_chain`: in the chain that the core README shows (lines 112 to 125),
   `withSolWallet` follows `withAutomaticAlloc`, which has taken the wallet of its
   moment as the authority of a resize. If the account has to grow, the
   transaction asks for a signature of the wallet that the service was built with
   and that signs nothing (`DidSolTransactionBuilder.ts:170`).
6. `registrar`: `buildService` (`uniresolver/src/utils/index.ts:30`) passes no
   wallet, so that the key 111…1, for which nobody can sign, pays the fee of
   every transaction of the driver and is the authority of its updates. No
   request to register, update or deactivate is ever sent, whatever keys it has.
   The core README (line 34) calls the driver compatible with uniregistrar.io.

Noted while reading or by earlier checks, without a run of their own:

- A name with a `#`: `getFlagsFromVerificationMethod` takes the first id that
  ends with `#` and the name (`DidSolDocument.ts:176`), so that a method `a` is
  given the flags of a method `b#a` when their document is written back. With
  such names in `Fragments` and `HashSuffixes`, TLC finds `UpdateYieldsDocument`
  violated; the runs and the theorems keep to others (`PlainNames`).
- A controller `did:solid:<key>`, stored as a string, is written back as the
  native controller `did:sol:<key>`: the test for `did:sol` has no colon at its
  end (`const.ts:7`, `utils.ts:104`). The core README (line 269) says that other
  DIDs are persisted as strings. Such a document is not `Complete`.
- A DID of a cluster that `parse` does not know is read on localnet
  (`connection.ts:66`) by a service of mainnet (`DidSolService.ts:115`), whose
  generative document names mainnet. The error for this case, "Cannot create
  generative DID from unknown cluster" (`core/lib/wrappers.ts:43`), cannot be met.
- The comment at `legacy_did_account.rs:94` says the default authority is always
  protected with proven ownership; a legacy method named `default` removes both
  flags in `set_verification_methods`. `migrate` has no lockout check (see
  `InputsKeepControl`).
- Between the two requests of `resolve`, a migration that closes the
  predecessor's account makes both find nothing: the answer is a generative
  document, which the DID never had (`DidSolService.ts:708`). `AnswersTrue` has
  this case apart.
- Closing an account does not make a DID generative if the predecessor still has
  one for it: `resolve` then gives its document, and `migrate` can be repeated
  (core README, line 369).
- `sendAndConfirm` throws for a partial signer that the transaction does not ask
  for (`CannotSign`).
- `setControllers` throws on an invalid DID after earlier calls of the chain
  were queued, and they stay queued until `clear()`; `instructions()` does not
  clear after a failed read.
- `did:sol:mainnet-beta:<key>` does not parse; a native controller of another
  cluster is given back with the cluster of the service; a `did:web` with a dot
  is refused as controller (`const.ts:16`).
- A registration with a key that the driver makes needs a document with the DID
  of that key, which its caller cannot know.
- The controller example of `sol-did/README.md:74` exchanges the two DIDs; a
  signature attached to an instruction that its Ed25519 authority already
  authorises is not verified and still counts; the size callback of `update`
  hands the caller's `services` array on (`DidSolService.ts:651`), so a later
  `addService` of the chain appends to it.

## Proofs

The theorems hold for all sets of keys, DIDs, names, inputs, callers, objects and
jobs that satisfy the assumptions of the modules: `default` is a name, keys and
addresses are disjoint, sizes are positive, inputs, jobs, first accounts and
documents made by hand have their types (`InputAssumption`, `JobsAssumption`,
`AccountsAssumption`, `HandMadeAssumption`), and vectors are finite. TLC
evaluates all of them on the instances.

| Theorem | Statement | Hypothesis |
|---|---|---|
| `Invariance`, `TypeCorrect`, `NamesDistinct`, `AddressesDerivable`, `ControllersAlwaysValid` | the invariant of the program and its parts | |
| `LockoutFree` | `NoLockout` | `InputsKeepControl` |
| `ProtectedMethodsStay`, `GuardedFlagsAreProven`, `SignaturesAreSpent` | `ProtectedStays`, `OwnershipProven`, `SignaturesSpent` | |
| `Refinement` | every behaviour of `SolDid` is one of `DidControl` | |
| `MigrationPreservesControl`, `MigrationHasSpace` | `MigrationKeepsControl`, `MigrationFits` | |
| `ChainsProveExactlyControl` | `ChainsProveControl` | finitely many DIDs, `InputsKeepControl` |
| `ParsingInverts` | `ParseInvertsToString` | |
| `IdsReferToTheirDids`, `ResolutionIsTrue` | `IdsReferToTheirDid`, `AnswersTrue` | |
| `DocumentsRoundTrip`, `UpdatesAreWhole` | `RoundTrip`, `UpdateYieldsDocument` | `PlainNames` |
| `InstancesEndEmpty`, `BuilderTypeCorrect` | `QuietIsEmpty`, `TypeOK` of the builder | |
| `SpentNoncesAreRefused`, `TransactionsCarryOwnOperations`, `DocumentsAreMigratedFirst` | `SpentNoncesRefused`, `OwnOperations`, `LegacyKept` | |
| `FreshTransactionsDoTheirWork` | `FreshTransactionsWork` | |

*The program.* `IInv` is `TypeOK` and, for every account, `Valid`: its type,
its initial method named `default`, of type Ed25519 and with the key of the
DID, unique names, no second `default`, valid controllers. None of these parts
is inductive alone: `set_verification_methods` finds the initial method by
name, so that names stay unique only while the initial one is called `default`
and nothing else is. `DidAccountProofs` says of each operator that it keeps
`Valid`, `SolDidProofs` of each group of instructions.

`LockoutFree` needs `InputsKeepControl`: no method of an unknown type is added
(divergence 1) and no legacy document is migrated that leaves nobody in control.
The action properties follow from `Keeps`, a relation between the account
before and after an instruction, proved for each instruction from the
invariant. The refinement maps control to the keys of the capability invocation
methods; its core is `AuthorisedBy`: an instruction that passes the constraints
was signed by a key in control.

*Authority.* A DID stands behind another if every set that has the other and,
with each DID, its controllers, has it too. Chains reach nothing else: what they
pass through stays in each such set (`ChainsReach`). They reach all of it,
because the ends of chains without a repetition are such a set: a chain to a
controller that it has already is cut there, any other is extended by it. A
chain without a repetition is an injection, so it is no longer than there are
DIDs. The invariant of the program says that accounts are found under the key
that `is_directly_controlled_by` compares; `LockoutFree`, that the search does
not stop at a method it cannot convert.

*Documents.* `DocInv` is `IInv`, now over the steps of `DocSpec`, where the
arguments of `update` come out of documents, and: what the client holds is the
document of a valid account. So everything that is written back has its type,
whatever its age. `RoundTrip` follows for each account separately: each part of a
document (methods, flags, services, controllers) is read back as it was written,
ids by `ParsingInverts`. For `UpdateYieldsDocument` the lemma `WrittenBack` goes
the other way, from a document that need not be of any account: the default
method of the update becomes the initial one, so that the account's methods are
those of the document, none of them hidden; each list names exactly the methods
that take their flag from it. Without `Complete`, a
document that leaves out `default`, or has a native controller of another
cluster, is written and comes back different. `PlainNames`, the hypothesis,
excludes names with a `#` and foreign controllers that start like `did:sol`, where
both statements are false. `IdsReferToTheirDid` needs no
hypothesis: it says of an id whose name is no word only that, if it is read at
all, it is read right.
`AnswersTrue` needs a strengthening, `ReadingInv`: a call that still waits for
its second answer remembers a state of the DID that agrees with its first one,
and, as long as the predecessor's account stayed as it was, whether there is one.

*Transactions.* Chains and transactions have any length; what one does is a
recursive function of the number of instructions (`Run`, `Calling`, `Growth`),
and the proofs go by induction on that number. The lemma `Induction` is the least
number principle of the library. `RunNonces`: the nonce never falls on the way
while the account exists, and a signature that was accepted is below the nonce
afterwards.

*The builder.* Four invariants, each with the one before as a part.
`EmptyInv`: an object is as it was built unless a chain is under way on it or its
last one did not end in `rpc()`; each step that ends a chain clears the object or
notes it in `open`. `SafeInv`: the types, that the names of queued and sent
instructions are those of their fields, and that all nonces in `spent` are below
that of the account. A transaction that only Ethereum signatures authorise and
that has a spent nonce is refused in its first instruction, and so as a whole
(`SpentNoncesAreRefused`): that one either creates an account that exists, or has
the lowest nonce of all, which is below that of the account. `OwnInv` follows a chain that is alone on its object:
until it is sent, the object is what the calls of its job make of an empty one,
plus at most one allocation in a place that was free (`Extends`); what is sent is
its operations in their order (`Carries`). Of such a transaction, one that loses
the predecessor's document must begin with `migrate`, which alone can be followed
by the close of it (`DocumentsAreMigratedFirst`).

`FreshInv`, the last one, is for `FreshTransactionsWork`: a chain that is alone
and has seen one account only was put together from it (`Prepared`), and signed
for its nonce.

*Fresh transactions.* Two executions are compared: that of the transaction, in
the space that was asked for and with signatures over the nonces that were
counted up, and that of its operations one by one, with enough space and each
signed for the nonce of its moment (`Ideal`). At every moment their accounts are
the same but for the nonce (`Match`), and the space is the same, or is what the
allocation asked for (`Fits`). Four things keep it so.

- One instruction with a matching signature leaves matching accounts, if the one
  it leaves has room in both (`OutcomeMatch`): no handler looks at the
  nonce once the instruction is authorised.
- The size callbacks follow the program. They work on a document of the client's
  own, whose flags they do not keep up: they do without the rules for the initial
  method. `Follows` is what that document and the account share, namely services,
  controllers and the names of methods, and these decide the bytes; each
  callback keeps it with the handler of its instruction (`ChangeTracked`). So an
  allocation, which asks for the largest size on the way (`GrowthBounded`), leaves
  room for every account on the way (`RoomForAll`).
- The n-th signature is over the nonce that was read plus the number of signed
  instructions before it (`SignedChain`), and an instruction of an existing
  account counts the nonce exactly if it is signed (`RunCounts`).
- What allocation adds is a resize as first instruction, or an initialize before
  the operations on the account (`Started`): after it both executions have what
  `Fits` asks for.

The property says for which transactions this holds, and each condition is
needed. The account is still the one that was seen, and the operations can be
executed at all. Every allocation has the signatures that it asks for and is
allowed to its authority (`MayAllocate`): a resize that nobody asked for is of
the wallet of its moment, which may be no authority of the DID (divergence 5), and
whoever sends what `instructions()` returned may not sign for the payer. And the
nonces of all instructions exist: the resize takes one more than the operations
do. On the instance of `builder` the last two conditions exclude no transaction:
each one with the first two has them. `Enough`, the space of the ideal account,
only bounds what operations can be executed at all.

*Only model-checked.* `CallsSettle`, liveness under fairness, which the prover
cannot do. The properties of the runs that expect a violation are false.

## What could follow

- That `Instructions` and `SolDid` have the same steps, so that theorems on
  `SolDid` hold for transactions of several instructions.
- A caller that repeats its call until it succeeds, with a fair cluster.

## Not modelled

- Rent and fees, the text of errors, the format of addresses, messages and
  signatures.
- The predecessor program and its client, which are not in the repository: any
  of their documents may exist, and what `resolve` makes of one is not looked at.
  The drivers for did-io and for DIDs (`drivers/did-io`, `drivers/dids`) are
  adapters of that client.
- The HTTP server of the web-service driver, its configuration and the bodies of
  its answers.
- `SendableTransaction` and its relatives in `core/lib/connection.ts`, which the
  package does not use itself.
- The IDL, which is generated (which accounts sign is taken from it), the
  command line, the CPI crate, the example program, the scripts, migrations and
  tests.
