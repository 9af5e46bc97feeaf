---------------------- MODULE DidSolTransactionBuilder ----------------------
(***************************************************************************)
(* The client's transaction builder (client/packages/core/src/utils/       *)
(* DidSolTransactionBuilder.ts) at work on one DID.  An instance of        *)
(* DidSolService queues the instructions of chained calls and what they    *)
(* are to be sent with; rpc() reads the account to allocate space, reads   *)
(* the nonce to sign with an Ethereum key, sends the transaction and clears*)
(* everything; instructions() hands the instructions to its caller instead,*)
(* and clears nothing but them.  Both await a reply between any two of     *)
(* these, so that other callers, of other instances or of the same one, act*)
(* in between, and what was read may be out of date when it is used.  A    *)
(* transaction may land after its caller has given up on it.               *)
(***************************************************************************)
EXTENDS Instructions

CONSTANTS
  Callers,         \* the async flows that call rpc() or instructions()
  Instances,       \* the DidSolService objects
  InstanceOf,      \* the object each caller uses
  Wallet,          \* the Ed25519 key of the wallet each object was built with
  NonSigningKeys,  \* keys of wallets that return a transaction unsigned
  Jobs,            \* what each caller may ask for in one chain of calls
  FirstAccounts,   \* accounts the DID may have at the start
  MaxCalls         \* how often each caller starts a chain: a bound of the model

ASSUME InstanceAssumption == InstanceOf \in [Callers -> Instances]
ASSUME WalletAssumption == Wallet \in [Instances -> SolKeys]

\* A job: chained calls, each a record with one field, and the terminal call.
\*   instruction     an operation and its instruction
\*   migrate         migrate() and the legacy authority, if one is passed; a
\*                   second field is the payer, if one is passed
\*   ethSigner, partialSigners, wallet    withEthSigner and the like
\*   alloc           withAutomaticAlloc and the payer; a second field is the
\*                   authority of a resize, if one is passed
\*   invalid         a call that throws: a controller that is no DID, a size
\*                   below the minimum, a document of another DID
Job(calls, terminal) == [calls |-> calls, terminal |-> terminal]

\* The operations that are called with an instruction.
Operation ==
  {"initialize", "resize", "add_verification_method",
   "remove_verification_method", "set_vm_flags", "add_service",
   "remove_service", "set_controllers", "update", "close"}

IsCall(c) ==
  \/ /\ DOMAIN c = {"instruction"} /\ c.instruction.name \in Operation
     /\ c.instruction \in InstructionsOf(c.instruction.name)
  \/ /\ DOMAIN c \in {{"migrate"}, {"migrate", "payer"}}
     /\ \E k \in SolKeys : c.migrate \in {{}, {k}}
     /\ "payer" \in DOMAIN c => c.payer \in SolKeys
  \/ DOMAIN c = {"ethSigner"} /\ c.ethSigner \in EthKeys
  \/ DOMAIN c = {"partialSigners"} /\ c.partialSigners \subseteq SolKeys
  \/ DOMAIN c = {"wallet"} /\ c.wallet \in SolKeys
  \/ /\ DOMAIN c \in {{"alloc"}, {"alloc", "authority"}} /\ c.alloc \in SolKeys
     /\ "authority" \in DOMAIN c => c.authority \in SolKeys
  \/ DOMAIN c = {"invalid"}

ASSUME JobsAssumption ==
  \A c \in Callers : \A job \in Jobs[c] :
    /\ DOMAIN job.calls = 1..Len(job.calls) /\ Len(job.calls) \in Nat
    /\ \A p \in DOMAIN job.calls : IsCall(job.calls[p])
    /\ job.terminal \in {"rpc", "instructions"}
ASSUME AccountsAssumption == \A account \in FirstAccounts : IsAccount(account)

\* Signing changes an instruction object in place.  Instructions that were
\* queued before may only be met again without Ethereum signers: by callers
\* that share an instance, and after instructions().
ASSUME SharingAssumption ==
  \A c, d \in Callers : InstanceOf[c] = InstanceOf[d] =>
    \A job \in Jobs[c] \cup Jobs[d] :
      (c # d \/ \E other \in Jobs[c] : other.terminal # "rpc") =>
        \A p \in DOMAIN job.calls : "ethSigner" \notin DOMAIN job.calls[p]

VARIABLES
  account,  \* the accounts on chain
  builder,  \* the fields of each instance
  call,     \* the progress of each caller
  pool,     \* transactions that were sent and may still land
  spent,    \* history: nonces of the Ethereum signatures that the program
            \* accepted since the account was created
  open      \* history: instances whose last chain of calls ended without rpc()

vars == <<account, builder, call, pool, spent, open>>

EmptyBuilder(s) ==
  [init |-> <<>>, resize |-> <<>>, general |-> <<>>, close |-> <<>>,
   post |-> <<>>, ethSigner |-> {}, payer |-> {}, partialSigners |-> {},
   wallet |-> Wallet[s], resizeAuthority |-> Wallet[s]]

\* wallet is the one that rpc() made its provider with; alone is history: the
\* chain began on an instance that the chain before had left with rpc(), and
\* no other was under way on it before it was sent.
NoCall ==
  [pc |-> "idle", n |-> 0, job |-> {}, seen |-> {}, chain |-> <<>>,
   wallet |-> {}, alone |-> TRUE, answer |-> "none"]

Init ==
  /\ account \in FirstAccounts
  /\ builder = [s \in Instances |-> EmptyBuilder(s)]
  /\ call = [c \in Callers |-> NoCall]
  /\ pool = {}
  /\ spent = {}
  /\ open = {}

-----------------------------------------------------------------------------
\* setInitInstruction, setResizeInstruction, setCloseInstruction: throw when
\* the field is taken; addGeneralInstruction.
Slot(i) ==
  CASE i.name = "initialize" -> "init"
    [] i.name = "migrate" -> "init"
    [] i.name = "resize" -> "resize"
    [] i.name = "close" -> "close"
    [] OTHER -> "general"

\* Mutant: nothing is thrown.
QueuedAlways(q, i) == [q EXCEPT !.builder[Slot(i)] = Append(@, i)]

QueuedOne(q, i) ==
  IF q.thrown THEN q
  ELSE IF Slot(i) # "general" /\ q.builder[Slot(i)] # <<>>
  THEN [q EXCEPT !.thrown = TRUE]
  ELSE [q EXCEPT !.builder[Slot(i)] = Append(@, i)]

Queued(b, i) == QueuedOne([builder |-> b, thrown |-> FALSE], i)

\* An optional parameter of a call.
Passed(c, parameter, default) ==
  IF parameter \in DOMAIN c THEN c[parameter] ELSE default

\* migrate: the post instruction is added before the other one may throw.
MigrateCalled(q, c) ==
  LET key == CHOOSE k \in c.migrate : TRUE
      closing == IF c.migrate = {} THEN <<>>
                 ELSE <<Instruction("close_legacy", "none", key)>>
      payer == Passed(c, "payer", q.builder.wallet)
  IN QueuedOne([q EXCEPT !.builder.post = @ \o closing],
               [Instruction("migrate", "none", Did) EXCEPT !.payer = {payer}])

\* One call of a chain; the wallet of its moment is the default payer of a
\* migration and the default authority of a resize.
Called(q, c) ==
  IF q.thrown THEN q
  ELSE CASE "instruction" \in DOMAIN c -> QueuedOne(q, c.instruction)
         [] "migrate" \in DOMAIN c -> MigrateCalled(q, c)
         [] "ethSigner" \in DOMAIN c -> [q EXCEPT !.builder.ethSigner = {c.ethSigner}]
         [] "wallet" \in DOMAIN c -> [q EXCEPT !.builder.wallet = c.wallet]
         [] "alloc" \in DOMAIN c ->
              [q EXCEPT !.builder.payer = {c.alloc},
                        !.builder.resizeAuthority =
                          Passed(c, "authority", q.builder.wallet)]
         [] "partialSigners" \in DOMAIN c ->
              [q EXCEPT !.builder.partialSigners = c.partialSigners]
         [] OTHER -> [q EXCEPT !.thrown = TRUE]

\* An instance after the first n calls of a chain, for each n, and after all.
Calling(b, calls) ==
  LET after[n \in 0..Len(calls)] ==
        IF n = 0 THEN [builder |-> b, thrown |-> FALSE]
        ELSE Called(after[n - 1], calls[n])
  IN after
CalledAll(b, calls) == Calling(b, calls)[Len(calls)]

\* clearInstructions().
Emptied(b) ==
  [b EXCEPT !.init = <<>>, !.resize = <<>>, !.general = <<>>, !.close = <<>>,
            !.post = <<>>]

\* Mutant: the wallet of the chain is kept.
ClearedButWallet(s, b) == [EmptyBuilder(s) EXCEPT !.wallet = b.wallet]

\* Mutant: post instructions are kept.
ClearedButPost(s, b) == [EmptyBuilder(s) EXCEPT !.post = b.post]

\* clear() also drops the signers, the payer and the wallet.
Cleared(s, b) == EmptyBuilder(s)

\* DidAccountSizeHelper, and the account that an allocation starts from.
INITIAL_MIN_ACCOUNT_SIZE == 8 + 1 + 1 + 8 + 50 + 4 + 4 + 4 + 4
TotalNativeAccountSize(a) ==
  INITIAL_MIN_ACCOUNT_SIZE + VmSize * Cardinality(a.verification_methods)
    + ServiceSize * Cardinality(a.services)
    + 32 * Cardinality(a.native_controllers)
    + OtherSize * Cardinality(a.other_controllers)
DefaultAccount == InitAccount(Did, {CAPABILITY_INVOCATION})

\* The change callbacks of DidSolService: what an operation makes of the
\* account, as far as sizes depend on it, and of its size.
Changed(a, size) == [account |-> a, size |-> size]

AddVerificationMethodChange(a, size, vm) ==
  Changed([a EXCEPT !.verification_methods = @ \cup {vm}], size + VmSize)

RemoveVerificationMethodChange(a, size, fragment) ==
  Changed([a EXCEPT !.verification_methods = WithoutFirst(@, fragment)],
          IF Fragmented(a.verification_methods, fragment) = {} THEN size
          ELSE size - VmSize)

AddServiceChange(a, size, service, allowOverwrite) ==
  IF allowOverwrite /\ Fragmented(a.services, service.fragment) # {}
  THEN Changed([a EXCEPT !.services =
                  WithoutFirst(@, service.fragment) \cup {service}], size)
  ELSE Changed([a EXCEPT !.services = @ \cup {service}], size + ServiceSize)

RemoveServiceChange(a, size, fragment) ==
  Changed([a EXCEPT !.services = WithoutFirst(@, fragment)],
          IF Fragmented(a.services, fragment) = {} THEN size
          ELSE size - ServiceSize)

SetVmFlagsChange(a, size) == Changed(a, size)

ControllersSize(native, other) ==
  32 * Cardinality(native) + OtherSize * Cardinality(other)

SetControllersChange(a, size, native, other) ==
  Changed([a EXCEPT !.native_controllers = native, !.other_controllers = other],
          size + ControllersSize(native, other)
            - ControllersSize(a.native_controllers, a.other_controllers))

UpdateChange(a, size, arg) ==
  LET methods == {m \in arg.verification_methods : m.fragment # DefaultFragment}
      ListsSize(ms, ss) == VmSize * Cardinality(ms) + ServiceSize * Cardinality(ss)
      lists == Changed([a EXCEPT !.verification_methods = methods,
                                 !.services = arg.services],
                       size + ListsSize(methods, arg.services)
                         - ListsSize(a.verification_methods, a.services))
  IN SetControllersChange(lists.account, lists.size,
                          arg.native_controllers, arg.other_controllers)

Change(a, size, i) ==
  CASE i.name = "add_verification_method" ->
         AddVerificationMethodChange(a, size, i.arg)
    [] i.name = "remove_verification_method" ->
         RemoveVerificationMethodChange(a, size, i.arg)
    [] i.name = "set_vm_flags" -> SetVmFlagsChange(a, size)
    [] i.name = "add_service" ->
         AddServiceChange(a, size, i.arg.service, i.arg.allow_overwrite)
    [] i.name = "remove_service" -> RemoveServiceChange(a, size, i.arg)
    [] i.name = "set_controllers" ->
         SetControllersChange(a, size, i.arg.native_controllers,
                              i.arg.other_controllers)
    [] i.name = "update" -> UpdateChange(a, size, i.arg)

\* The account, its size and the largest size on the way, after one more
\* instruction; and after the first n of a list, for each n.
Grown(g, i) ==
  LET next == Change(g.account, g.size, i)
  IN [account |-> next.account, size |-> next.size,
      max |-> IF next.size > g.max THEN next.size ELSE g.max]

Growth(a, size, general) ==
  LET after[n \in 0..Len(general)] ==
        IF n = 0 THEN [account |-> a, size |-> size, max |-> size]
        ELSE Grown(after[n - 1], general[n])
  IN after

\* Mutant: the size after the last instruction.
FinalSize(a, size, general) == Growth(a, size, general)[Len(general)].size

\* getMaxRequiredSize.
MaxRequiredSize(a, size, general) == Growth(a, size, general)[Len(general)].max

\* Who pays for an allocation: the wallet if the payer was cleared meanwhile.
AllocPayer(b) == IF b.payer = {} THEN {b.wallet} ELSE b.payer

\* setAllocInstruction, after its read: the instance with an initialize or a
\* resize instruction if one is needed.
Allocated(b, read) ==
  LET first == IF read.exists THEN read.data ELSE DefaultAccount
      size == IF read.exists THEN TotalNativeAccountSize(read.data)
              ELSE INITIAL_MIN_ACCOUNT_SIZE
      required == MaxRequiredSize(first, size, b.general)
      Paid(i) == [i EXCEPT !.payer = AllocPayer(b)]
  IN IF ~read.exists
     THEN Queued(b, Paid(Instruction("initialize", required, Did)))
     ELSE IF read.space < required
     THEN Queued(b, Paid(Instruction("resize", required, b.resizeAuthority)))
     ELSE [builder |-> b, thrown |-> FALSE]

\* The order of the instructions in a transaction.
InstructionChain(b) == b.init \o b.resize \o b.general \o b.close

Signable(i) == i.name \notin {"initialize", "migrate", "close_legacy"}

\* ethSignInstructions, after its read: each signature takes the next nonce.
Signed(chain, signer, nonce) ==
  [p \in DOMAIN chain |->
     IF Signable(chain[p])
     THEN LET before == {q \in 1..(p - 1) : Signable(chain[q])}
              next == nonce + Cardinality(before)
          IN [chain[p] EXCEPT !.eth =
                {[key |-> k, message |-> chain[p].arg, nonce |-> next] : k \in signer}]
     ELSE chain[p]]

-----------------------------------------------------------------------------
\* No chain of the instance is under way.
Quiet(s) == \A c \in Callers : InstanceOf[c] = s => call[c].pc = "idle"

\* The other callers whose chains on the instance are under way.
Disturbed(c) ==
  {d \in Callers \ {c} : InstanceOf[d] = InstanceOf[c] /\ call[d].pc # "idle"}

\* The chained calls of a job and its terminal call, up to the first await.  A
\* call that throws leaves what was queued before it, and the terminal call is
\* not reached.
StartCall(c) ==
  LET s == InstanceOf[c] IN
  /\ call[c].pc = "idle" /\ call[c].n < MaxCalls
  /\ \E job \in Jobs[c] :
       LET q == CalledAll(builder[s], job.calls)
           pc == IF q.builder.payer # {} /\ q.builder.general # <<>>
                 THEN "alloc" ELSE "chain"
           started == [NoCall EXCEPT
                         !.pc = IF q.thrown THEN "idle" ELSE pc,
                         !.n = call[c].n + 1,
                         !.job = {job},
                         !.wallet = {q.builder.wallet},
                         !.alone = s \notin open /\ Quiet(s),
                         !.answer = IF q.thrown THEN "failed" ELSE @]
       IN /\ builder' = [builder EXCEPT ![s] = q.builder]
          /\ call' = [d \in Callers |->
                        IF d = c THEN started
                        ELSE IF d \in Disturbed(c)
                        THEN [call[d] EXCEPT !.alone = FALSE]
                        ELSE call[d]]
          /\ open' = IF q.thrown THEN open \cup {s} ELSE open
  /\ UNCHANGED <<account, pool, spent>>

\* The end of a chain, with an answer and what becomes of its instance.
Ended(c, answer, left) ==
  /\ builder' = [builder EXCEPT ![InstanceOf[c]] = left]
  /\ call' = [call EXCEPT ![c].pc = "idle", ![c].answer = answer]

\* Mutant: nothing is cleared in the end.
SettledUncleared(c, answer) ==
  /\ Ended(c, answer, builder[InstanceOf[c]])
  /\ open' = open \ {InstanceOf[c]}
  /\ UNCHANGED <<account, pool, spent>>

\* The end of rpc(): the finally block clears the instance.
Settled(c, answer) ==
  /\ Ended(c, answer, Cleared(InstanceOf[c], builder[InstanceOf[c]]))
  /\ open' = open \ {InstanceOf[c]}
  /\ UNCHANGED <<account, pool, spent>>

Terminal(c) == (CHOOSE job \in call[c].job : TRUE).terminal

\* An await before the transaction is sent throws: rpc() clears, instructions()
\* leaves everything queued.
Failed(c) ==
  IF Terminal(c) = "rpc" THEN Settled(c, "failed")
  ELSE /\ Ended(c, "failed", builder[InstanceOf[c]])
       /\ open' = open \cup {InstanceOf[c]}
       /\ UNCHANGED <<account, pool, spent>>

\* setAllocInstruction gets its reply; the chain is then put together.
ReadAccount(c) ==
  LET s == InstanceOf[c]
      q == Allocated(builder[s], account)
  IN /\ call[c].pc = "alloc"
     /\ IF q.thrown THEN Failed(c)
        ELSE /\ builder' = [builder EXCEPT ![s] = q.builder]
             /\ call' = [call EXCEPT ![c].pc = "nonce",
                                     ![c].seen = {account},
                                     ![c].chain = InstructionChain(q.builder)]
             /\ UNCHANGED <<account, pool, spent, open>>

\* Without automatic allocation the chain is put together in a microtask.
Chain(c) ==
  /\ call[c].pc = "chain"
  /\ call' = [call EXCEPT ![c].pc = "nonce",
                          ![c].chain = InstructionChain(builder[InstanceOf[c]])]
  /\ UNCHANGED <<account, builder, pool, spent, open>>

\* getNonce gets its reply, and the signer is asked for its signatures; only
\* now are the post instructions taken from the instance.
ReadNonce(c) ==
  LET nonce == IF account.exists THEN account.data.nonce ELSE 0
      b == builder[InstanceOf[c]]
  IN /\ call[c].pc = "nonce"
     /\ call' = [call EXCEPT ![c].pc = "sign",
                             ![c].seen = @ \cup {account},
                             ![c].chain = Signed(@, b.ethSigner, nonce) \o b.post]
     /\ UNCHANGED <<account, builder, pool, spent, open>>

\* A read is rejected, a signature refused, or nothing is left to be sent: add
\* of web3.js throws without an instruction.
Reject(c) ==
  /\ call[c].pc \in {"alloc", "nonce", "sign"}
  /\ Failed(c)

\* The keys a transaction is signed with, and those it asks for: the wallet,
\* which pays its fee, and the signers of its instructions.
Given(c) ==
  (call[c].wallet \ NonSigningKeys) \cup builder[InstanceOf[c]].partialSigners
Asked(c) ==
  call[c].wallet \cup UNION {SignersOf(call[c].chain[p]) : p \in DOMAIN call[c].chain}

Transaction(c) ==
  [caller |-> c, n |-> call[c].n, job |-> call[c].job, seen |-> call[c].seen,
   alone |-> call[c].alone, chain |-> call[c].chain, signers |-> Given(c)]

\* instructions() clears what is queued, and rpc() sends the transaction.
Send(c) ==
  /\ call[c].pc = "sign" /\ Terminal(c) = "rpc"
  /\ call[c].chain # <<>> /\ Given(c) = Asked(c)
  /\ pool' = pool \cup {Transaction(c)}
  /\ builder' = [builder EXCEPT ![InstanceOf[c]] = Emptied(@)]
  /\ call' = [call EXCEPT ![c].pc = "sent"]
  /\ UNCHANGED <<account, spent, open>>

\* partialSign throws on a key that the transaction does not ask for, and
\* serialize on a signature that is missing.
CannotSign(c) ==
  /\ call[c].pc = "sign" /\ Terminal(c) = "rpc"
  /\ call[c].chain # <<>> /\ Given(c) # Asked(c)
  /\ Settled(c, "unsigned")

\* instructions() returns; the caller sends them by itself.
Return(c) ==
  /\ call[c].pc = "sign" /\ Terminal(c) # "rpc"
  /\ pool' = pool \cup {[Transaction(c) EXCEPT !.signers = Asked(c) \ NonSigningKeys]}
  /\ Ended(c, "ok", Emptied(builder[InstanceOf[c]]))
  /\ open' = open \cup {InstanceOf[c]}
  /\ UNCHANGED <<account, spent>>

\* Mutant: confirmation has no timeout.
NeverGiveUp(c) ==
  /\ call[c].pc = "expired"
  /\ Settled(c, "unknown")

\* sendAndConfirm gives up; the transaction may still land.
GiveUp(c) ==
  /\ call[c].pc = "sent"
  /\ Settled(c, "unknown")

\* sendAndConfirm gets the result.
Confirm(c) ==
  /\ call[c].pc = "sent" /\ call[c].answer # "none"
  /\ Settled(c, call[c].answer)

NoncesOf(chain) == UNION {{s.nonce : s \in chain[p].eth} : p \in DOMAIN chain}

\* The nonces of the signatures of a transaction that the program accepts: an
\* instruction that another key authorises may carry one that is out of date.
Accepted(before, chain, signers) ==
  {n \in NoncesOf(chain) :
     \E p \in DOMAIN chain : \E s \in chain[p].eth :
       /\ s.nonce = n /\ s.message = chain[p].arg
       /\ \E a \in Run(before, chain, signers)[p - 1] : a.data.nonce = n}

\* The cluster executes a transaction, or refuses it.
Land(t) ==
  LET result == Execute(account, t.chain, t.signers)
      awaited == call[t.caller].pc = "sent" /\ call[t.caller].n = t.n
      answer == IF result = {} THEN "failed" ELSE "ok"
  IN /\ pool' = pool \ {t}
     /\ call' = [call EXCEPT ![t.caller].answer = IF awaited THEN answer ELSE @]
     /\ account' \in (IF result = {} THEN {account} ELSE result)
     /\ spent' = IF result = {} THEN spent
                 ELSE IF ~account'.exists THEN {}
                 ELSE spent \cup Accepted(account, t.chain, t.signers)
     /\ UNCHANGED <<builder, open>>

\* A transaction whose blockhash is too old never lands.
Expire(t) ==
  /\ pool' = pool \ {t}
  /\ UNCHANGED <<account, builder, call, spent, open>>

Proceed(c) ==
  \/ ReadAccount(c) \/ Chain(c) \/ ReadNonce(c) \/ Reject(c)
  \/ Send(c) \/ CannotSign(c) \/ Return(c) \/ GiveUp(c) \/ Confirm(c)

Next ==
  \/ \E c \in Callers : StartCall(c) \/ Proceed(c)
  \/ \E t \in pool : Land(t) \/ Expire(t)

\* A request gets a reply or an error in the end, a wallet signs or refuses,
\* and confirmation has a timeout.
Spec == Init /\ [][Next]_vars /\ \A c \in Callers : WF_vars(Proceed(c))

-----------------------------------------------------------------------------
\* Every variable has its type; an instance has room for one initialize or
\* migrate, one resize and one close.
TypeOK ==
  /\ account \in [exists: BOOLEAN, data: DidAccounts, space: Nat,
                  legacy: SUBSET LegacyDidAccounts]
  /\ \A s \in Instances :
       /\ DOMAIN builder[s] = DOMAIN EmptyBuilder(s)
       /\ \A slot \in {"init", "resize", "close"} : Len(builder[s][slot]) <= 1
  /\ \A c \in Callers :
       /\ call[c].pc \in {"idle", "alloc", "chain", "nonce", "sign", "sent"}
       /\ call[c].answer \in {"none", "ok", "failed", "unsigned", "unknown"}
  /\ spent \subseteq Nat
  /\ open \subseteq Instances

\* More bytes than any document of the model needs.
Enough == 1000000

\* What a job asks of an instance that nothing else was asked of.
Alone(c, job) == CalledAll(EmptyBuilder(InstanceOf[c]), job.calls).builder
Operations(b) == InstructionChain(b) \o b.post
Allocates(b) == b.payer # {} /\ b.general # <<>>

\* The accounts it leaves when its operations are executed one by one on an
\* account that exists and, with automatic allocation, has enough space, each
\* signed for the nonce of its moment.
SignedFor(a, i, signer) ==
  [i EXCEPT !.eth = {[key |-> k, message |-> i.arg, nonce |-> a.data.nonce] :
                       k \in signer}]

Ideal(b, before, signers) ==
  LET ready == IF Allocates(b)
               THEN [before EXCEPT !.exists = TRUE, !.space = Enough,
                                   !.data = IF before.exists THEN @
                                            ELSE NewAccount(Did)]
               ELSE before
      Meant(a, i) == IF Signable(i) THEN SignedFor(a, i, b.ethSigner) ELSE i
      after[n \in 0..Len(Operations(b))] ==
        IF n = 0 THEN {ready}
        ELSE UNION {Outcome(a, Meant(a, Operations(b)[n]), signers) :
                      a \in after[n - 1]}
  IN after
Intended(b, before, signers) ==
  Ideal(b, before, signers)[Len(Operations(b))]

\* An allocation has the signatures it asks for, of a payer and of the owner
\* for a new account; that of an existing one is allowed to its authority.
MayAllocate(t, signer) ==
  \A p \in DOMAIN t.chain :
    t.chain[p].name \in {"initialize", "resize"} =>
      /\ SignersOf(t.chain[p]) \subseteq t.signers
      /\ account.exists =>
           Authorised(account.data, SignedFor(account, t.chain[p], signer))

Documents(accounts) ==
  {[exists |-> a.exists, data |-> [a.data EXCEPT !.nonce = 0],
    legacy |-> a.legacy] : a \in accounts}

\* A transaction that lands on the account it was built from does what its
\* chain asked for: if the operations can be executed at all, allocation gave
\* them enough space at every moment, not only in the end, and the signatures
\* are over the right nonces ("perfect resize", "brings the account to the
\* required size").  An allocation may need signatures of its own, and takes a
\* nonce of its own.
FreshTransactionsWork ==
  \A t \in pool : \A job \in t.job :
    LET b == Alone(t.caller, job) IN
    /\ t.alone /\ t.seen = {account} /\ Intended(b, account, t.signers) # {}
    /\ MayAllocate(t, b.ethSigner)
    /\ account.data.nonce + Len(t.chain) <= MaxNonce
    => Documents(Execute(account, t.chain, t.signers)) =
       Documents(Intended(b, account, t.signers))

Unsigned(chain) == [p \in DOMAIN chain |-> [chain[p] EXCEPT !.eth = {}]]

\* The operations of an instance, and an allocation where there was none.
CarriesOut(chain, b) ==
  \/ chain = Operations(b)
  \/ /\ Allocates(b)
     /\ \E p \in DOMAIN chain :
          \/ /\ chain[p].name = "initialize" /\ b.init = <<>>
             /\ chain = Operations([b EXCEPT !.init = <<chain[p]>>])
          \/ /\ chain[p].name = "resize" /\ b.resize = <<>>
             /\ chain = Operations([b EXCEPT !.resize = <<chain[p]>>])

\* A transaction carries the operations of its own chain, all of them, in
\* their order, and nothing of an earlier one of the same instance that failed
\* or timed out; only one allocation may be added, where there was none.
OwnOperations ==
  \A t \in pool : \A job \in t.job :
    t.alone => CarriesOut(Unsigned(t.chain), Alone(t.caller, job))

\* An instance that no caller is using is as it was built, also when several
\* callers shared it and some failed: instructions, signers, wallet and payer
\* are gone, unless its last chain threw before it reached rpc() or ended in
\* instructions(), which clear nothing but instructions, if that.
QuietIsEmpty ==
  \A s \in Instances \ open : Quiet(s) => builder[s] = EmptyBuilder(s)

\* A caller that has no authority of its own, so that its transactions are
\* authorised by Ethereum signatures alone.
Relayed(t) ==
  ~FindAuthority(account.data, Ed25519VerificationKey2018, t.signers, Fragments)

\* The nonce protects "against replay attacks around secp256k1 signatures": a
\* transaction signed for a nonce that was spent in the lifetime of the account
\* cannot be executed any more, so that of a call and its retry for the same
\* nonce at most one takes effect.
SpentNoncesRefused ==
  \A t \in pool :
    Relayed(t) /\ NoncesOf(t.chain) \cap spent # {} =>
      Execute(account, t.chain, t.signers) = {}

\* "close the legacy account after migration" (migrate): the document of the
\* predecessor goes only in a transaction that first brings it to this program,
\* where it is afterwards unless the same transaction closes it again; or in one
\* of an instance that an earlier chain left something in.
LegacyKept ==
  [][\A doc \in account.legacy :
       doc \notin account'.legacy =>
         \E t \in pool \ pool' :
           t.alone =>
             /\ ~account.exists /\ t.chain[1].name = "migrate"
             /\ \/ account'.exists
                \/ \E p \in DOMAIN t.chain : t.chain[p].name = "close"]_vars

\* A chain that reads and signatures do not fail collects exactly the
\* signatures that its transaction needs.
SignedInFull == \A c \in Callers : call[c].answer # "unsigned"

\* Every chain settles, whoever else uses its instance and whatever became of
\* its transaction.
CallsSettle == \A c \in Callers : call[c].pc # "idle" ~> call[c].pc = "idle"
=============================================================================
