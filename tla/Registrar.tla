------------------------------ MODULE Registrar ------------------------------
(***************************************************************************)
(* The web-service driver (drivers/uniresolver) as a registrar of DIDs: it *)
(* turns each request into a chain of calls on a DidSolService of its own, *)
(* built for the identifier of the request and without a wallet.  The chain*)
(* then runs as DidSolTransactionBuilder says.                             *)
(*                                                                         *)
(* A request is a record: its kind; the identifier; payer and owner, sets  *)
(* of at most one key, known by its secret; the word that names a cluster  *)
(* to register on; and the document, of which the model keeps the id and   *)
(* the arguments that getDocUpdateArgs finds in it (DidSolDocument).       *)
(***************************************************************************)
EXTENDS DidSolTransactionBuilder, DidSolIdentifier

CONSTANTS
  Requests,     \* the requests that a caller may make
  Placeholder,  \* the key of NonSigningWallet, which nobody can sign with
  Environment,  \* the payer that the environment of the driver names, if any
  Generated     \* the key of a pair that the driver generates

\* Every instance is built without a wallet: its Wallet is Placeholder, the one
\* member of NonSigningKeys.
One(keys) == CHOOSE k \in keys : TRUE
FirstOf(keys, others) == IF keys # {} THEN keys ELSE others

Payer(r) ==
  IF r.kind = "deactivate" THEN FirstOf(r.payer, FirstOf(r.owner, Environment))
  ELSE FirstOf(r.payer, Environment)

\* Who owns the DID: the key whose secret is passed; else a new one to register,
\* which no document can name, and the payer for what exists.
Owner(r) ==
  FirstOf(r.owner, IF r.kind = "register" THEN {Generated} ELSE Payer(r))

\* The DID that a request is about: that of the request, or a new one.
IdentifierOf(r) ==
  IF r.kind = "register"
  THEN ToString(Create(One(Owner(r)),
                       FirstOf(ClusterFromString(r.cluster), {"mainnet-beta"})))
  ELSE r.identifier

\* buildService: no member if the identifier does not parse.
BuildService(identifier) ==
  {[authority |-> id.authority,
    did |-> ToString(Create(id.authority, ServiceCluster(id.clusterType)))] :
     id \in Parse(identifier)}

\* updateFromDoc throws on the document of another DID; its authority is the
\* wallet.
UpdateFromDoc(service, document) ==
  IF document.id # service.did THEN [invalid |-> TRUE]
  ELSE [instruction |-> Instruction("update", document.args, Placeholder)]

\* The chain of a request, a throwing one if it has no payer or its identifier
\* does not parse.
Chained(r) ==
  LET services == BuildService(IdentifierOf(r))
      partial == CASE r.kind = "register" -> Payer(r)
                   [] r.kind = "update" -> Payer(r) \cup Owner(r)
                   [] r.kind = "deactivate" -> Owner(r)
  IN IF Payer(r) = {} \/ services = {} THEN <<[invalid |-> TRUE]>>
     ELSE IF r.kind = "deactivate"
     THEN <<[instruction |-> Instruction("close", "none", One(Owner(r)))],
            [partialSigners |-> partial]>>
     ELSE <<UpdateFromDoc(CHOOSE s \in services : TRUE, r.document),
            [alloc |-> One(Payer(r))], [partialSigners |-> partial]>>

RequestJob(r) == Job(Chained(r), "rpc")
RegistrarJobs == [c \in Callers |-> {RequestJob(r) : r \in Requests}]

\* The answer of the driver to a caller whose request it has dealt with.
StatusCode(c) == IF call[c].answer = "ok" THEN 200 ELSE 500

\* "compatible with uniregistrar.io": a request for a DID in the name of its
\* owner, with the keys of owner and payer, is not refused before its
\* transaction is sent unless a read fails.
RequestsAreSent ==
  \A c \in Callers :
    call[c].pc = "idle" /\ call[c].answer = "unsigned" => StatusCode(c) = 200
=============================================================================
