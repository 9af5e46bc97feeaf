--------------------------- MODULE DidSolDocument ---------------------------
(***************************************************************************)
(* DID documents (client/packages/core/src/DidSolDocument.ts): a client    *)
(* resolves a DID, keeps the document, and writes it or one of its own back*)
(* with updateFromDoc.  Others go on changing the account in between, so   *)
(* that what is written back may be out of date by then, or of an earlier  *)
(* lifetime of the account.                                                *)
(*                                                                         *)
(* resolve() and isMigratable() ask for the account of this program and    *)
(* then for the one of the predecessor, in two requests, while the DID may *)
(* be migrated, closed or created.                                         *)
(***************************************************************************)
EXTENDS SolDid, DidSolIdentifier

CONSTANTS
  Named,         \* the cluster that the client's DIDs name, {} if unknown
  HashSuffixes,  \* the names g for which "#" f ends with "#" g, for each f
  HandMade       \* documents that the client makes by itself

ASSUME NamedAssumption == Named \in ClusterTypes
ASSUME SuffixAssumption ==
  /\ HashSuffixes \in [Fragments -> SUBSET Fragments]
  /\ \A f \in Fragments : f \in HashSuffixes[f]
\* The controllers that are given as text are texts here; no name is empty.
ASSUME TextAssumption ==
  /\ ForeignDids = {o \in OtherDids : o.method # "sol"}
  /\ NoText \notin Fragments

\* What the type of a document (DidSolDocument's fields) asks of one, as far as
\* it goes into an update.
IsDocument(document) ==
  /\ "id" \in DOMAIN document
  /\ "verificationMethod" \in DOMAIN document =>
       \A vm \in document.verificationMethod :
         /\ vm.id.fragment \in Fragments
         /\ vm \in [id: {vm.id}, type: 0..255,
                    text: [key: KeyData, prefixed: BOOLEAN]]
  /\ "service" \in DOMAIN document =>
       \A s \in document.service :
         s.id.fragment \in Fragments /\ s \in [id: {s.id}, endpoint: Endpoints]
  /\ "controller" \in DOMAIN document =>
       \A t \in document.controller : ~IsDidSol(t) => t \in OtherDids
ASSUME HandMadeAssumption == \A document \in HandMade : IsDocument(document)

VARIABLES
  held,     \* the document of the client's last call of resolve, if any
  legacy,   \* what the predecessor has of each DID, at most one document
  written,  \* history: the document of the last step, if it wrote one back
  reading   \* the call of resolve or isMigratable under way, or just answered

docVars == <<owner, data, space, signers, held, legacy, written, reading>>

DidDocHidden == 5

\* The cluster of the service that DidSolService.build makes for them.
Cluster == CHOOSE c \in ServiceCluster(Named) : TRUE

\* The lists of a document, by the flags of the methods in them.
Lists == 0..4
ListNames ==
  <<"authentication", "assertionMethod", "keyAgreement", "capabilityInvocation",
    "capabilityDelegation">>
ListOf(b) == ListNames[b + 1]

-----------------------------------------------------------------------------
\* Mutant: hidden methods are shown.
AnyVisible(methods) == methods

Visible(methods) == {m \in methods : DidDocHidden \notin m.flags}

\* A key in text, as publicKeyBase58, ethereumAddress or publicKeyHex; the
\* last is written without its prefix 0x.
KeyText(m) ==
  [key |-> m.key_data,
   prefixed |-> m.method_type # EcdsaSecp256k1VerificationKey2019]

\* mapVerificationMethodsToDidComponents does not throw: the types are known
\* and getAddress and PublicKey accept the keys.  (A 20-byte key of type
\* Ed25519, which would be padded to 32 bytes, is left out.)
CanMapMethods(methods) ==
  \A m \in Visible(methods) :
    \/ m.method_type = Ed25519VerificationKey2018 /\ m.key_data \in SolKeys
    \/ m.method_type = EcdsaSecp256k1RecoveryMethod2020
         /\ m.key_data \in EthAddresses
    \/ m.method_type = EcdsaSecp256k1VerificationKey2019

\* DidSolDataAccount: its identifier and its controllers.
IdentifierOf(a) == Create(a.initial_verification_method.key_data, {Cluster})
MapControllers(native, other) ==
  {ToString(Create(k, {Cluster})) : k \in native} \cup other

MapServices(services, id) ==
  {[id |-> ToString(WithUrl(id, s.fragment)), endpoint |-> s.endpoint] :
     s \in services}

\* DidSolDocument.from.
Document(a) ==
  LET id == IdentifierOf(a)
      visible == Visible(AllMethods(a))
      IdOf(m) == ToString(WithUrl(id, m.fragment))
      Listed(b) == {IdOf(m) : m \in {n \in visible : b \in n.flags}}
  IN [id |-> ToString(id),
      controller |-> MapControllers(a.native_controllers, a.other_controllers),
      verificationMethod |->
        {[id |-> IdOf(m), type |-> m.method_type, text |-> KeyText(m)] : m \in visible},
      authentication |-> Listed(0), assertionMethod |-> Listed(1),
      keyAgreement |-> Listed(2), capabilityInvocation |-> Listed(3),
      capabilityDelegation |-> Listed(4),
      service |-> MapServices(a.services, id)]

\* DidSolDocument.sparse: the document of a generative DID.
DefaultVerificationMethodFlags == {CAPABILITY_INVOCATION, OWNERSHIP_PROOF}
Sparse(authority) == Document(InitAccount(authority, DefaultVerificationMethodFlags))

\* DidSolDocument.fromDoc: what a document does not say is as in that of the
\* generative DID.  (Lists that hold anything but ids are refused.)
FromDoc(document) ==
  LET id == CHOOSE i \in Parse(document.id) : TRUE
      sparse == Sparse(id.authority)
  IN [field \in DOMAIN sparse |->
        IF field \in DOMAIN document THEN document[field] ELSE sparse[field]]

\* Mutant: capabilityDelegation is read from the list above it.
SlippedFlags(document, f) ==
  {b \in Lists : \E t \in document[ListOf(IF b = 4 THEN 3 ELSE b)] :
     t.fragment \in Fragments /\ f \in HashSuffixes[t.fragment]}

\* getFlagsFromVerificationMethod compares the ends of ids.
FlagsFrom(document, f) ==
  {b \in Lists : \E t \in document[ListOf(b)] :
     t.fragment \in Fragments /\ f \in HashSuffixes[t.fragment]}

\* VerificationMethodFlags.array: the flags of a word that have a name.
FlagArray(flags) == flags \cap KnownFlags

\* getKeyDataFromVerificationMethod: arrayify takes hexadecimal text only with
\* its prefix.
CanParseKey(vm) == vm.text.prefixed

\* validateAndSplitControllers takes all that starts with did:sol as native.
CanSplit(controllers) ==
  \A t \in controllers : IsValidDid(t) /\ (IsDidSol(t) => Parse(t) # {})
NativeIn(controllers) ==
  {id.authority : id \in UNION {Parse(t) : t \in {u \in controllers : IsDidSol(u)}}}

\* getDocUpdateArgs and the call of update with them.
CanUpdateFrom(document) ==
  \E id \in Parse(document.id) :
    LET full == FromDoc(document) IN
    /\ \A vm \in full.verificationMethod :
         /\ vm.type \in AuthorityTypes
         /\ ParseFragmentFromId(id, vm.id) # {} /\ CanParseKey(vm)
    /\ \A s \in full.service : ParseFragmentFromId(id, s.id) # {}
    /\ CanSplit(full.controller)
UpdateArgsFrom(document) ==
  LET full == FromDoc(document) IN
  [verification_methods |->
     {[fragment |-> vm.id.fragment,
       flags |-> FlagArray(FlagsFrom(full, vm.id.fragment)),
       method_type |-> vm.type, key_data |-> vm.text.key] :
        vm \in full.verificationMethod},
   services |->
     {[fragment |-> s.id.fragment, endpoint |-> s.endpoint] : s \in full.service},
   native_controllers |-> NativeIn(full.controller),
   other_controllers |-> {t \in full.controller : ~IsDidSol(t)}]

-----------------------------------------------------------------------------
\* Where the state of a DID is, in the order of resolve.
Status(d) ==
  IF Persisted(d) THEN "account" ELSE IF legacy[d] # {} THEN "legacy" ELSE "generative"

\* A call: what it found first and its answer.  History: the states the DID was
\* in since then, and whether the predecessor's account stayed as it was.
Reading(name, d, answer) ==
  [name |-> name, did |-> d, current |-> Persisted(d), answer |-> answer,
   was |-> {Status(d)}, kept |-> TRUE]
\* A client drops its document when it asks again.
Pending == {r \in reading : r.answer = "none"}

\* Mutant: the predecessor's document is preferred.
ResolveLegacyFirst(d, checkLegacy) ==
  /\ Pending = {}
  /\ held' = {} /\ reading' = {Reading("resolve", d, "none")}
  /\ UNCHANGED <<vars, legacy>>

\* The reply of getDidAccount.  Without checkLegacy, resolve does not go on.
Resolve(d, checkLegacy) ==
  /\ Pending = {}
  /\ IF Persisted(d)
     THEN /\ CanMapMethods(AllMethods(data[d]))
          /\ held' = {Document(data[d])}
          /\ reading' = {Reading("resolve", d, "account")}
     ELSE IF checkLegacy
     THEN held' = {} /\ reading' = {Reading("resolve", d, "none")}
     ELSE held' = {Sparse(d)} /\ reading' = {}
  /\ UNCHANGED <<vars, legacy>>

IsMigratable(d) ==
  /\ Pending = {}
  /\ held' = {} /\ reading' = {Reading("isMigratable", d, "none")}
  /\ UNCHANGED <<vars, legacy>>

\* The reply of getLegacyData.  A document of the predecessor is not one that
\* this client writes back.
GetLegacyData(r) ==
  LET found == legacy[r.did] # {}
      Answered(answer) == reading' = {[r EXCEPT !.answer = answer]}
  IN /\ IF r.name = "resolve"
        THEN /\ held' = IF found THEN {} ELSE {Sparse(r.did)}
             /\ Answered(IF found THEN "legacy" ELSE "generative")
        ELSE /\ UNCHANGED held
             /\ Answered(IF ~r.current /\ found THEN "yes" ELSE "no")
     /\ UNCHANGED <<vars, legacy>>

\* DidSolService.updateFromDoc for the DID of the document, when its
\* transaction lands.
UpdateFromDoc(d, document, authority, eth) ==
  /\ document.id = ToString(Create(d, {Cluster}))
  /\ CanUpdateFrom(document)
  /\ Update(d, authority, eth, UpdateArgsFrom(document))
  /\ written' = {[did |-> d, document |-> document]}
  /\ UNCHANGED <<held, legacy>>

UpdateSignatures(document) == Signatures(<<"update", UpdateArgsFrom(document)>>)
UpdateStep ==
  \E d \in Dids, document \in held \cup HandMade, authority \in SolKeys :
    \E eth \in UpdateSignatures(document) :
      UpdateFromDoc(d, document, authority, eth)

\* Migration, which may close the predecessor's account in the same
\* transaction, and the predecessor itself, which may close it at any time.
MigrateStep(d) ==
  \E doc \in legacy[d] :
    /\ Migrate(d, doc)
    /\ legacy' \in {legacy, [legacy EXCEPT ![d] = {}]}
    /\ UNCHANGED held

CloseLegacy(d) ==
  /\ legacy[d] # {}
  /\ legacy' = [legacy EXCEPT ![d] = {}]
  /\ UNCHANGED <<vars, held>>

\* Everybody else at work on the account.
OtherStep(d) ==
  /\ \/ \E size \in Sizes : Initialize(d, size)
     \/ \E authority \in SolKeys :
          MethodStep(d, authority) \/ DocumentStep(d, authority)
            \/ AccountStep(d, authority)
  /\ UNCHANGED <<held, legacy>>

Observed(r) ==
  [r EXCEPT !.was = @ \cup {Status(r.did)'},
            !.kept = @ /\ legacy'[r.did] = legacy[r.did]]

DocInit ==
  /\ Init
  /\ held = {} /\ written = {} /\ reading = {}
  /\ legacy \in
       [Dids -> {{}} \cup {{doc} : doc \in LegacyDocs}]
  /\ \A d \in Dids : \A doc \in legacy[d] : doc.authority = d

DocNext ==
  \/ /\ \/ \E d \in Dids, checkLegacy \in BOOLEAN : Resolve(d, checkLegacy)
        \/ \E d \in Dids : IsMigratable(d)
        \/ \E r \in Pending : GetLegacyData(r)
     /\ written' = {}
  \/ /\ \/ UpdateStep
        \/ /\ \E d \in Dids : MigrateStep(d) \/ CloseLegacy(d) \/ OtherStep(d)
           /\ written' = {}
     /\ reading' = {Observed(r) : r \in Pending}

DocSpec == DocInit /\ [][DocNext]_docVars

-----------------------------------------------------------------------------
\* What remains of a method in a document: not the guarded flags, nor bits that
\* have no name.
Shown(m) == [m EXCEPT !.flags = @ \cap Lists]

\* An account that is resolved and written back: hidden methods are gone,
\* except for the initial one, and the guarded flags of the others.
Rewritten(a) ==
  LET initial == a.initial_verification_method IN
  [a EXCEPT !.initial_verification_method =
              IF DidDocHidden \in initial.flags THEN initial ELSE Shown(initial),
            !.verification_methods = {Shown(m) : m \in Visible(@)}]

\* Every document that resolve gives and updateFromDoc takes is the account it
\* was made from, also one that was migrated: ids and controllers in text name
\* the same methods, services and keys again, the lists become the same flags,
\* and the setters of the program accept it all.
RoundTrip ==
  \A d \in Dids :
    LET a == data[d]
        document == Document(a)
        arg == UpdateArgsFrom(document)
    IN Persisted(d) /\ CanMapMethods(AllMethods(a)) /\ CanUpdateFrom(document) =>
         /\ CanSetServices(arg.services)
         /\ CanSetVerificationMethods({}, arg.verification_methods)
         /\ CanSetControllers(a, arg.native_controllers, arg.other_controllers)
         /\ Updated(a, arg) = Rewritten(a)

\* A document with all that fromDoc adds, and with its ids in full.
Canonical(document) ==
  LET full == FromDoc(document)
      Id(t) == IF t.method = NoText THEN [document.id EXCEPT !.fragment = t.fragment] ELSE t
  IN [field \in DOMAIN full |->
        IF field \in {"verificationMethod", "service"}
        THEN {[e EXCEPT !.id = Id(@)] : e \in full[field]}
        ELSE IF \E b \in Lists : field = ListOf(b) THEN {Id(t) : t \in full[field]}
        ELSE full[field]]

\* A document that the account of a DID can have: it does not do without the
\* default method, which cannot be removed, nor alter its key; its keys are
\* written as the client writes them, native controllers on its own cluster; and
\* its lists refer to its own methods.
Complete(d, document) ==
  LET full == FromDoc(document)
      names == {vm.id.fragment : vm \in full.verificationMethod}
  IN /\ DefaultFragment \in names
     /\ \A vm \in full.verificationMethod :
          /\ vm.text.prefixed <=> vm.type # EcdsaSecp256k1VerificationKey2019
          /\ vm.id.fragment = DefaultFragment =>
               vm.type = Ed25519VerificationKey2018 /\ vm.text.key = d
     /\ \A b \in Lists : \A t \in full[ListOf(b)] :
          /\ t.fragment \in names
          /\ ParseFragmentFromId(Create(d, {Cluster}), t) # {}
     /\ \A t \in full.controller :
          IsDidSol(t) => \E k \in SolKeys : t = ToString(Create(k, {Cluster}))

\* "can update a did:sol with a DID Document" (tests, suite-resolve/resolve.ts):
\* after updateFromDoc(document), resolve gives the document that was passed,
\* however old it is and whatever happened to the account meanwhile, if an
\* account can have that document at all.
UpdateYieldsDocument ==
  \A w \in written :
    Complete(w.did, w.document) => Document(data[w.did]) = Canonical(w.document)

\* Whether an answer was right at some moment of its call.
WasTrue(r) ==
  CASE r.answer = "yes" -> "legacy" \in r.was
    [] r.answer = "no" -> r.was \ {"legacy"} # {}
    [] OTHER -> r.answer \in r.was

\* The priority of README (persisted DID, persisted DID of the predecessor,
\* generative DID): resolve and isMigratable, which look at both programs one
\* after the other, give the answer of a moment of their call, whatever is
\* migrated, created or closed meanwhile.  Only if the predecessor's account
\* goes between the two requests, as in a migration that closes it, they may
\* find neither and answer with a generative DID.
AnswersTrue ==
  \A r \in reading : r.answer # "none" /\ r.kept => WasTrue(r)

\* An id of a method in a document that can be parsed is the id of that method:
\* it has the cluster and the key of its DID, and is written as the same text
\* again.  All ids can be parsed, but for those whose name is no word, such as
\* eth-address, which the expression of parse refuses (IdsParse).
IdsReferToTheirDid ==
  \A document \in held : \A vm \in document.verificationMethod :
    /\ \A id \in Parse(vm.id) :
         ToString(id) = vm.id /\ ToString(WithUrl(id, NoText)) = document.id
    /\ vm.id.fragment \in Words => Parse(vm.id) # {}

\* "fragment is always the last field in the URI" (DidSolIdentifier.ts, which
\* quotes RFC 3986 and excepts paths and queries only): the ids of the methods
\* of a document can be parsed, eth-address of README's examples included.
IdsParse ==
  \A document \in held : \A vm \in document.verificationMethod : Parse(vm.id) # {}

\* README, "Update all properties of a DID with a DID Document": an existing
\* document can be passed to updateFromDoc.
DocumentsAccepted == \A document \in held : CanUpdateFrom(document)
=============================================================================
