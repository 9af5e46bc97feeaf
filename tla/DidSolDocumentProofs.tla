------------------------ MODULE DidSolDocumentProofs ------------------------
(***************************************************************************)
(* Theorems about DidSolDocument and DidSolIdentifier, for every value of  *)
(* their constants.                                                        *)
(***************************************************************************)
EXTENDS DidSolDocument, SolDidProofs, SequenceTheorems, TLAPS

-----------------------------------------------------------------------------
(* Identifiers: what is written is read again.                             *)

LEMMA NoTextDiffers == NoText # "sol" /\ NoText # "unknown" /\ NoText \notin Clusters
<1>1. NoText # "sol" /\ NoText # "unknown"
  BY Zenon DEF NoText
<1>2. NoText \notin Clusters
  BY Zenon DEF NoText, Clusters
<1>3. QED
  BY <1>1, <1>2

\* The words that clusterString writes are read as the cluster again.
LEMMA ClusterWords ==
  ASSUME NEW clusterType \in ClusterTypes
  PROVE  \/ /\ ClusterString(clusterType) = <<>>
            /\ MapMethodExtension(NoText) = clusterType
         \/ \E word \in Words :
              /\ ClusterString(clusterType) = <<word>>
              /\ MapMethodExtension(word) = clusterType
<1>1. CASE clusterType = {}
  <2>1. ClusterString(clusterType) = <<"unknown">>
    BY <1>1 DEF ClusterString
  <2>2. MapMethodExtension("unknown") = {}
    BY NoTextDiffers DEF MapMethodExtension
  <2>3. QED
    BY <1>1, <2>1, <2>2, WordAssumption
<1>2. CASE clusterType = {"mainnet-beta"}
  BY <1>2 DEF ClusterString, MapMethodExtension
<1>3. ASSUME NEW c \in Clusters \ {"mainnet-beta"}, clusterType = {c}
      PROVE  \E word \in Words :
               /\ ClusterString(clusterType) = <<word>>
               /\ MapMethodExtension(word) = clusterType
  <2>1. (CHOOSE x \in clusterType : TRUE) = c
    BY <1>3
  <2>2. ClusterString(clusterType) = <<c>>
    BY <1>3, <2>1 DEF ClusterString
  <2>3. c \in Words /\ MapMethodExtension(c) = {c}
    BY WordAssumption, NoTextDiffers DEF Clusters, MapMethodExtension
  <2>4. QED
    BY <1>3, <2>2, <2>3
<1>4. QED
  BY <1>1, <1>2, <1>3 DEF ClusterTypes

\* The text of an identifier is divided in the word of its cluster and its
\* authority.
LEMMA DividedText ==
  ASSUME NEW id \in Identifiers
  PROVE  \E word \in Words :
           /\ Divided(ToString(id)) = {<<word, id.authority>>}
           /\ MapMethodExtension(word) = id.clusterType
<1>1. id.clusterType \in ClusterTypes
  BY DEF Identifiers
<1>2. CASE /\ ClusterString(id.clusterType) = <<>>
           /\ MapMethodExtension(NoText) = id.clusterType
  <2> DEFINE t == ToString(id)
             path == Append(<<>>, id.authority)
  <2>1. <<>> \in Seq({id.authority})
    OBVIOUS
  <2>2. Len(path) = 1 /\ path[1] = id.authority
    BY <2>1, AppendProperties
  <2>3. t.method = "sol" /\ t.path = path
    BY <1>2 DEF ToString, Text
  <2>4. t.method \in DOMAIN AfterSol /\ AfterSol[t.method] = NoText
    BY <2>3, SolAssumption
  <2>5. Divided(t) = {<<AfterSol[t.method], t.path[1]>>}
    <3>1. Len(t.path) = 1
      BY <2>2, <2>3
    <3> HIDE DEF t
    <3>2. QED
      BY <2>4, <3>1 DEF Divided
  <2>6. QED
    BY <1>2, <2>2, <2>3, <2>4, <2>5, WordAssumption
<1>3. ASSUME NEW word \in Words, ClusterString(id.clusterType) = <<word>>,
             MapMethodExtension(word) = id.clusterType
      PROVE  Divided(ToString(id)) = {<<word, id.authority>>}
  <2> DEFINE path == Append(<<word>>, id.authority)
  <2>1. <<word>> \in Seq({word, id.authority})
    OBVIOUS
  <2>2. Len(path) = 2 /\ path[1] = word /\ path[2] = id.authority
    BY <2>1, AppendProperties
  <2>3. ToString(id).method = "sol" /\ ToString(id).path = path
    BY <1>3 DEF ToString, Text
  <2>4. QED
    BY <2>2, <2>3 DEF Divided
<1>4. QED
  BY <1>1, <1>2, <1>3, ClusterWords

\* What the client writes as a DID, it reads as the same identifier: on every
\* cluster, for every key and every fragment that is a word.
THEOREM ParsingInverts == ParseInvertsToString
<1>1. SUFFICES ASSUME NEW id \in Identifiers
               PROVE  Parse(ToString(id)) = {id}
  BY DEF ParseInvertsToString
<1>2. PICK word \in Words :
        /\ Divided(ToString(id)) = {<<word, id.authority>>}
        /\ MapMethodExtension(word) = id.clusterType
  BY DividedText
<1>3. id.authority \in SolKeys /\ id.fragment \in Words
  BY DEF Identifiers
<1>4. ToString(id).fragment = id.fragment
  BY DEF ToString, Text
<1>5. Parse(ToString(id)) =
        {[clusterType |-> id.clusterType, authority |-> id.authority,
          fragment |-> id.fragment]}
  <2>1. {v \in Divided(ToString(id)) :
           v[1] \in Words /\ v[2] \in SolKeys
             /\ ToString(id).fragment \in Words} = {<<word, id.authority>>}
    BY <1>2, <1>3, <1>4
  <2>2. Parse(ToString(id)) =
          {[clusterType |-> MapMethodExtension(w[1]), authority |-> w[2],
            fragment |-> ToString(id).fragment] : w \in {<<word, id.authority>>}}
    BY <2>1 DEF Parse
  <2>3. QED
    BY <1>2, <1>4, <2>2
<1>6. id = [clusterType |-> id.clusterType, authority |-> id.authority,
            fragment |-> id.fragment]
  BY DEF Identifiers
<1>7. QED
  BY <1>5, <1>6

-----------------------------------------------------------------------------
(* Documents: what a read answers while the account changes.               *)

\* Where a DID is that has no account.
WithoutAccount(d) == IF legacy[d] # {} THEN "legacy" ELSE "generative"

\* What is known of a call whose second reply is still to come: if the first
\* one found an account, that was a state of the DID since; if it found none
\* and the predecessor's account stayed as it was, the state without account,
\* as it is now, was one.
Remembers(r) ==
  /\ r.current => "account" \in r.was
  /\ ~r.current /\ r.kept => WithoutAccount(r.did) \in r.was
  /\ r.name = "resolve" => ~r.current

Answers(r) == r.answer # "none" /\ r.kept => WasTrue(r)

Readings ==
  [name: {"resolve", "isMigratable"}, did: Dids, current: BOOLEAN,
   answer: {"none", "account", "legacy", "generative", "yes", "no"},
   was: SUBSET {"account", "legacy", "generative"}, kept: BOOLEAN]

ReadingInv ==
  \A r \in reading :
    r \in Readings /\ (r.answer = "none" => Remembers(r)) /\ Answers(r)

LEMMA StatusType == ASSUME NEW d PROVE Status(d) \in {"account", "legacy", "generative"}
BY DEF Status

\* A call that has just begun.
LEMMA BegunRemembers ==
  ASSUME NEW name \in {"resolve", "isMigratable"}, NEW d \in Dids,
         name = "resolve" => ~Persisted(d)
  PROVE  LET r == Reading(name, d, "none")
         IN r \in Readings /\ Remembers(r) /\ Answers(r)
<1> DEFINE r == Reading(name, d, "none")
<1>1. r \in Readings /\ r.answer = "none"
  BY StatusType DEF Reading, Readings, Persisted
<1>2. r.name = name /\ r.did = d /\ (r.current <=> Persisted(d))
  BY DEF Reading
<1>3. Persisted(d) => "account" \in r.was
  BY DEF Reading, Status
<1>4. ~Persisted(d) => WithoutAccount(d) \in r.was
  BY DEF Reading, Status, WithoutAccount
<1>5. Remembers(r)
  BY <1>2, <1>3, <1>4 DEF Remembers
<1>6. QED
  BY <1>1, <1>5 DEF Answers

\* What others do adds to the states of the DID, and notes a change of the
\* predecessor's account.
LEMMA ObservedRemembers ==
  ASSUME NEW r \in Pending, ReadingInv, NEW x, x = Observed(r)
  PROVE  x \in Readings /\ Remembers(x)' /\ Answers(x)'
<1>1. r \in Readings /\ r.answer = "none" /\ Remembers(r)
  BY DEF Pending, ReadingInv
<1>2. Status(r.did)' \in {"account", "legacy", "generative"}
  BY DEF Status
<1>3. x \in Readings
  BY <1>1, <1>2 DEF Readings, Observed
<1>4. /\ x.did = r.did /\ x.current = r.current /\ x.answer = r.answer
      /\ x.name = r.name /\ r.was \subseteq x.was
      /\ x.kept => r.kept /\ legacy'[r.did] = legacy[r.did]
  BY <1>1 DEF Readings, Observed
<1>5. x.kept => WithoutAccount(x.did)' = WithoutAccount(r.did)
  BY <1>4 DEF WithoutAccount
<1>6. Remembers(x)'
  BY <1>1, <1>4, <1>5 DEF Remembers
<1>7. QED
  BY <1>1, <1>3, <1>4, <1>6 DEF Answers

\* The second reply: the answer was true at some moment, if the predecessor's
\* account did not change.
LEMMA AnsweredTrue ==
  ASSUME NEW r \in Pending, ReadingInv, GetLegacyData(r), NEW x \in reading'
  PROVE  x \in Readings /\ x.answer # "none" /\ Answers(x)'
<1> DEFINE found == legacy[r.did] # {}
<1>1. r \in Readings /\ r.answer = "none" /\ Remembers(r)
  BY DEF Pending, ReadingInv
<1>2. CASE r.name = "resolve"
  <2>1. x = [r EXCEPT !.answer = IF found THEN "legacy" ELSE "generative"]
    BY <1>2 DEF GetLegacyData
  <2>2. x \in Readings
    BY <1>1, <2>1 DEF Readings
  <2>3. /\ x.answer = WithoutAccount(r.did)
        /\ x.was = r.was /\ x.kept = r.kept
    BY <1>1, <2>1 DEF Readings, WithoutAccount
  <2>4. ~r.current
    BY <1>1, <1>2 DEF Remembers
  <2>5. x.kept => x.answer \in x.was
    BY <1>1, <2>3, <2>4 DEF Remembers
  <2>6. x.answer \in {"legacy", "generative"}
    BY <2>3 DEF WithoutAccount
  <2>7. QED
    BY <2>2, <2>5, <2>6 DEF Answers, WasTrue
<1>3. CASE r.name # "resolve"
  <2>1. x = [r EXCEPT !.answer = IF ~r.current /\ found THEN "yes" ELSE "no"]
    BY <1>3 DEF GetLegacyData
  <2>2. x \in Readings
    BY <1>1, <2>1 DEF Readings
  <2>3. /\ x.answer = IF ~r.current /\ found THEN "yes" ELSE "no"
        /\ x.was = r.was /\ x.kept = r.kept
    BY <1>1, <2>1 DEF Readings
  <2>4. ~r.current /\ r.kept => WithoutAccount(r.did) \in r.was
    BY <1>1 DEF Remembers
  <2>5. r.current => "account" \in r.was
    BY <1>1 DEF Remembers
  <2>6. CASE ~r.current /\ found
    BY <2>2, <2>3, <2>4, <2>6 DEF Answers, WasTrue, WithoutAccount
  <2>7. CASE r.current
    <3>1. x.answer = "no" /\ "account" \in x.was
      BY <2>3, <2>5, <2>7
    <3>2. x.was \ {"legacy"} # {}
      BY <3>1
    <3>3. QED
      BY <2>2, <3>1, <3>2 DEF Answers, WasTrue
  <2>8. CASE ~r.current /\ ~found
    <3>1. x.answer = "no" /\ (x.kept => "generative" \in x.was)
      BY <2>3, <2>4, <2>8 DEF WithoutAccount
    <3>2. x.kept => x.was \ {"legacy"} # {}
      BY <3>1
    <3>3. QED
      BY <2>2, <3>1, <3>2 DEF Answers, WasTrue
  <2>9. QED
    BY <2>6, <2>7, <2>8
<1>4. QED
  BY <1>2, <1>3

LEMMA ReadingStep == ReadingInv /\ [DocNext]_docVars => ReadingInv'
<1> SUFFICES ASSUME ReadingInv, [DocNext]_docVars
             PROVE  ReadingInv'
  OBVIOUS
<1>1. ASSUME NEW d \in Dids, NEW checkLegacy \in BOOLEAN, Resolve(d, checkLegacy)
      PROVE  ReadingInv'
  <2>1. UNCHANGED <<vars, legacy>>
    BY <1>1 DEF Resolve
  <2>2. CASE Persisted(d)
    <3>1. reading' = {Reading("resolve", d, "account")}
      BY <1>1, <2>2 DEF Resolve
    <3>2. Reading("resolve", d, "account") \in Readings
      BY StatusType DEF Reading, Readings, Persisted
    <3>3. /\ Reading("resolve", d, "account").answer = "account"
          /\ "account" \in Reading("resolve", d, "account").was
      BY <2>2 DEF Reading, Status
    <3>4. QED
      BY <3>1, <3>2, <3>3 DEF ReadingInv, Answers, WasTrue
  <2>3. CASE ~Persisted(d) /\ checkLegacy
    <3>1. reading' = {Reading("resolve", d, "none")}
      BY <1>1, <2>3 DEF Resolve
    <3>2. LET r == Reading("resolve", d, "none")
          IN r \in Readings /\ Remembers(r) /\ Answers(r)
      BY <2>3, BegunRemembers
    <3>3. QED
      BY <2>1, <3>1, <3>2
         DEF ReadingInv, Remembers, Answers, WasTrue, WithoutAccount
  <2>4. CASE ~Persisted(d) /\ ~checkLegacy
    BY <1>1, <2>4 DEF Resolve, ReadingInv
  <2>5. QED
    BY <2>2, <2>3, <2>4
<1>2. ASSUME NEW d \in Dids, IsMigratable(d)
      PROVE  ReadingInv'
  <2>1. UNCHANGED <<vars, legacy>>
        /\ reading' = {Reading("isMigratable", d, "none")}
    BY <1>2 DEF IsMigratable
  <2>2. LET r == Reading("isMigratable", d, "none")
        IN r \in Readings /\ Remembers(r) /\ Answers(r)
    BY BegunRemembers
  <2>3. QED
    BY <2>1, <2>2 DEF ReadingInv, Remembers, Answers, WasTrue, WithoutAccount
<1>3. ASSUME NEW r \in Pending, GetLegacyData(r)
      PROVE  ReadingInv'
  BY <1>3, AnsweredTrue DEF ReadingInv
<1>4. ASSUME reading' = {Observed(r) : r \in Pending}
      PROVE  ReadingInv'
  <2>1. SUFFICES ASSUME NEW x \in reading'
                 PROVE  x \in Readings /\ Remembers(x)' /\ Answers(x)'
    BY DEF ReadingInv
  <2>2. PICK r \in Pending : x = Observed(r)
    BY <1>4, <2>1
  <2>3. QED
    BY <2>2, ObservedRemembers
<1>5. CASE UNCHANGED docVars
  BY <1>5 DEF docVars, ReadingInv, Remembers, Answers, WasTrue, WithoutAccount
<1>6. QED
  BY <1>1, <1>2, <1>3, <1>4, <1>5 DEF DocNext

\* Whatever is migrated, created or closed between its two requests, resolve
\* and isMigratable give an answer that was right at some moment of the call,
\* if the predecessor's account did not change.
THEOREM ResolutionIsTrue == DocSpec => []AnswersTrue
<1>1. DocInit => ReadingInv
  BY DEF DocInit, ReadingInv
<1>2. ReadingInv => AnswersTrue
  BY DEF ReadingInv, Answers, AnswersTrue
<1>3. QED
  BY <1>1, <1>2, ReadingStep, PTL DEF DocSpec

-----------------------------------------------------------------------------
\* What the round trip of documents rests on beyond the program: names of
\* methods without "#", and no controller of a method whose name starts with
\* sol, which the client takes for one of its own.
PlainNames ==
  /\ \A f \in Fragments : HashSuffixes[f] = {f}
  /\ \A o \in ForeignDids : ~IsDidSol(o)

DocumentFields ==
  {"id", "controller", "verificationMethod", "authentication",
   "assertionMethod", "keyAgreement", "capabilityInvocation",
   "capabilityDelegation", "service"}

IdOf(a, f) == ToString(WithUrl(IdentifierOf(a), f))

\* An identifier with another fragment.
LEMMA WithUrlIs ==
  ASSUME NEW k, NEW c, NEW g, NEW f,
         NEW i, i = [clusterType |-> c, authority |-> k, fragment |-> g]
  PROVE  WithUrl(i, f) = [clusterType |-> c, authority |-> k, fragment |-> f]
<1> DEFINE j == [i EXCEPT !.fragment = f]
<1>1. i \in [clusterType: {c}, authority: {k}, fragment: {g, f}]
  OBVIOUS
<1>2. j \in [clusterType: {c}, authority: {k}, fragment: {f}]
  BY <1>1
<1>3. j.clusterType = c /\ j.authority = k /\ j.fragment = f
  BY <1>1
<1> HIDE DEF j
<1>4. QED
  BY <1>2, <1>3 DEF WithUrl, j

\* The service works on a cluster, whatever its DIDs name.
LEMMA ClusterKnown == {Cluster} \in ClusterTypes
<1>1. ASSUME NEW c \in Clusters, ServiceCluster(Named) = {c}
      PROVE  {Cluster} \in ClusterTypes
  BY <1>1 DEF Cluster, ClusterTypes
<1>2. \E c \in Clusters : ServiceCluster(Named) = {c}
  BY NamedAssumption DEF ClusterTypes, ServiceCluster, Clusters
<1>3. QED
  BY <1>1, <1>2

\* The ids of a DID of the service: they are read as they were written, and are
\* told apart from the DID by their fragment only.
LEMMA Identified ==
  ASSUME NEW k \in SolKeys, NEW f \in Words
  PROVE  LET id == WithUrl(Create(k, {Cluster}), f) IN
         /\ Parse(ToString(id)) = {id}
         /\ WithUrl(id, NoText) = Create(k, {Cluster})
         /\ Parse(ToString(Create(k, {Cluster}))) = {Create(k, {Cluster})}
<1> DEFINE plain == Create(k, {Cluster})
           id == WithUrl(plain, f)
<1>1. plain = [clusterType |-> {Cluster}, authority |-> k, fragment |-> NoText]
  BY DEF Create
<1> HIDE DEF plain
<1>2. id = [clusterType |-> {Cluster}, authority |-> k, fragment |-> f]
  BY <1>1, WithUrlIs
<1> HIDE DEF id
<1>3. WithUrl(id, NoText) = plain
  BY <1>1, <1>2, WithUrlIs
<1>4. id \in Identifiers /\ plain \in Identifiers
  BY <1>1, <1>2, ClusterKnown, WordAssumption DEF Identifiers
<1>5. Parse(ToString(id)) = {id} /\ Parse(ToString(plain)) = {plain}
  BY <1>4, ParsingInverts DEF ParseInvertsToString
<1>6. QED
  BY <1>3, <1>5 DEF id, plain

LEMMA IdParts ==
  ASSUME NEW a, NEW f
  PROVE  IdOf(a, f).fragment = f
BY DEF IdOf, ToString, WithUrl, IdentifierOf, Create, Text

\* The fields of a document, one by one.
LEMMA FieldsOf ==
  ASSUME NEW a
  PROVE  /\ DOMAIN Document(a) = DocumentFields
         /\ Document(a).id = ToString(IdentifierOf(a))
         /\ Document(a).controller =
              MapControllers(a.native_controllers, a.other_controllers)
         /\ Document(a).verificationMethod =
              {[id |-> IdOf(a, m.fragment), type |-> m.method_type,
                text |-> KeyText(m)] : m \in Visible(AllMethods(a))}
         /\ Document(a).service =
              {[id |-> IdOf(a, s.fragment), endpoint |-> s.endpoint] :
                 s \in a.services}
BY DEF Document, DocumentFields, MapServices, IdOf

LEMMA ListsOf ==
  ASSUME NEW a, NEW b \in Lists
  PROVE  /\ ListOf(b) \in DocumentFields
         /\ Document(a)[ListOf(b)] =
              {IdOf(a, m.fragment) :
                 m \in {n \in Visible(AllMethods(a)) : b \in n.flags}}
<1>1. b \in {0, 1, 2, 3, 4}
  BY DEF Lists
<1>2. /\ ListOf(0) = "authentication" /\ ListOf(1) = "assertionMethod"
      /\ ListOf(2) = "keyAgreement" /\ ListOf(3) = "capabilityInvocation"
      /\ ListOf(4) = "capabilityDelegation"
  BY DEF ListOf, ListNames
<1>3. ListOf(b) \in DocumentFields
  BY <1>1, <1>2 DEF DocumentFields
<1> DEFINE Listed(i) ==
      {IdOf(a, m.fragment) : m \in {n \in Visible(AllMethods(a)) : i \in n.flags}}
<1>4. /\ Document(a).authentication = Listed(0)
      /\ Document(a).assertionMethod = Listed(1)
      /\ Document(a).keyAgreement = Listed(2)
      /\ Document(a).capabilityInvocation = Listed(3)
      /\ Document(a).capabilityDelegation = Listed(4)
  BY DEF Document, IdOf
<1>5. Document(a)[ListOf(b)] = Listed(b)
  <2> HIDE DEF Listed
  <2> QED
    BY <1>1, <1>2, <1>4
<1>6. QED
  BY <1>3, <1>5

\* fromDoc leaves a full document as it is.
LEMMA FullDocument ==
  ASSUME NEW a, NEW field \in DocumentFields
  PROVE  FromDoc(Document(a))[field] = Document(a)[field]
<1>1. DOMAIN Document(a) = DocumentFields
  BY FieldsOf
<1>2. \A k : DOMAIN Sparse(k) = DocumentFields
  BY FieldsOf DEF Sparse
<1> DEFINE doc == Document(a)
<1> HIDE DEF doc
<1>3. DOMAIN doc = DocumentFields
  BY <1>1 DEF doc
<1>4. FromDoc(doc)[field] = doc[field]
  BY <1>2, <1>3 DEF FromDoc
<1>5. QED
  BY <1>4 DEF doc

\* The names of the methods of a valid account are all different.
LEMMA NamesDiffer ==
  ASSUME NEW d, NEW a, Valid(d, a)
  PROVE  UniqueByFragment(AllMethods(a))
BY DEF Valid, UniqueByFragment, Fragmented, AllMethods

\* The flags of a method are found again in the lists.
LEMMA FlagsFound ==
  ASSUME PlainNames, NEW d, NEW a, Valid(d, a), NEW m \in Visible(AllMethods(a))
  PROVE  FlagArray(FlagsFrom(FromDoc(Document(a)), m.fragment)) = m.flags \cap Lists
<1> DEFINE full == FromDoc(Document(a))
<1>1. \A b \in Lists :
        full[ListOf(b)] = {IdOf(a, n.fragment) :
                             n \in {x \in Visible(AllMethods(a)) : b \in x.flags}}
  BY ListsOf, FullDocument
<1>2. \A n \in Visible(AllMethods(a)) : n \in AllMethods(a) /\ n.fragment \in Fragments
  BY DEF Visible, AllMethods, Valid, DidAccounts, VerificationMethods
<1> HIDE DEF full
<1>3. ASSUME NEW b \in Lists
      PROVE  (\E t \in full[ListOf(b)] :
                t.fragment \in Fragments /\ m.fragment \in HashSuffixes[t.fragment])
             <=> b \in m.flags
  <2>1. (\E t \in full[ListOf(b)] :
           t.fragment \in Fragments /\ m.fragment \in HashSuffixes[t.fragment])
        <=> \E n \in {x \in Visible(AllMethods(a)) : b \in x.flags} :
              n.fragment \in Fragments /\ m.fragment \in HashSuffixes[n.fragment]
    BY <1>1, IdParts
  <2>2. \A n \in Visible(AllMethods(a)) :
          m.fragment \in HashSuffixes[n.fragment] <=> n = m
    BY <1>2, NamesDiffer DEF PlainNames, UniqueByFragment
  <2>3. QED
    BY <1>2, <2>1, <2>2
<1>4. FlagsFrom(full, m.fragment) = {b \in Lists : b \in m.flags}
  BY <1>3 DEF FlagsFrom
<1>5. QED
  BY <1>4 DEF full, FlagArray, KnownFlags, Lists

\* What updateFromDoc finds in the document of an account.
LEMMA ArgsFound ==
  ASSUME PlainNames, NEW d, NEW a, Valid(d, a)
  PROVE  LET arg == UpdateArgsFrom(Document(a)) IN
         /\ arg.verification_methods = {Shown(m) : m \in Visible(AllMethods(a))}
         /\ arg.services = a.services
<1> DEFINE full == FromDoc(Document(a))
           arg == UpdateArgsFrom(Document(a))
<1>1. /\ full.verificationMethod = Document(a).verificationMethod
      /\ full.service = Document(a).service
  BY FullDocument DEF DocumentFields
<1>2. arg.verification_methods =
        {[fragment |-> m.fragment,
          flags |-> FlagArray(FlagsFrom(full, m.fragment)),
          method_type |-> m.method_type, key_data |-> m.key_data] :
           m \in Visible(AllMethods(a))}
  <2> DEFINE Entry(m) ==
        [id |-> IdOf(a, m.fragment), type |-> m.method_type, text |-> KeyText(m)]
             Found(vm) ==
        [fragment |-> vm.id.fragment,
         flags |-> FlagArray(FlagsFrom(full, vm.id.fragment)),
         method_type |-> vm.type, key_data |-> vm.text.key]
             Method(m) ==
        [fragment |-> m.fragment,
         flags |-> FlagArray(FlagsFrom(full, m.fragment)),
         method_type |-> m.method_type, key_data |-> m.key_data]
  <2>1. arg.verification_methods = {Found(vm) : vm \in full.verificationMethod}
    BY DEF UpdateArgsFrom
  <2>2. full.verificationMethod = {Entry(m) : m \in Visible(AllMethods(a))}
    BY <1>1, FieldsOf
  <2>3. ASSUME NEW m
        PROVE  Found(Entry(m)) = Method(m)
    <3>1. /\ Entry(m).id.fragment = m.fragment
          /\ Entry(m).type = m.method_type
          /\ Entry(m).text.key = m.key_data
      BY IdParts DEF KeyText
    <3> HIDE DEF Entry, full
    <3>2. QED
      BY <3>1
  <2> HIDE DEF full, arg, Entry, Found, Method
  <2>4. arg.verification_methods = {Method(m) : m \in Visible(AllMethods(a))}
    BY <2>1, <2>2, <2>3
  <2>5. QED
    BY <2>4 DEF Method
<1>3. ASSUME NEW m \in Visible(AllMethods(a))
      PROVE  [fragment |-> m.fragment,
              flags |-> FlagArray(FlagsFrom(full, m.fragment)),
              method_type |-> m.method_type, key_data |-> m.key_data] = Shown(m)
  <2>1. m \in VerificationMethods
    BY DEF Visible, AllMethods, Valid, DidAccounts
  <2>2. FlagArray(FlagsFrom(full, m.fragment)) = m.flags \cap Lists
    BY FlagsFound
  <2> HIDE DEF full
  <2>3. QED
    BY <2>1, <2>2 DEF Shown, VerificationMethods
<1>4. arg.services = a.services
  <2>1. arg.services = {[fragment |-> s.id.fragment, endpoint |-> s.endpoint] :
                          s \in full.service}
    BY DEF UpdateArgsFrom
  <2> DEFINE Entry(s) == [id |-> IdOf(a, s.fragment), endpoint |-> s.endpoint]
  <2>2. \A s : Entry(s).id.fragment = s.fragment /\ Entry(s).endpoint = s.endpoint
    BY IdParts
  <2>3. full.service = {Entry(s) : s \in a.services}
    BY <1>1, FieldsOf
  <2>4. \A s \in a.services : s = [fragment |-> s.fragment, endpoint |-> s.endpoint]
    BY DEF Valid, DidAccounts, Services
  <2> HIDE DEF full, arg, Entry
  <2>5. QED
    BY <2>1, <2>2, <2>3, <2>4
<1>5. arg.verification_methods = {Shown(m) : m \in Visible(AllMethods(a))}
  <2> HIDE DEF full, arg
  <2> QED
    BY <1>2, <1>3
<1>6. QED
  BY <1>4, <1>5

\* The client reads its own texts as native controllers, and only those.
LEMMA ControllersFound ==
  ASSUME PlainNames, NEW native \in SUBSET SolKeys, NEW other \in SUBSET ForeignDids
  PROVE  /\ NativeIn(MapControllers(native, other)) = native
         /\ {t \in MapControllers(native, other) : ~IsDidSol(t)} = other
<1> DEFINE T(k) == ToString(Create(k, {Cluster}))
           texts == MapControllers(native, other)
<1>1. texts = {T(k) : k \in native} \cup other
  BY DEF MapControllers
<1>2. ASSUME NEW k \in native
      PROVE  Parse(T(k)) = {Create(k, {Cluster})} /\ IsDidSol(T(k))
  <2>1. Create(k, {Cluster}) \in Identifiers
    BY ClusterKnown, WordAssumption DEF Create, Identifiers
  <2>2. Parse(T(k)) = {Create(k, {Cluster})}
    BY <2>1, ParsingInverts DEF ParseInvertsToString
  <2>3. T(k).method = "sol"
    BY DEF ToString, Text
  <2>4. IsDidSol(T(k))
    BY <2>3, SolAssumption DEF IsDidSol
  <2>5. QED
    BY <2>2, <2>4
<1>3. \A t \in other : ~IsDidSol(t)
  BY DEF PlainNames
<1>4. \A k : Create(k, {Cluster}).authority = k
  BY DEF Create
<1> HIDE DEF T, texts
<1>5. {t \in texts : IsDidSol(t)} = {T(k) : k \in native}
  BY <1>1, <1>2, <1>3
<1>6. NativeIn(texts) = {id.authority : id \in {Create(k, {Cluster}) : k \in native}}
  <2>1. UNION {Parse(t) : t \in {T(k) : k \in native}} =
          {Create(k, {Cluster}) : k \in native}
    BY <1>2
  <2>2. QED
    BY <1>5, <2>1 DEF NativeIn
<1>7. NativeIn(texts) = native
  BY <1>4, <1>6
<1>8. {t \in texts : ~IsDidSol(t)} = other
  BY <1>1, <1>2, <1>3
<1>9. QED
  BY <1>7, <1>8 DEF texts

\* The methods of a document, given to the program.
LEMMA MethodsAccepted ==
  ASSUME NEW d, NEW a, Valid(d, a), NEW methods,
         methods = {Shown(m) : m \in Visible(AllMethods(a))}
  PROVE  CanSetVerificationMethods({}, methods)
<1>1. \A m \in AllMethods(a) :
        Shown(m).flags = m.flags \cap Lists /\ Shown(m).fragment = m.fragment
  BY DEF Shown, AllMethods, Valid, DidAccounts, VerificationMethods
<1>2. \A n \in methods : n.flags \subseteq KnownFlags /\ n.flags \cap GuardedFlags = {}
  BY <1>1 DEF Visible, Lists, KnownFlags, GuardedFlags, OWNERSHIP_PROOF, PROTECTED
<1>3. UniqueByFragment(methods)
  BY <1>1, NamesDiffer DEF Visible, UniqueByFragment
<1>4. QED
  BY <1>2, <1>3 DEF CanSetVerificationMethods, UniqueByFragment

\* And what becomes of them.
LEMMA MethodsRewritten ==
  ASSUME NEW d, NEW a, Valid(d, a), NEW methods,
         methods = {Shown(m) : m \in Visible(AllMethods(a))}
  PROVE  SetVerificationMethods(a, {}, methods) = Rewritten(a)
<1> DEFINE initial == a.initial_verification_method
           others == {Shown(m) : m \in Visible(a.verification_methods)}
<1>1. \A m \in AllMethods(a) : m \in VerificationMethods
  BY DEF AllMethods, Valid, DidAccounts
<1>2. \A m \in AllMethods(a) :
        Shown(m) = [m EXCEPT !.flags = m.flags \cap Lists]
        /\ Shown(m).fragment = m.fragment /\ Shown(m).flags = m.flags \cap Lists
  BY <1>1 DEF Shown, VerificationMethods
<1>3. \A n \in others : n.fragment # initial.fragment
  BY <1>2 DEF Visible, AllMethods, Valid, Fragmented
<1>4. initial \in AllMethods(a)
  BY DEF AllMethods
<1>5. CASE DidDocHidden \in initial.flags
  <2>1. methods = others
    BY <1>5 DEF Visible, AllMethods
  <2>2. Fragmented(methods, initial.fragment) = {}
    BY <1>3, <2>1 DEF Fragmented
  <2>3. SetVerificationMethods(a, {}, methods) =
          [a EXCEPT !.verification_methods = others]
    BY <2>1, <2>2 DEF SetVerificationMethods
  <2>4. Rewritten(a) = [a EXCEPT !.initial_verification_method = initial,
                                 !.verification_methods = others]
    BY <1>5 DEF Rewritten
  <2> HIDE DEF others
  <2>5. QED
    BY <2>3, <2>4 DEF Valid, DidAccounts
<1>6. CASE DidDocHidden \notin initial.flags
  <2>1. methods = {Shown(initial)} \cup others
    BY <1>6 DEF Visible, AllMethods
  <2>2. Fragmented(methods, initial.fragment) = {Shown(initial)}
    BY <1>2, <1>3, <1>4, <2>1 DEF Fragmented
  <2>3. (CHOOSE m \in {Shown(initial)} : TRUE) = Shown(initial)
    OBVIOUS
  <2>4. methods \ {Shown(initial)} = others
    BY <1>2, <1>3, <1>4, <2>1
  <2>5. SetVerificationMethods(a, {}, methods) =
          [a EXCEPT !.initial_verification_method.flags = Shown(initial).flags,
                    !.verification_methods = others]
    BY <2>2, <2>3, <2>4 DEF SetVerificationMethods
  <2>6. Rewritten(a) = [a EXCEPT !.initial_verification_method = Shown(initial),
                                 !.verification_methods = others]
    BY <1>6 DEF Rewritten
  <2>7. Shown(initial) = [initial EXCEPT !.flags = Shown(initial).flags]
    BY <1>2, <1>4
  <2> HIDE DEF others
  <2>8. QED
    BY <2>5, <2>6, <2>7 DEF Valid, DidAccounts
<1>7. QED
  BY <1>5, <1>6

\* Writing the document of an account back does just what Rewritten says.
LEMMA ValidRoundTrip ==
  ASSUME PlainNames, NEW d, NEW a, Valid(d, a)
  PROVE  LET arg == UpdateArgsFrom(Document(a)) IN
         /\ CanSetServices(arg.services)
         /\ CanSetVerificationMethods({}, arg.verification_methods)
         /\ CanSetControllers(a, arg.native_controllers, arg.other_controllers)
         /\ Updated(a, arg) = Rewritten(a)
<1> DEFINE arg == UpdateArgsFrom(Document(a))
<1>1. /\ arg.verification_methods = {Shown(m) : m \in Visible(AllMethods(a))}
      /\ arg.services = a.services
  BY ArgsFound
<1>2. /\ arg.native_controllers = a.native_controllers
      /\ arg.other_controllers = a.other_controllers
  <2>1. FromDoc(Document(a)).controller =
          MapControllers(a.native_controllers, a.other_controllers)
    BY FullDocument, FieldsOf DEF DocumentFields
  <2>2. /\ a.native_controllers \in SUBSET SolKeys
        /\ a.other_controllers \in SUBSET ForeignDids
    BY DEF Valid, DidAccounts
  <2>3. /\ arg.native_controllers = NativeIn(FromDoc(Document(a)).controller)
        /\ arg.other_controllers =
             {t \in FromDoc(Document(a)).controller : ~IsDidSol(t)}
    BY DEF UpdateArgsFrom
  <2> HIDE DEF arg
  <2>4. QED
    BY <2>1, <2>2, <2>3, ControllersFound
<1> HIDE DEF arg
<1>3. CanSetServices(arg.services)
  BY <1>1 DEF CanSetServices, Valid
<1>4. CanSetVerificationMethods({}, arg.verification_methods)
  BY <1>1, MethodsAccepted
<1>5. CanSetControllers(a, arg.native_controllers, arg.other_controllers)
  BY <1>2 DEF CanSetControllers, Valid
<1>6. Updated(a, arg) = Rewritten(a)
  <2>1. SetServices(a, arg.services) = a
    BY <1>1 DEF SetServices, Valid, DidAccounts
  <2>2. SetVerificationMethods(a, {}, arg.verification_methods) = Rewritten(a)
    BY <1>1, MethodsRewritten
  <2>3. SetControllers(Rewritten(a), a.native_controllers, a.other_controllers)
        = Rewritten(a)
    BY DEF SetControllers, Rewritten, Valid, DidAccounts
  <2>4. QED
    BY <1>2, <2>1, <2>2, <2>3 DEF Updated
<1>7. QED
  BY <1>3, <1>4, <1>5, <1>6 DEF arg

-----------------------------------------------------------------------------
(* The accounts, and the documents that the client holds of them.          *)

\* The account of a DID that has none, as resolve makes it up.
LEMMA InitValid ==
  ASSUME NEW d \in SolKeys
  PROVE  Valid(d, InitAccount(d, DefaultVerificationMethodFlags))
BY DefaultAssumption, NonceAssumption
   DEF Valid, DidAccounts, InitAccount, VerificationMethods, KeyData,
       DefaultVerificationMethodFlags, CAPABILITY_INVOCATION, OWNERSHIP_PROOF,
       Ed25519VerificationKey2018, UniqueByFragment, Fragmented

\* The document of an account has the type of documents.
LEMMA DocumentTyped ==
  ASSUME NEW d, NEW a, Valid(d, a)
  PROVE  IsDocument(Document(a))
<1> DEFINE doc == Document(a)
<1>1. /\ DOMAIN doc = DocumentFields
      /\ doc.controller = MapControllers(a.native_controllers, a.other_controllers)
      /\ doc.verificationMethod =
           {[id |-> IdOf(a, m.fragment), type |-> m.method_type,
             text |-> KeyText(m)] : m \in Visible(AllMethods(a))}
      /\ doc.service = {[id |-> IdOf(a, s.fragment), endpoint |-> s.endpoint] :
                          s \in a.services}
  BY FieldsOf
<1> HIDE DEF doc
<1>2. ASSUME NEW vm \in doc.verificationMethod
      PROVE  /\ vm.id.fragment \in Fragments
             /\ vm \in [id: {vm.id}, type: 0..255,
                        text: [key: KeyData, prefixed: BOOLEAN]]
  <2>1. PICK m \in Visible(AllMethods(a)) :
          vm = [id |-> IdOf(a, m.fragment), type |-> m.method_type,
                text |-> KeyText(m)]
    BY <1>1, <1>2
  <2>2. m \in VerificationMethods
    BY DEF Visible, AllMethods, Valid, DidAccounts
  <2>3. KeyText(m) \in [key: KeyData, prefixed: BOOLEAN]
    BY <2>2 DEF KeyText, VerificationMethods
  <2>4. vm.id.fragment = m.fragment
    BY <2>1, IdParts
  <2>5. QED
    BY <2>1, <2>2, <2>3, <2>4 DEF VerificationMethods
<1>3. ASSUME NEW s \in doc.service
      PROVE  s.id.fragment \in Fragments /\ s \in [id: {s.id}, endpoint: Endpoints]
  <2>1. PICK v \in a.services : s = [id |-> IdOf(a, v.fragment), endpoint |-> v.endpoint]
    BY <1>1, <1>3
  <2>2. v \in Services
    BY DEF Valid, DidAccounts
  <2>3. s.id.fragment = v.fragment
    BY <2>1, IdParts
  <2>4. QED
    BY <2>1, <2>2, <2>3 DEF Services
<1>4. ASSUME NEW t \in doc.controller, ~IsDidSol(t)
      PROVE  t \in OtherDids
  <2>1. \A k : IsDidSol(ToString(Create(k, {Cluster})))
    BY SolAssumption DEF IsDidSol, ToString, Text
  <2>2. t \in a.other_controllers
    BY <1>1, <1>4, <2>1 DEF MapControllers
  <2>3. QED
    BY <2>2 DEF Valid, DidAccounts
<1>5. "id" \in DOMAIN doc
  BY <1>1 DEF DocumentFields
<1>6. QED
  BY <1>2, <1>3, <1>4, <1>5 DEF IsDocument, doc

\* What fromDoc adds to a document is of a generative DID.
LEMMA FullTyped ==
  ASSUME NEW document, IsDocument(document), NEW d \in SolKeys,
         document.id = ToString(Create(d, {Cluster}))
  PROVE  LET full == FromDoc(document) IN
         /\ IsDocument(full)
         /\ DOMAIN full = DocumentFields
         /\ full.id = document.id
<1> DEFINE id == CHOOSE i \in Parse(document.id) : TRUE
           sparse == Sparse(d)
           full == FromDoc(document)
<1>1. Parse(ToString(Create(d, {Cluster}))) = {Create(d, {Cluster})}
  BY Identified, WordAssumption
<1>2. Parse(document.id) = {Create(d, {Cluster})}
  BY <1>1
<1>3. id.authority = d
  <2>1. id \in Parse(document.id)
    BY <1>2
  <2> HIDE DEF id
  <2>2. id = Create(d, {Cluster})
    BY <1>2, <2>1
  <2>3. QED
    BY <2>2 DEF Create
<1>4. IsDocument(sparse) /\ DOMAIN sparse = DocumentFields
  <2> DEFINE a == InitAccount(d, DefaultVerificationMethodFlags)
  <2>1. Valid(d, a) /\ sparse = Document(a)
    BY InitValid DEF Sparse
  <2> HIDE DEF a, sparse
  <2>2. QED
    BY <2>1, DocumentTyped, FieldsOf
<1>5. full = [field \in DOMAIN sparse |->
                IF field \in DOMAIN document THEN document[field] ELSE sparse[field]]
  <2>1. full = [field \in DOMAIN Sparse(id.authority) |->
                  IF field \in DOMAIN document THEN document[field]
                  ELSE Sparse(id.authority)[field]]
    BY DEF FromDoc
  <2>2. Sparse(id.authority) = sparse
    BY <1>3
  <2> HIDE DEF id, sparse, full
  <2>3. QED
    BY <2>1, <2>2
<1> HIDE DEF sparse, full
<1>6. DOMAIN full = DocumentFields
  BY <1>4, <1>5
<1>7. \A field \in DocumentFields :
        full[field] = IF field \in DOMAIN document THEN document[field] ELSE sparse[field]
  BY <1>4, <1>5
<1>8. {"id", "verificationMethod", "service", "controller"} \subseteq DocumentFields
  BY DEF DocumentFields
<1>9. full.id = document.id
  BY <1>7, <1>8 DEF IsDocument
<1>10. full.verificationMethod \in {document.verificationMethod, sparse.verificationMethod}
       /\ full.service \in {document.service, sparse.service}
       /\ full.controller \in {document.controller, sparse.controller}
  BY <1>7, <1>8
<1>11. IsDocument(full)
  <2>1. ASSUME NEW vm \in full.verificationMethod
        PROVE  /\ vm.id.fragment \in Fragments
               /\ vm \in [id: {vm.id}, type: 0..255,
                          text: [key: KeyData, prefixed: BOOLEAN]]
    BY <1>4, <1>7, <1>8, <2>1 DEF IsDocument
  <2>2. ASSUME NEW s \in full.service
        PROVE  s.id.fragment \in Fragments /\ s \in [id: {s.id}, endpoint: Endpoints]
    BY <1>4, <1>7, <1>8, <2>2 DEF IsDocument
  <2>3. ASSUME NEW t \in full.controller, ~IsDidSol(t)
        PROVE  t \in OtherDids
    BY <1>4, <1>7, <1>8, <2>3 DEF IsDocument
  <2>4. "id" \in DOMAIN full
    BY <1>6, <1>8
  <2>5. QED
    BY <2>1, <2>2, <2>3, <2>4 DEF IsDocument
<1>12. QED
  BY <1>6, <1>9, <1>11 DEF full

\* What updateFromDoc makes of a document are arguments of update.
LEMMA ArgsTyped ==
  ASSUME NEW document, IsDocument(document), NEW d \in SolKeys,
         document.id = ToString(Create(d, {Cluster}))
  PROVE  UpdateArgsFrom(document) \in UpdateArgs
<1> DEFINE full == FromDoc(document)
           arg == UpdateArgsFrom(document)
<1>1. IsDocument(full) /\ DOMAIN full = DocumentFields
  BY FullTyped
<1>2. {"id", "verificationMethod", "service", "controller"} \subseteq DOMAIN full
  BY <1>1 DEF DocumentFields
<1>3. arg = [verification_methods |->
               {[fragment |-> vm.id.fragment,
                 flags |-> FlagArray(FlagsFrom(full, vm.id.fragment)),
                 method_type |-> vm.type, key_data |-> vm.text.key] :
                  vm \in full.verificationMethod},
             services |->
               {[fragment |-> s.id.fragment, endpoint |-> s.endpoint] :
                  s \in full.service},
             native_controllers |-> NativeIn(full.controller),
             other_controllers |-> {t \in full.controller : ~IsDidSol(t)}]
  BY DEF UpdateArgsFrom
<1> HIDE DEF full, arg
<1>4. ASSUME NEW vm \in full.verificationMethod
      PROVE  [fragment |-> vm.id.fragment,
              flags |-> FlagArray(FlagsFrom(full, vm.id.fragment)),
              method_type |-> vm.type, key_data |-> vm.text.key]
                \in VerificationMethods
  <2>1. FlagArray(FlagsFrom(full, vm.id.fragment)) \in SUBSET (0..15)
    BY DEF FlagArray, KnownFlags
  <2>2. /\ vm.id.fragment \in Fragments
        /\ vm \in [id: {vm.id}, type: 0..255,
                   text: [key: KeyData, prefixed: BOOLEAN]]
    BY <1>1, <1>2 DEF IsDocument
  <2>3. vm.type \in 0..255 /\ vm.text.key \in KeyData
    BY <2>2
  <2>4. QED
    BY <2>1, <2>2, <2>3 DEF VerificationMethods
<1>5. ASSUME NEW s \in full.service
      PROVE  [fragment |-> s.id.fragment, endpoint |-> s.endpoint] \in Services
  BY <1>1, <1>2 DEF IsDocument, Services
<1>6. NativeIn(full.controller) \subseteq SolKeys
  BY DEF NativeIn, Parse
<1>7. {t \in full.controller : ~IsDidSol(t)} \subseteq OtherDids
  BY <1>1, <1>2 DEF IsDocument
<1>8. QED
  BY <1>3, <1>4, <1>5, <1>6, <1>7 DEF UpdateArgs, arg

\* The documents that resolve gave: each is of an account that the DID had.
Resolved(document) ==
  \E d \in Dids, a \in DidAccounts : Valid(d, a) /\ document = Document(a)

DocInv ==
  /\ IInv
  /\ \A document \in held : Resolved(document)
  /\ legacy \in [Dids -> SUBSET LegacyDocs]

LEMMA HeldTyped ==
  ASSUME DocInv, NEW document \in held \cup HandMade
  PROVE  IsDocument(document)
BY DocumentTyped, HandMadeAssumption DEF DocInv, Resolved

LEMMA SparseResolved ==
  ASSUME NEW d \in Dids
  PROVE  Resolved(Sparse(d))
<1>1. Valid(d, InitAccount(d, DefaultVerificationMethodFlags))
  BY InitValid, InputAssumption
<1>2. QED
  BY <1>1 DEF Resolved, Sparse, Valid

LEMMA DocInvStep == DocInv /\ ReadingInv /\ [DocNext]_docVars => DocInv'
<1> SUFFICES ASSUME DocInv, ReadingInv, [DocNext]_docVars
             PROVE  DocInv'
  OBVIOUS
<1>1. IInv /\ legacy \in [Dids -> SUBSET LegacyDocs]
  BY DEF DocInv
<1>2. ASSUME UNCHANGED <<vars, legacy>>, \A document \in held' : Resolved(document)
      PROVE  DocInv'
  <2>1. IInv'
    BY <1>1, <1>2, InvStep
  <2>2. QED
    BY <1>1, <1>2, <2>1 DEF DocInv, Resolved
<1>3. ASSUME UNCHANGED held, IInv', legacy' \in [Dids -> SUBSET LegacyDocs]
      PROVE  DocInv'
  BY <1>3 DEF DocInv, Resolved
<1>4. ASSUME NEW d \in Dids, NEW checkLegacy \in BOOLEAN, Resolve(d, checkLegacy)
      PROVE  DocInv'
  <2>1. Resolved(Document(data[d]))
    BY <1>1 DEF IInv, Resolved, Valid
  <2>2. \A document \in held' : Resolved(document)
    BY <1>4, <2>1, SparseResolved DEF Resolve
  <2>3. QED
    BY <1>2, <1>4, <2>2 DEF Resolve
<1>5. ASSUME NEW d \in Dids, IsMigratable(d)
      PROVE  DocInv'
  BY <1>2, <1>5 DEF IsMigratable
<1>6. ASSUME NEW r \in Pending, GetLegacyData(r)
      PROVE  DocInv'
  <2>1. r.did \in Dids
    BY DEF Pending, ReadingInv, Readings
  <2>2. \A document \in held' : Resolved(document)
    BY <1>6, <2>1, SparseResolved DEF GetLegacyData, DocInv
  <2>3. QED
    BY <1>2, <1>6, <2>2 DEF GetLegacyData
<1>7. CASE UpdateStep
  <2>1. PICK d \in Dids, document \in held \cup HandMade, authority \in SolKeys :
          \E eth \in UpdateSignatures(document) :
            UpdateFromDoc(d, document, authority, eth)
    BY <1>7 DEF UpdateStep
  <2>2. PICK eth \in UpdateSignatures(document) :
          UpdateFromDoc(d, document, authority, eth)
    BY <2>1
  <2> DEFINE arg == UpdateArgsFrom(document)
  <2>3. d \in SolKeys
    BY InputAssumption
  <2>4. /\ document.id = ToString(Create(d, {Cluster}))
        /\ Update(d, authority, eth, arg) /\ UNCHANGED <<held, legacy>>
    BY <2>2 DEF UpdateFromDoc
  <2>5. arg \in UpdateArgs
    BY <2>3, <2>4, HeldTyped, ArgsTyped
  <2>6. eth \in Signatures(<<"update", arg>>)
    BY DEF UpdateSignatures
  <2> HIDE DEF arg
  <2>7. IInv'
    BY <1>1, <2>4, <2>5, <2>6, UpdateInv
  <2>8. QED
    BY <1>1, <1>3, <2>4, <2>7
<1>8. ASSUME NEW d \in Dids, MigrateStep(d)
      PROVE  DocInv'
  <2>1. PICK doc \in legacy[d] :
          /\ Migrate(d, doc)
          /\ legacy' \in {legacy, [legacy EXCEPT ![d] = {}]}
          /\ UNCHANGED held
    BY <1>8 DEF MigrateStep
  <2>2. doc \in LegacyDocs
    BY <1>1
  <2>3. IInv'
    BY <1>1, <2>1, <2>2, InvStep DEF Next
  <2>4. QED
    BY <1>1, <1>3, <2>1, <2>3
<1>9. ASSUME NEW d \in Dids, CloseLegacy(d)
      PROVE  DocInv'
  <2>1. IInv'
    BY <1>1, <1>9, InvStep DEF CloseLegacy
  <2>2. QED
    BY <1>1, <1>3, <1>9, <2>1 DEF CloseLegacy
<1>10. ASSUME NEW d \in Dids, OtherStep(d)
       PROVE  DocInv'
  <2>1. Next /\ UNCHANGED <<held, legacy>>
    BY <1>10 DEF OtherStep, Next
  <2>2. IInv'
    BY <1>1, <2>1, InvStep
  <2>3. QED
    BY <1>1, <1>3, <2>1, <2>2
<1>11. CASE UNCHANGED docVars
  <2>1. IInv'
    BY <1>1, <1>11, InvStep DEF docVars, vars
  <2>2. QED
    BY <1>1, <1>3, <1>11, <2>1 DEF docVars
<1>12. QED
  BY <1>4, <1>5, <1>6, <1>7, <1>8, <1>9, <1>10, <1>11 DEF DocNext

\* The invariant of the accounts holds whatever documents are written back, and
\* what the client holds is the document of an account that there was.
LEMMA DocInvariance == DocSpec => [](DocInv /\ ReadingInv)
<1>1. DocInit => DocInv /\ ReadingInv
  <2> SUFFICES ASSUME DocInit PROVE DocInv /\ ReadingInv
    OBVIOUS
  <2>1. IInv
    BY InvInit DEF DocInit
  <2>2. held = {} /\ reading = {}
    BY DEF DocInit
  <2>3. legacy \in [Dids -> SUBSET LegacyDocs]
    BY DEF DocInit
  <2>4. QED
    BY <2>1, <2>2, <2>3 DEF DocInv, ReadingInv
<1>2. QED
  BY <1>1, DocInvStep, ReadingStep, PTL DEF DocSpec

-----------------------------------------------------------------------------
(* What is written back is what resolve gives next.                        *)

\* The ids of the DID d.
OwnId(d, f) == ToString(WithUrl(Create(d, {Cluster}), f))

\* An id in full, as the documents of Canonical have them.
FullId(document, t) ==
  IF t.method = NoText THEN [document.id EXCEPT !.fragment = t.fragment] ELSE t

LEMMA OwnIdIs ==
  ASSUME NEW d, NEW f
  PROVE  /\ OwnId(d, f) = [ToString(Create(d, {Cluster})) EXCEPT !.fragment = f]
         /\ OwnId(d, f).method = "sol"
<1> DEFINE path == Append(ClusterString({Cluster}), d)
           plain == Create(d, {Cluster})
           id == WithUrl(plain, f)
           t == ToString(plain)
<1>1. plain = [clusterType |-> {Cluster}, authority |-> d, fragment |-> NoText]
  BY DEF Create
<1> HIDE DEF plain
<1>2. id = [clusterType |-> {Cluster}, authority |-> d, fragment |-> f]
  BY <1>1, WithUrlIs
<1> HIDE DEF id
<1>3. ToString(id) = [method |-> "sol", path |-> path, fragment |-> f]
  BY <1>2 DEF ToString, Text
<1>4. t = [method |-> "sol", path |-> path, fragment |-> NoText]
  BY <1>1 DEF ToString, Text
<1> HIDE DEF path, t
<1>5. [t EXCEPT !.fragment = f] = [method |-> "sol", path |-> path, fragment |-> f]
  BY <1>4
<1>6. QED
  BY <1>3, <1>5 DEF OwnId, id, t, plain

\* An id whose fragment the client can find is one of the DID.
LEMMA FullIdIs ==
  ASSUME NEW d, NEW document, document.id = ToString(Create(d, {Cluster})),
         NEW t, ParseFragmentFromId(Create(d, {Cluster}), t) # {}
  PROVE  FullId(document, t) = OwnId(d, t.fragment)
<1>1. CASE t = SelfReference(t.fragment)
  <2>1. t.method = NoText
    BY <1>1 DEF SelfReference, Text
  <2>2. QED
    BY <2>1, OwnIdIs DEF FullId
<1>2. CASE t = OwnId(d, t.fragment)
  <2>1. t.method # NoText
    BY <1>2, OwnIdIs, NoTextDiffers
  <2>2. QED
    BY <1>2, <2>1 DEF FullId
<1>3. QED
  BY <1>1, <1>2 DEF ParseFragmentFromId, OwnId

\* The methods and services that update is given.
MethodOf(full, vm) ==
  [fragment |-> vm.id.fragment,
   flags |-> FlagArray(FlagsFrom(full, vm.id.fragment)),
   method_type |-> vm.type, key_data |-> vm.text.key]
ServiceOf(s) == [fragment |-> s.id.fragment, endpoint |-> s.endpoint]

LEMMA ArgsOf ==
  ASSUME NEW document
  PROVE  LET full == FromDoc(document)
             arg == UpdateArgsFrom(document)
         IN /\ arg.verification_methods = {MethodOf(full, vm) : vm \in full.verificationMethod}
            /\ arg.services = {ServiceOf(s) : s \in full.service}
            /\ arg.native_controllers = NativeIn(full.controller)
            /\ arg.other_controllers = {t \in full.controller : ~IsDidSol(t)}
BY DEF UpdateArgsFrom, MethodOf, ServiceOf

\* A method of the update has the flags of the lists that name it, which hide
\* nothing.
LEMMA FlagsOfLists ==
  ASSUME PlainNames, NEW full, NEW f \in Fragments
  PROVE  FlagArray(FlagsFrom(full, f)) =
           {b \in Lists : \E t \in full[ListOf(b)] : t.fragment = f}
<1>1. \A b \in Lists :
        (\E t \in full[ListOf(b)] : t.fragment \in Fragments /\ f \in HashSuffixes[t.fragment])
        <=> \E t \in full[ListOf(b)] : t.fragment = f
  BY DEF PlainNames
<1>2. FlagsFrom(full, f) = {b \in Lists : \E t \in full[ListOf(b)] : t.fragment = f}
  BY <1>1 DEF FlagsFrom
<1>3. QED
  BY <1>2 DEF FlagArray, Lists, KnownFlags

\* The default method of the update becomes the initial one, so that the
\* methods of the account are those of the update.
LEMMA MethodsReplaced ==
  ASSUME NEW d, NEW a, Valid(d, a), NEW arg \in UpdateArgs,
         CanSetVerificationMethods({}, arg.verification_methods),
         NEW dm \in arg.verification_methods, dm.fragment = DefaultFragment,
         dm.method_type = Ed25519VerificationKey2018, dm.key_data = d
  PROVE  LET b == Updated(a, arg) IN
         /\ AllMethods(b) = arg.verification_methods
         /\ b.initial_verification_method.key_data = d
         /\ b.services = arg.services
         /\ b.native_controllers = arg.native_controllers
         /\ b.other_controllers = arg.other_controllers
<1> DEFINE initial == a.initial_verification_method
           methods == arg.verification_methods
           served == SetServices(a, arg.services)
           b == Updated(a, arg)
<1>1. /\ initial \in VerificationMethods /\ a \in DidAccounts
      /\ initial.key_data = d /\ initial.fragment = DefaultFragment
      /\ initial.method_type = Ed25519VerificationKey2018
  BY DEF Valid, DidAccounts
<1>2. methods \subseteq VerificationMethods /\ arg.services \subseteq Services
      /\ arg.native_controllers \subseteq SolKeys
      /\ arg.other_controllers \subseteq OtherDids
  BY DEF UpdateArgs
<1>3. Fragmented(methods, DefaultFragment) = {dm}
  BY DEF Fragmented, CanSetVerificationMethods, UniqueByFragment
<1>4. (CHOOSE m \in {dm} : TRUE) = dm
  OBVIOUS
<1>5. /\ served \in DidAccounts
      /\ served.initial_verification_method = initial
      /\ served.services = arg.services
  BY <1>1, <1>2 DEF SetServices, DidAccounts
<1> HIDE DEF served
<1>6. SetVerificationMethods(served, {}, methods) =
        [served EXCEPT !.initial_verification_method.flags = dm.flags,
                       !.verification_methods = methods \ {dm}]
  BY <1>1, <1>3, <1>4, <1>5 DEF SetVerificationMethods
<1>7. [initial EXCEPT !.flags = dm.flags] = dm
  <2>1. dm \in VerificationMethods
    BY <1>2
  <2>2. QED
    BY <1>1, <2>1 DEF VerificationMethods
<1> DEFINE set == SetVerificationMethods(served, {}, methods)
<1>8. /\ set \in DidAccounts /\ set.initial_verification_method = dm
      /\ set.verification_methods = methods \ {dm}
      /\ set.services = arg.services
  <2> DEFINE others == methods \ {dm}
  <2>1. set = [served EXCEPT !.initial_verification_method = dm,
                             !.verification_methods = others]
    BY <1>5, <1>6, <1>7
  <2>2. dm \in VerificationMethods /\ others \in SUBSET VerificationMethods
    BY <1>2
  <2> HIDE DEF set, others
  <2>3. QED
    BY <1>5, <2>1, <2>2 DEF DidAccounts, others
<1> HIDE DEF set
<1>9. b = SetControllers(set, arg.native_controllers, arg.other_controllers)
  BY DEF Updated, set, served
<1> HIDE DEF b
<1>10. /\ b.initial_verification_method = dm
       /\ b.verification_methods = methods \ {dm}
       /\ b.services = arg.services
       /\ b.native_controllers = arg.native_controllers
       /\ b.other_controllers = arg.other_controllers
  BY <1>8, <1>9 DEF SetControllers, DidAccounts
<1>11. AllMethods(b) = methods
  BY <1>10 DEF AllMethods
<1>12. QED
  BY <1>10, <1>11 DEF b

\* Documents are what their fields are.
LEMMA DocumentExtent ==
  ASSUME NEW a
  PROVE  Document(a) = [field \in DocumentFields |-> Document(a)[field]]
BY DEF Document, DocumentFields

LEMMA ControllersBack ==
  ASSUME NEW texts,
         \A t \in texts : IsDidSol(t) => \E k \in SolKeys : t = ToString(Create(k, {Cluster}))
  PROVE  MapControllers(NativeIn(texts), {t \in texts : ~IsDidSol(t)}) = texts
<1> DEFINE T(k) == ToString(Create(k, {Cluster}))
           own == {t \in texts : IsDidSol(t)}
           native == NativeIn(texts)
<1>1. \A k \in SolKeys : Parse(T(k)) = {Create(k, {Cluster})}
  BY Identified, WordAssumption
<1>2. \A k : Create(k, {Cluster}).authority = k
  BY DEF Create
<1> HIDE DEF T
<1>3. \A t \in own : \E k \in SolKeys : t = T(k)
  BY DEF T
<1>4. \A t \in own : \A id \in Parse(t) : T(id.authority) = t
  BY <1>1, <1>2, <1>3
<1>5. \A t \in own : \E id \in Parse(t) : T(id.authority) = t
  BY <1>1, <1>2, <1>3
<1>6. native = {id.authority : id \in UNION {Parse(t) : t \in own}}
  BY DEF NativeIn
<1>7. MapControllers(native, {t \in texts : ~IsDidSol(t)}) =
        {T(k) : k \in native} \cup {t \in texts : ~IsDidSol(t)}
  BY DEF MapControllers, T
<1>8. {T(k) : k \in native} = own
  <2> HIDE DEF native, own
  <2>1. ASSUME NEW k \in native
        PROVE  T(k) \in own
    <3>1. PICK id \in UNION {Parse(t) : t \in own} : k = id.authority
      BY <1>6
    <3>2. PICK t \in own : id \in Parse(t)
      BY <3>1
    <3>3. QED
      BY <1>4, <3>1, <3>2
  <2>2. ASSUME NEW t \in own
        PROVE  \E k \in native : t = T(k)
    <3>1. PICK id \in Parse(t) : T(id.authority) = t
      BY <1>5
    <3>2. id.authority \in native
      BY <1>6, <3>1
    <3>3. QED
      BY <3>1, <3>2
  <2>3. QED
    BY <2>1, <2>2
<1>9. QED
  BY <1>7, <1>8

\* The fields of a document with all that fromDoc adds.
LEMMA CanonicalFields ==
  ASSUME NEW document, DOMAIN FromDoc(document) = DocumentFields
  PROVE  LET full == FromDoc(document)
             canonical == Canonical(document)
         IN /\ canonical = [field \in DocumentFields |-> canonical[field]]
            /\ canonical.id = full.id
            /\ canonical.controller = full.controller
            /\ canonical.verificationMethod =
                 {[e EXCEPT !.id = FullId(document, @)] : e \in full.verificationMethod}
            /\ canonical.service =
                 {[e EXCEPT !.id = FullId(document, @)] : e \in full.service}
            /\ \A b \in Lists :
                 canonical[ListOf(b)] = {FullId(document, t) : t \in full[ListOf(b)]}
<1> DEFINE full == FromDoc(document)
           canonical == Canonical(document)
           entries(field) == {[e EXCEPT !.id = FullId(document, @)] : e \in full[field]}
           ids(field) == {FullId(document, t) : t \in full[field]}
           listed(field) == \E b \in Lists : field = ListOf(b)
<1>1. canonical =
        [field \in DocumentFields |->
           IF field \in {"verificationMethod", "service"} THEN entries(field)
           ELSE IF listed(field) THEN ids(field)
           ELSE full[field]]
  BY DEF Canonical, FullId
<1>2. \A b \in Lists : ListOf(b) \in {"authentication", "assertionMethod", "keyAgreement",
                                      "capabilityInvocation", "capabilityDelegation"}
  BY DEF Lists, ListOf, ListNames
<1>3. ~listed("id") /\ ~listed("controller")
  BY <1>2
<1>4. \A b \in Lists : /\ ListOf(b) \in DocumentFields /\ listed(ListOf(b))
                       /\ ListOf(b) \notin {"verificationMethod", "service"}
  BY <1>2 DEF DocumentFields
<1>5. {"id", "controller", "verificationMethod", "service"} \subseteq DocumentFields
  BY DEF DocumentFields
<1> HIDE DEF canonical, full, entries, ids, listed
<1>6. /\ canonical = [field \in DocumentFields |-> canonical[field]]
      /\ canonical.id = full.id /\ canonical.controller = full.controller
      /\ canonical.verificationMethod = entries("verificationMethod")
      /\ canonical.service = entries("service")
      /\ \A b \in Lists : canonical[ListOf(b)] = ids(ListOf(b))
  BY <1>1, <1>3, <1>4, <1>5
<1>7. QED
  BY <1>6 DEF canonical, full, entries, ids

\* An account that was updated from a document with all it can have, and no
\* more, has this document.
LEMMA WrittenBack ==
  ASSUME PlainNames, NEW d \in SolKeys, NEW a, Valid(d, a),
         NEW document, IsDocument(document),
         document.id = ToString(Create(d, {Cluster})),
         CanUpdateFrom(document), Complete(d, document),
         CanSetVerificationMethods({}, UpdateArgsFrom(document).verification_methods)
  PROVE  Document(Updated(a, UpdateArgsFrom(document))) = Canonical(document)
<1> DEFINE full == FromDoc(document)
           canonical == Canonical(document)
           arg == UpdateArgsFrom(document)
           own == Create(d, {Cluster})
           b == Updated(a, arg)
           result == Document(b)
<1>1. IsDocument(full) /\ DOMAIN full = DocumentFields /\ full.id = document.id
  BY FullTyped
<1>2. {"id", "controller", "verificationMethod", "service"} \subseteq DOMAIN full
  BY <1>1 DEF DocumentFields
<1>3. Parse(document.id) = {own}
  BY Identified, WordAssumption
<1>4. /\ \A vm \in full.verificationMethod :
           ParseFragmentFromId(own, vm.id) # {} /\ vm.text.prefixed
      /\ \A s \in full.service : ParseFragmentFromId(own, s.id) # {}
  BY <1>3 DEF CanUpdateFrom, CanParseKey
<1>5. /\ \E vm \in full.verificationMethod : vm.id.fragment = DefaultFragment
      /\ \A vm \in full.verificationMethod :
           /\ vm.text.prefixed <=> vm.type # EcdsaSecp256k1VerificationKey2019
           /\ vm.id.fragment = DefaultFragment =>
                vm.type = Ed25519VerificationKey2018 /\ vm.text.key = d
      /\ \A l \in Lists : \A t \in full[ListOf(l)] :
           /\ \E vm \in full.verificationMethod : t.fragment = vm.id.fragment
           /\ ParseFragmentFromId(own, t) # {}
      /\ \A t \in full.controller :
           IsDidSol(t) => \E k \in SolKeys : t = ToString(Create(k, {Cluster}))
  BY DEF Complete
<1>6. arg \in UpdateArgs
  BY ArgsTyped
<1>7. /\ arg.verification_methods = {MethodOf(full, vm) : vm \in full.verificationMethod}
      /\ arg.services = {ServiceOf(s) : s \in full.service}
      /\ arg.native_controllers = NativeIn(full.controller)
      /\ arg.other_controllers = {t \in full.controller : ~IsDidSol(t)}
  BY ArgsOf
<1>8. \A t : ParseFragmentFromId(own, t) # {} => FullId(document, t) = OwnId(d, t.fragment)
  BY FullIdIs
<1>9. /\ canonical = [field \in DocumentFields |-> canonical[field]]
      /\ canonical.id = full.id
      /\ canonical.controller = full.controller
      /\ canonical.verificationMethod =
           {[e EXCEPT !.id = FullId(document, @)] : e \in full.verificationMethod}
      /\ canonical.service = {[e EXCEPT !.id = FullId(document, @)] : e \in full.service}
      /\ \A l \in Lists :
           canonical[ListOf(l)] = {FullId(document, t) : t \in full[ListOf(l)]}
  BY <1>1, CanonicalFields
<1>10. CanSetVerificationMethods({}, arg.verification_methods)
  OBVIOUS
<1>11. document.id = ToString(own)
  OBVIOUS
<1> HIDE DEF full, canonical, arg, own
<1>12. PICK dm \in arg.verification_methods :
         /\ dm.fragment = DefaultFragment
         /\ dm.method_type = Ed25519VerificationKey2018 /\ dm.key_data = d
  <2>1. PICK vm \in full.verificationMethod : vm.id.fragment = DefaultFragment
    BY <1>5
  <2>2. vm.type = Ed25519VerificationKey2018 /\ vm.text.key = d
    BY <1>5, <2>1
  <2>3. MethodOf(full, vm) \in arg.verification_methods
    BY <1>7
  <2>4. /\ MethodOf(full, vm).fragment = vm.id.fragment
        /\ MethodOf(full, vm).method_type = vm.type
        /\ MethodOf(full, vm).key_data = vm.text.key
    BY DEF MethodOf
  <2>5. QED
    BY <2>1, <2>2, <2>3, <2>4
<1>13. /\ AllMethods(b) = arg.verification_methods
       /\ b.initial_verification_method.key_data = d
       /\ b.services = arg.services
       /\ b.native_controllers = arg.native_controllers
       /\ b.other_controllers = arg.other_controllers
  BY <1>6, <1>10, <1>12, MethodsReplaced
<1>14. IdentifierOf(b) = own /\ \A f : IdOf(b, f) = OwnId(d, f)
  BY <1>13 DEF IdentifierOf, IdOf, OwnId, own
<1> HIDE DEF b
<1>15. /\ DOMAIN result = DocumentFields
       /\ result.id = ToString(IdentifierOf(b))
       /\ result.controller = MapControllers(b.native_controllers, b.other_controllers)
       /\ result.verificationMethod =
            {[id |-> IdOf(b, m.fragment), type |-> m.method_type,
              text |-> KeyText(m)] : m \in Visible(AllMethods(b))}
       /\ result.service =
            {[id |-> IdOf(b, s.fragment), endpoint |-> s.endpoint] : s \in b.services}
  BY FieldsOf
<1>16. \A l \in Lists :
         result[ListOf(l)] = {IdOf(b, m.fragment) :
                                m \in {n \in Visible(AllMethods(b)) : l \in n.flags}}
  BY ListsOf
<1>17. result = [field \in DocumentFields |-> result[field]]
  BY DocumentExtent
<1> HIDE DEF result
<1>18. ASSUME NEW vm \in full.verificationMethod
       PROVE  /\ vm.id.fragment \in Fragments
              /\ vm \in [id: {vm.id}, type: 0..255,
                         text: [key: KeyData, prefixed: BOOLEAN]]
              /\ MethodOf(full, vm).fragment = vm.id.fragment
              /\ MethodOf(full, vm).flags =
                   {l \in Lists : \E t \in full[ListOf(l)] : t.fragment = vm.id.fragment}
  <2>1. /\ vm.id.fragment \in Fragments
        /\ vm \in [id: {vm.id}, type: 0..255,
                   text: [key: KeyData, prefixed: BOOLEAN]]
    BY <1>1, <1>2 DEF IsDocument
  <2>2. QED
    BY <2>1, FlagsOfLists DEF MethodOf
<1>19. Visible(AllMethods(b)) = {MethodOf(full, vm) : vm \in full.verificationMethod}
  <2>1. \A vm \in full.verificationMethod : DidDocHidden \notin MethodOf(full, vm).flags
    BY <1>18 DEF DidDocHidden, Lists
  <2>2. QED
    BY <1>7, <1>13, <2>1 DEF Visible
<1>20. result.id = canonical.id
  BY <1>1, <1>9, <1>11, <1>14, <1>15
<1>21. result.controller = canonical.controller
  <2> DEFINE texts == full.controller
  <2>1. result.controller = MapControllers(NativeIn(texts), {t \in texts : ~IsDidSol(t)})
    BY <1>7, <1>13, <1>15
  <2>2. \A t \in texts :
          IsDidSol(t) => \E k \in SolKeys : t = ToString(Create(k, {Cluster}))
    BY <1>5
  <2> HIDE DEF texts
  <2>3. result.controller = texts
    BY <2>1, <2>2, ControllersBack
  <2>4. QED
    BY <1>9, <2>3 DEF texts
<1>22. result.verificationMethod = canonical.verificationMethod
  <2> DEFINE Entry(m) ==
        [id |-> OwnId(d, m.fragment), type |-> m.method_type, text |-> KeyText(m)]
             Full(vm) == [vm EXCEPT !.id = FullId(document, @)]
  <2>1. result.verificationMethod =
          {Entry(m) : m \in {MethodOf(full, vm) : vm \in full.verificationMethod}}
    BY <1>14, <1>15, <1>19
  <2>2. canonical.verificationMethod = {Full(vm) : vm \in full.verificationMethod}
    BY <1>9
  <2>3. ASSUME NEW vm \in full.verificationMethod
        PROVE  Entry(MethodOf(full, vm)) = Full(vm)
    <3>1. vm \in [id: {vm.id}, type: 0..255, text: [key: KeyData, prefixed: BOOLEAN]]
      BY <1>18
    <3>2. FullId(document, vm.id) = OwnId(d, vm.id.fragment)
      BY <1>4, <1>8
    <3>3. Full(vm) = [id |-> OwnId(d, vm.id.fragment), type |-> vm.type, text |-> vm.text]
      BY <3>1, <3>2
    <3>4. KeyText(MethodOf(full, vm)) = vm.text
      BY <1>5, <3>1 DEF KeyText, MethodOf
    <3>5. QED
      BY <3>3, <3>4 DEF MethodOf
  <2> HIDE DEF Entry, Full
  <2>4. QED
    BY <2>1, <2>2, <2>3
<1>23. result.service = canonical.service
  <2> DEFINE Entry(s) == [id |-> OwnId(d, s.fragment), endpoint |-> s.endpoint]
             Full(s) == [s EXCEPT !.id = FullId(document, @)]
  <2>1. result.service = {Entry(s) : s \in {ServiceOf(s) : s \in full.service}}
    BY <1>7, <1>13, <1>14, <1>15
  <2>2. canonical.service = {Full(s) : s \in full.service}
    BY <1>9
  <2>3. ASSUME NEW s \in full.service
        PROVE  Entry(ServiceOf(s)) = Full(s)
    <3>1. s \in [id: {s.id}, endpoint: Endpoints]
      BY <1>1, <1>2 DEF IsDocument
    <3>2. FullId(document, s.id) = OwnId(d, s.id.fragment)
      BY <1>4, <1>8
    <3>3. Full(s) = [id |-> OwnId(d, s.id.fragment), endpoint |-> s.endpoint]
      BY <3>1, <3>2
    <3>4. QED
      BY <3>3 DEF ServiceOf
  <2> HIDE DEF Entry, Full
  <2>4. QED
    BY <2>1, <2>2, <2>3
<1>24. ASSUME NEW l \in Lists
       PROVE  result[ListOf(l)] = canonical[ListOf(l)]
  <2>1. result[ListOf(l)] =
          {OwnId(d, m.fragment) :
             m \in {n \in {MethodOf(full, vm) : vm \in full.verificationMethod} : l \in n.flags}}
    BY <1>14, <1>16, <1>19
  <2>2. canonical[ListOf(l)] = {OwnId(d, t.fragment) : t \in full[ListOf(l)]}
    <3>1. \A t \in full[ListOf(l)] : ParseFragmentFromId(own, t) # {}
      BY <1>5
    <3>2. \A t \in full[ListOf(l)] : FullId(document, t) = OwnId(d, t.fragment)
      BY <1>8, <3>1
    <3>3. canonical[ListOf(l)] = {FullId(document, t) : t \in full[ListOf(l)]}
      BY <1>9
    <3>4. QED
      BY <3>2, <3>3
  <2>3. ASSUME NEW vm \in full.verificationMethod
        PROVE  l \in MethodOf(full, vm).flags
               <=> \E t \in full[ListOf(l)] : t.fragment = MethodOf(full, vm).fragment
    BY <1>18
  <2>4. \A t \in full[ListOf(l)] : \E vm \in full.verificationMethod :
          t.fragment = MethodOf(full, vm).fragment
    BY <1>5, <1>18
  <2> DEFINE methods == {MethodOf(full, vm) : vm \in full.verificationMethod}
  <2>5. \A n \in methods : l \in n.flags <=> \E t \in full[ListOf(l)] : t.fragment = n.fragment
    BY <2>3
  <2>6. \A t \in full[ListOf(l)] : \E n \in methods : t.fragment = n.fragment
    BY <2>4
  <2>7. result[ListOf(l)] = {OwnId(d, m.fragment) : m \in {n \in methods : l \in n.flags}}
    BY <2>1
  <2> HIDE DEF methods
  <2>8. QED
    BY <2>2, <2>5, <2>6, <2>7
<1>25. ASSUME NEW field \in DocumentFields
       PROVE  result[field] = canonical[field]
  <2>1. \/ field \in {"id", "controller", "verificationMethod", "service"}
        \/ \E l \in Lists : field = ListOf(l)
    <3>1. /\ ListOf(0) = "authentication" /\ ListOf(1) = "assertionMethod"
          /\ ListOf(2) = "keyAgreement" /\ ListOf(3) = "capabilityInvocation"
          /\ ListOf(4) = "capabilityDelegation"
      BY DEF ListOf, ListNames
    <3>2. {0, 1, 2, 3, 4} \subseteq Lists
      BY DEF Lists
    <3>3. QED
      BY <3>1, <3>2 DEF DocumentFields
  <2>2. QED
    BY <1>20, <1>21, <1>22, <1>23, <1>24, <2>1
<1>26. result = canonical
  BY <1>9, <1>17, <1>25
<1>27. QED
  BY <1>26 DEF result, canonical, b, arg

-----------------------------------------------------------------------------
(* What an account and its document say of each other.                     *)

\* Every account that the program can come to hold, however many keys, methods
\* and services it has and whatever documents were written to it before, is
\* written back as it was by its own document, but for hidden methods and
\* guarded flags.
THEOREM DocumentsRoundTrip == ASSUME PlainNames PROVE DocSpec => []RoundTrip
<1>1. DocInv => RoundTrip
  BY ValidRoundTrip DEF DocInv, IInv, RoundTrip
<1>2. QED
  BY <1>1, DocInvariance, PTL

\* An id of a method in a document that resolve gave is read, if at all, as an
\* id of the DID of the document; it is read unless its name is no word.
THEOREM IdsReferToTheirDids == DocSpec => []IdsReferToTheirDid
<1>1. ASSUME DocInv, NEW document \in held, NEW vm \in document.verificationMethod
      PROVE  /\ \A id \in Parse(vm.id) :
                  ToString(id) = vm.id /\ ToString(WithUrl(id, NoText)) = document.id
             /\ vm.id.fragment \in Words => Parse(vm.id) # {}
  <2>1. PICK d \in Dids, a \in DidAccounts : Valid(d, a) /\ document = Document(a)
    BY <1>1 DEF DocInv, Resolved
  <2>2. PICK m \in Visible(AllMethods(a)) : vm.id = IdOf(a, m.fragment)
    BY <1>1, <2>1, FieldsOf
  <2> DEFINE id == WithUrl(IdentifierOf(a), m.fragment)
  <2>3. a.initial_verification_method.key_data \in SolKeys
    BY <2>1, InputAssumption DEF Valid, DidAccounts
  <2>4. ToString(id) = vm.id
    BY <2>2 DEF IdOf
  <2>5. vm.id.fragment = m.fragment
    BY <2>4 DEF ToString, Text, WithUrl, IdentifierOf, Create
  <2>6. ToString(IdentifierOf(a)) = document.id
    BY <2>1, FieldsOf
  <2>7. CASE m.fragment \in Words
    <3>1. /\ Parse(ToString(id)) = {id}
          /\ WithUrl(id, NoText) = IdentifierOf(a)
      BY <2>3, <2>7, Identified DEF IdentifierOf
    <3> HIDE DEF id
    <3>2. QED
      BY <2>4, <2>6, <3>1
  <2>8. CASE m.fragment \notin Words
    <3>1. Parse(vm.id) = {}
      BY <2>5, <2>8 DEF Parse
    <3>2. QED
      BY <2>5, <2>8, <3>1
  <2>9. QED
    BY <2>7, <2>8
<1>2. DocInv => IdsReferToTheirDid
  BY <1>1 DEF IdsReferToTheirDid
<1>3. QED
  BY <1>2, DocInvariance, PTL

\* However old a document is that updateFromDoc takes, and whatever happened to
\* the account since it was read, the account has it afterwards: resolve gives
\* it back in full, if an account can have it at all.
THEOREM UpdatesAreWhole == ASSUME PlainNames PROVE DocSpec => []UpdateYieldsDocument
<1> DEFINE Yields == UpdateYieldsDocument
<1>1. DocInit => Yields
  BY DEF DocInit, UpdateYieldsDocument
<1>2. DocInv /\ Yields /\ [DocNext]_docVars => Yields'
  <2> SUFFICES ASSUME DocInv, Yields, [DocNext]_docVars
               PROVE  UpdateYieldsDocument'
    OBVIOUS
  <2>1. CASE UpdateStep
    <3>1. PICK d \in Dids, document \in held \cup HandMade, authority \in SolKeys :
            \E eth \in UpdateSignatures(document) :
              UpdateFromDoc(d, document, authority, eth)
      BY <2>1 DEF UpdateStep
    <3>2. PICK eth \in UpdateSignatures(document) :
            UpdateFromDoc(d, document, authority, eth)
      BY <3>1
    <3> DEFINE arg == UpdateArgsFrom(document)
               a == Counted(data[d], eth)
    <3>3. d \in SolKeys /\ IsDocument(document)
      BY HeldTyped, InputAssumption
    <3>4. /\ document.id = ToString(Create(d, {Cluster}))
          /\ CanUpdateFrom(document) /\ Update(d, authority, eth, arg)
          /\ written' = {[did |-> d, document |-> document]}
      BY <3>2 DEF UpdateFromDoc
    <3>5. /\ Authorised(d, authority, <<"update", arg>>, eth, Fragments)
          /\ CanSetVerificationMethods({}, arg.verification_methods)
          /\ data' = [data EXCEPT ![d] = Updated(a, arg)]
      BY <3>4 DEF Update, Write
    <3>6. eth \in Signatures(<<"update", arg>>)
      BY DEF UpdateSignatures
    <3>7. IInv /\ d \in DOMAIN data
      BY DEF DocInv, IInv, TypeOK
    <3>8. Valid(d, a)
      <4> HIDE DEF arg
      <4> QED
        BY <3>5, <3>6, <3>7, AuthorisedFacts
    <3>9. data'[d] = Updated(a, arg)
      <4> HIDE DEF arg, a
      <4> QED
        BY <3>5, <3>7
    <3>10. Complete(d, document) => Document(data'[d]) = Canonical(document)
      <4> HIDE DEF a
      <4> QED
        BY <3>3, <3>4, <3>5, <3>8, <3>9, WrittenBack
    <3>11. QED
      BY <3>4, <3>10 DEF UpdateYieldsDocument
  <2>2. CASE written' = {}
    BY <2>2 DEF UpdateYieldsDocument
  <2>3. CASE UNCHANGED docVars
    BY <2>3 DEF docVars, UpdateYieldsDocument
  <2>4. QED
    BY <2>1, <2>2, <2>3 DEF DocNext
<1>3. QED
  BY <1>1, <1>2, DocInvariance, PTL DEF DocSpec
=============================================================================
