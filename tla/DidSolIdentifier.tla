-------------------------- MODULE DidSolIdentifier --------------------------
(***************************************************************************)
(* Identifiers (client/packages/core/src/DidSolIdentifier.ts): how the     *)
(* client reads and writes did:sol texts, and the cluster of the service   *)
(* that it builds for one.                                                 *)
(*                                                                         *)
(* A DID in text is a record: the method after "did:", the words of the    *)
(* path that follow it, each after a colon, and the fragment after "#", "" *)
(* if there is none.  "#x" alone is a text without method and path.        *)
(***************************************************************************)
EXTENDS DidAccount, Sequences

NoText == ""

CONSTANTS
  Words,       \* texts that are nothing but letters, digits and underscores
  LowerWords,  \* those that are nothing but small letters and digits
  AfterSol     \* what follows "sol" in the methods that start with it

ASSUME WordAssumption ==
  /\ SolKeys \subseteq Words
  /\ LowerWords \subseteq Words
  /\ {NoText, "sol", "unknown", "devnet", "testnet", "localnet", "civicnet"}
       \subseteq LowerWords
  /\ "mainnet-beta" \notin Words
ASSUME SolAssumption ==
  /\ "sol" \in DOMAIN AfterSol
  /\ \A m \in DOMAIN AfterSol : (AfterSol[m] = NoText) <=> (m = "sol")

Text(method, path, fragment) ==
  [method |-> method, path |-> path, fragment |-> fragment]
SelfReference(fragment) == Text(NoText, <<>>, fragment)

-----------------------------------------------------------------------------
\* An ExtendedCluster or undefined: a set with at most one member.
Clusters == {"mainnet-beta", "devnet", "testnet", "localnet", "civicnet"}
ClusterTypes == {{}} \cup {{c} : c \in Clusters}

Identifiers == [clusterType: ClusterTypes, authority: SolKeys, fragment: Words]

Create(authority, clusterType) ==
  [clusterType |-> clusterType, authority |-> authority, fragment |-> NoText]
WithUrl(id, fragment) == [id EXCEPT !.fragment = fragment]

\* The words of a DID that name a cluster.
ClusterString(clusterType) ==
  CASE clusterType = {} -> <<"unknown">>
    [] clusterType = {"mainnet-beta"} -> <<>>
    [] OTHER -> <<CHOOSE c \in clusterType : TRUE>>

\* Mutant: a cluster is missing.
MapOldExtension(word) ==
  IF word = NoText THEN {"mainnet-beta"}
  ELSE {word} \cap {"testnet", "localnet", "civicnet"}

MapMethodExtension(word) ==
  IF word = NoText THEN {"mainnet-beta"}
  ELSE {word} \cap {"devnet", "testnet", "localnet", "civicnet"}

ClusterFromString(word) == {word} \cap Clusters

ToString(id) ==
  Text("sol", Append(ClusterString(id.clusterType), id.authority), id.fragment)

\* How the expression of parse divides a text in a word for the cluster and one
\* for the authority.  The colon after did:sol is optional in it, so that the
\* word for the cluster may be the rest of a longer name of a method.
Divided(t) ==
  IF Len(t.path) = 1 /\ t.method \in DOMAIN AfterSol
  THEN {<<AfterSol[t.method], t.path[1]>>}
  ELSE IF Len(t.path) = 2 /\ t.method = "sol" THEN {<<t.path[1], t.path[2]>>}
  ELSE {}

\* parse: no member if it throws.
Parse(t) ==
  {[clusterType |-> MapMethodExtension(w[1]), authority |-> w[2],
    fragment |-> t.fragment] :
     w \in {v \in Divided(t) :
              v[1] \in Words /\ v[2] \in SolKeys /\ t.fragment \in Words}}

\* No member if it throws: the id is neither "#x" nor of the same DID.
ParseFragmentFromId(id, t) ==
  IF \/ t = SelfReference(t.fragment)
     \/ t.fragment # NoText /\ t = ToString(WithUrl(id, t.fragment))
  THEN {t.fragment} ELSE {}

\* isDidSol tests for did:sol and no colon.
IsDidSol(t) == t.method \in DOMAIN AfterSol

\* VALID_DID_REGEX: only the last word may have capitals.  (Its A-z takes a few
\* marks too, such as the underscore; others than that are left out.)
IsValidDid(t) ==
  /\ t.fragment = NoText /\ t.path # <<>>
  /\ {t.method} \cup {t.path[p] : p \in 1..(Len(t.path) - 1)} \subseteq LowerWords
  /\ t.path[Len(t.path)] \in Words \ {NoText}

-----------------------------------------------------------------------------
\* DidSolService.build: the cluster of the service of a DID, mainnet-beta if the
\* DID's is unknown.
ServiceCluster(clusterType) ==
  IF clusterType = {} THEN {"mainnet-beta"} ELSE clusterType

\* A DID that the client writes is read as the same identifier, for all
\* clusters, an unknown one included.
ParseInvertsToString == \A id \in Identifiers : Parse(ToString(id)) = {id}
=============================================================================
