------------------------------ MODULE Authority ------------------------------
(***************************************************************************)
(* is_authority (programs/sol-did/src/integrations/is_authority.rs): other *)
(* programs ask it whether a key may act for a DID, directly or through a  *)
(* chain of controllers that the caller provides.  It reads the accounts   *)
(* that SolDid writes; controllers may form any graph, cycles included.    *)
(***************************************************************************)
EXTENDS SolDid, SequencesExt

\* DidAccount::is_directly_controlled_by; DidAccount::try_from reads an account
\* that was never written as that of its initial key.
DirectlyControlledBy(d, c) ==
  data[c].initial_verification_method.key_data \in data[d].native_controllers

\* Mutant: the rest of the chain is not looked at.
HeadControls(d, chain) == chain # <<>> => DirectlyControlledBy(d, Head(chain))

\* DidAccount::is_controlled_by.
ControlledBy(d, chain) ==
  \A p \in DOMAIN chain :
    DirectlyControlledBy(IF p = 1 THEN d ELSE chain[p - 1], chain[p])

\* DidAccount::find_authority with a filter of types, {} for none, and one of
\* names: the keys it finds, and whether it gets through; it converts the types
\* of all methods if it has to filter them.
AuthoritiesOn(d, types, among) ==
  {m.key_data : m \in {n \in AllMethods(data[d]) :
                          /\ types = {} \/ n.method_type \in types
                          /\ CAPABILITY_INVOCATION \in n.flags
                          /\ n.fragment \in among}}
CanSearch(d, types) ==
  \A m \in AllMethods(data[d]) :
    /\ types = {} \/ m.method_type \in AuthorityTypes
    /\ m.flags \subseteq KnownFlags

\* is_authority returns Ok(true).  For a DID that was never written, nothing but
\* its own key counts, whatever the filters and the chain are.
IsAuthorityOf(d, chain, key, types, among) ==
  IF ~Persisted(d) THEN key = d
  ELSE LET checked == IF chain = <<>> THEN d ELSE Last(chain)
       IN /\ ControlledBy(d, chain)
          /\ CanSearch(checked, types)
          /\ key \in AuthoritiesOn(checked, types, among)

-----------------------------------------------------------------------------
\* The DIDs that stand behind one: the least set that has, with each, all of its
\* controllers.
Closed(S) ==
  \A c \in S : data[c].native_controllers \cap Dids \subseteq S
Behind(d) ==
  {c \in Dids : \A S \in SUBSET Dids : d \in S /\ Closed(S) => c \in S}

\* Chains without a repetition are enough.
Chains == SeqOf(Dids, Cardinality(Dids))

Singletons(S) == {{x} : x \in S}

\* A chain proves a key an authority of a DID exactly if the key is one of a
\* DID that controls it through any number of others ("authorities may be
\* direct, or via a chain of controlling did accounts"), and there of a type
\* and a name that were asked for, if any were.
ChainsProveControl ==
  \A d \in Dids :
    LET behind == Behind(d) IN
    \A types \in {{}} \cup Singletons(AuthorityTypes),
       among \in {Fragments} \cup Singletons(Fragments) :
      UNION {{key \in KeyData : IsAuthorityOf(d, chain, key, types, among)} :
               chain \in Chains}
        = IF Persisted(d) THEN UNION {AuthoritiesOn(c, types, among) : c \in behind}
          ELSE {d}
=============================================================================
