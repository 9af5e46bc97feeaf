----------------------------- MODULE DidControl -----------------------------
(***************************************************************************)
(* What the did:sol program promises about control, without the account    *)
(* format: a DID that was never written is controlled by the key it is     *)
(* named by; a written one is changed, and its control handed over, only   *)
(* in transactions signed by a key in control; deleting it gives the       *)
(* control back to the first key.  A DID can also be created from a legacy *)
(* document, which decides who controls it.                                *)
(***************************************************************************)
CONSTANTS
  Dids,   \* the DIDs, each named by its first key
  Keys    \* everything that can sign

VARIABLES
  created,  \* the DIDs that have an account
  content,  \* the document of each DID
  control,  \* the keys in control of each DID
  signers   \* the keys that signed the last transaction

vars == <<created, content, control, signers>>

Init ==
  /\ created = {}
  /\ control = [d \in Dids |-> {d}]
  /\ signers = {}

\* Nothing changes for the other DIDs.
OnlyFor(d) ==
  \A e \in Dids \ {d} :
    /\ content'[e] = content[e]
    /\ control'[e] = control[e]
    /\ e \in created' <=> e \in created

Create(d) ==
  /\ d \notin created /\ d \in created'
  /\ signers' = {d}
  /\ control'[d] = {d}

Import(d) ==
  /\ d \notin created /\ d \in created'
  /\ signers' = {}
  /\ control'[d] \subseteq Keys

Change(d) ==
  /\ d \in created /\ d \in created'
  /\ signers' \cap control[d] # {}
  /\ control'[d] \subseteq Keys

Delete(d) ==
  /\ d \in created /\ d \notin created'
  /\ signers' \cap control[d] # {}
  /\ control'[d] = {d}

Next ==
  \E d \in Dids :
    /\ OnlyFor(d)
    /\ Create(d) \/ Import(d) \/ Change(d) \/ Delete(d)

Spec == Init /\ [][Next]_vars
=============================================================================
