------------------------------- MODULE KbServing -------------------------------
(***************************************************************************)
(* What the builds of knowledge_mining promise to whoever searches: every   *)
(* document that is served has the search assets of the version served,     *)
(* and it leaves the service only when somebody asked for its deletion.     *)
(* KbStore implements this module.                                          *)
(***************************************************************************)
CONSTANTS
  Docs,    \* documents
  Snaps,   \* snapshots, the parsed versions of documents
  NoSnap   \* not served

VARIABLES
  asked,       \* documents that no one asked to keep: absent or being deleted
  served,      \* the snapshot each document is served with
  searchable   \* the snapshots whose search assets are in force

vars == <<asked, served, searchable>>

Init ==
  /\ asked \in SUBSET Docs
  /\ served = [d \in Docs |-> NoSnap]
  /\ searchable = {}

\* Users upload documents and ask for deletions, or a deletion gives up.
Ask ==
  /\ asked' \in SUBSET Docs
  /\ UNCHANGED <<served, searchable>>

\* One build serves the documents D with versions whose assets are in force;
\* the others are carried forward.
Publish(D) ==
  /\ \E new \in [D -> Snaps] :
       /\ served' = [d \in Docs |-> IF d \in D THEN new[d] ELSE served[d]]
       /\ searchable' \in SUBSET Snaps
       /\ searchable \cup {new[d] : d \in D} = searchable'
  /\ UNCHANGED asked

\* Deletion takes documents out of service.
Withdraw(D) ==
  /\ D \subseteq asked
  /\ served' = [d \in Docs |-> IF d \in D THEN NoSnap ELSE served[d]]
  /\ asked' \in SUBSET Docs
  /\ UNCHANGED searchable

\* Assets that serve nobody are dropped.
Tidy ==
  /\ searchable' \in SUBSET searchable
  /\ \A d \in Docs : served[d] # NoSnap => served[d] \in searchable'
  /\ asked' \in SUBSET Docs
  /\ UNCHANGED served

Next ==
  \/ Ask
  \/ \E D \in SUBSET Docs : Publish(D) \/ Withdraw(D)
  \/ Tidy

Spec == Init /\ [][Next]_vars
=============================================================================
