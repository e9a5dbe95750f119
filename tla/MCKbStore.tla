------------------------------ MODULE MCKbStore ------------------------------
(***************************************************************************)
(* Instances of KbStore for TLC: two documents of one knowledge base that    *)
(* three runs mine, and two neighbouring knowledge bases that share a        *)
(* snapshot.                                                                 *)
(***************************************************************************)
EXTENDS KbStore, TLC

CONSTANTS k1, k2, d1, d2, s1, s2, p1, p2

Files == d1 :> <<s1, s2>> @@ d2 :> <<s1>>

Together  == d1 :> k1 @@ d2 :> k1
ThreeRuns == 1..3
SameKb    == 1 :> k1 @@ 2 :> k1 @@ 3 :> k1

Apart      == d1 :> k2 @@ d2 :> k1
TwoRuns    == 1..2
Neighbours == 1 :> k1 @@ 2 :> k2

OneDeletion  == p1 :> k1
TwoDeletions == p1 :> k1 @@ p2 :> k1
Alike == Permutations({p1, p2})
=============================================================================
