-------------------------- MODULE MCMiningRunQueue --------------------------
(* TLC instances of MiningRunQueue: two runs of one KB or of two.        *)
EXTENDS MiningRunQueue, TLC

CONSTANTS r1, r2, k1, k2

TwoRuns == {r1, r2}
\* Runs of one KB exclude each other; runs of two KBs share only the domain.
OneKb == r1 :> k1 @@ r2 :> k1
TwoKbs == r1 :> k1 @@ r2 :> k2
TwoRanks == r1 :> 1 @@ r2 :> 2
=============================================================================
