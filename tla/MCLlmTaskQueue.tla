--------------------------- MODULE MCLlmTaskQueue ---------------------------
(* TLC instances of LlmTaskQueue: model values, ranks and symmetry.        *)
EXTENDS LlmTaskQueue, TLC

CONSTANTS t1, t2, w1, w2

\* t1 is a chat task and comes first in the claim order.
OneTask == {t1}
TwoTasks == {t1, t2}
OneRank == [t \in {t1} |-> 1]
TwoRanks == t1 :> 1 @@ t2 :> 2
WorkersAlike == Permutations({w1, w2})
=============================================================================
