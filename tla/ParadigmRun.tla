------------------------------ MODULE ParadigmRun ------------------------------
(***************************************************************************)
(* What a search request may count on: the operators of its paradigm run    *)
(* once each, after the operators that feed them; it is answered when all   *)
(* have run, with an error when one failed for good, and nothing of it runs *)
(* after the answer.  AgentServing implements this module.                  *)
(***************************************************************************)
CONSTANTS
  Requests, Nodes,
  Lenient   \* nodes whose operator may fail without failing the request

VARIABLES
  feeds,    \* feeds[m, n]: node m feeds node n
  out,      \* out[r][n]: "none", "ok", "empty" or "failed"
  answer    \* answer[r]: "none", "value", "error" or "refused"

vars == <<feeds, out, answer>>

Delivered(r, n) == out[r][n] \in {"ok", "empty"}

Init ==
  /\ feeds \in [Nodes \X Nodes -> BOOLEAN]
  /\ out = [r \in Requests |-> [n \in Nodes |-> "none"]]
  /\ answer = [r \in Requests |-> "none"]

Run(r, n) ==
  /\ answer[r] = "none" /\ out[r][n] = "none"
  /\ \A m \in Nodes : feeds[m, n] => Delivered(r, m)
  /\ \E result \in {"ok", IF n \in Lenient THEN "empty" ELSE "failed"} :
       out' = [out EXCEPT ![r][n] = result]
  /\ UNCHANGED <<feeds, answer>>

Answer(r, how) ==
  /\ answer[r] = "none"
  /\ answer' = [answer EXCEPT ![r] = how]
  /\ UNCHANGED <<feeds, out>>

Next ==
  \E r \in Requests :
    \/ \E n \in Nodes : Run(r, n)
    \/ (\A n \in Nodes : Delivered(r, n)) /\ Answer(r, "value")
    \/ (\E n \in Nodes : out[r][n] = "failed") /\ Answer(r, "error")
    \/ (\A n \in Nodes : out[r][n] = "none") /\ Answer(r, "refused")

Spec == Init /\ [][Next]_vars
=============================================================================
