----------------------------- MODULE AgentServing -----------------------------
(***************************************************************************)
(* A search request of agent_serving_java (ParadigmExecutionService.run):   *)
(* ParadigmCompiler accepts its graph, RetrievalCacheWarmup lets it through, *)
(* ParadigmExecutor runs the graph in waves.                                *)
(*                                                                         *)
(* Every node runs on a virtual thread of its own.  Operators are their      *)
(* outcomes: output, empty output by the policy SKIP_WITH_EMPTY, failure.    *)
(* The checks of the compiler on parameters, slots and types and the shape   *)
(* of the answer are left out.                                              *)
(***************************************************************************)
EXTENDS RetrievalCacheWarmup, FiniteSetsExt

CONSTANTS
  Nodes,   \* operator nodes
  Graphs,  \* edge multisets: [Nodes \X Nodes -> Nat]
  Lenient  \* nodes whose operator has the policy SKIP_WITH_EMPTY

ASSUME GraphAssumption ==
  /\ IsFiniteSet(Nodes) /\ Nodes # {} /\ Lenient \subseteq Nodes
  /\ Graphs \subseteq [Nodes \X Nodes -> Nat]

VARIABLES
  edges,   \* the graph that is asked for
  wave,    \* the nodes of the running wave of each request
  out      \* results, and "failed" for a node that threw

runVars == <<edges, wave, out>>
vars == <<warmVars, runVars>>

-----------------------------------------------------------------------------
\* Mutant: parallel edges count once.
SimpleIndegree == [n \in Nodes |-> Cardinality({m \in Nodes : edges[<<m, n>>] > 0})]

Indegree == [n \in Nodes |-> MapThenSumSet(LAMBDA m : edges[<<m, n>>], Nodes)]

\* The indegrees that are left when n has been visited, and the nodes this frees.
Less(n, indegree) ==
  [m \in Nodes |-> IF indegree[m] < edges[<<n, m>>] THEN 0 ELSE indegree[m] - edges[<<n, m>>]]
Freed(n, indegree) == {m \in Nodes : indegree[m] > 0 /\ Less(n, indegree)[m] = 0}

\* A turn of the loop of checkAcyclic.
Visit(left) ==
  LET n == CHOOSE m \in left.queue : TRUE
  IN [queue |-> (left.queue \ {n}) \cup Freed(n, left.indegree),
      indegree |-> Less(n, left.indegree)]

\* The number of nodes that checkAcyclic visits: Kahn's algorithm from the nodes
\* without edges into them.
Visits ==
  LET visits[left \in [queue : SUBSET Nodes, indegree : [Nodes -> Nat]]] ==
        IF left.queue = {} THEN 0 ELSE 1 + visits[Visit(left)]
  IN visits[[queue |-> {n \in Nodes : Indegree[n] = 0}, indegree |-> Indegree]]

Accepted == Visits = Cardinality(Nodes)

Preds(n) == {m \in Nodes : edges[<<m, n>>] > 0}
Done(r) == {n \in Nodes : out[r][n] \in {"ok", "empty"}}

\* The nodes whose count of unfinished predecessors is zero.
Ready(r) == {n \in Nodes \ Done(r) : Preds(n) \subseteq Done(r)}

Init ==
  /\ WarmInit
  /\ edges \in Graphs
  /\ wave = [r \in Requests |-> {}]
  /\ out = [r \in Requests |-> [n \in Nodes |-> "none"]]

-----------------------------------------------------------------------------
Goto(r, where) == pc' = [pc EXCEPT ![r] = where]

Compile(r) ==
  /\ pc[r] = "idle"
  /\ Goto(r, IF Accepted THEN "gate" ELSE "rejected")
  /\ UNCHANGED <<on, token, hot, cell, seen, task, switches, faults, runVars>>

\* The next wave starts; without a ready node the execution has stalled.
StartWave(r) ==
  /\ pc[r] \in {"ready", "between"} /\ Done(r) # Nodes
  /\ wave' = [wave EXCEPT ![r] = Ready(r)]
  /\ Goto(r, IF Ready(r) = {} THEN "stalled" ELSE "wave")
  /\ UNCHANGED <<on, token, hot, cell, seen, task, switches, faults, edges, out>>

\* Mutant: every failure is skipped.
SkipAll(n) == "empty"

\* handleNodeFailure: the policy of the operator decides.
OnFailure(n) == IF n \in Lenient THEN "empty" ELSE "failed"

\* runNode: the operator delivers or throws.
RunNode(r, n) ==
  /\ n \in wave[r] /\ out[r][n] = "none"
  /\ \/ out' = [out EXCEPT ![r][n] = "ok"] /\ UNCHANGED faults
     \/ /\ Fault
        /\ out' = [out EXCEPT ![r][n] = OnFailure(n)]
  /\ UNCHANGED <<on, token, hot, cell, pc, seen, task, switches, edges, wave>>

\* Mutant: the first failure ends the join.
FirstFailure(r) ==
  \/ \A n \in wave[r] : out[r][n] # "none"
  \/ \E n \in wave[r] : out[r][n] = "failed"

\* CompletableFuture.allOf: every node of the wave has ended.
Joined(r) == \A n \in wave[r] : out[r][n] # "none"

\* A failure surfaces when the wave has been joined.
Join(r) ==
  /\ pc[r] = "wave" /\ Joined(r)
  /\ Goto(r, IF \E n \in wave[r] : out[r][n] = "failed" THEN "error" ELSE "between")
  /\ UNCHANGED <<on, token, hot, cell, seen, task, switches, faults, runVars>>

Answer(r) ==
  /\ pc[r] = "between" /\ Done(r) = Nodes
  /\ Goto(r, "answered")
  /\ UNCHANGED <<on, token, hot, cell, seen, task, switches, faults, runVars>>

Request(r) ==
  \/ Compile(r) \/ StartWave(r) \/ Join(r) \/ Answer(r)
  \/ \E n \in Nodes : RunNode(r, n)
  \/ (Inspect(r, "gate") \/ Judge(r) \/ Submit(r)) /\ UNCHANGED runVars

Next ==
  \/ \E r \in Requests : Request(r)
  \/ /\ \/ Observe \/ Change \/ Switch \/ Rested
        \/ InspectFails(Observer, "idle") \/ \E r \in Requests : InspectFails(r, "gate")
        \/ \E i \in Slots : Worker(i) \/ WarmFails(i)
     /\ UNCHANGED runVars

Spec == Init /\ [][Next]_vars

\* The scheduler of the observer, the worker thread and the clock go on, and so does
\* the thread of a request.
Fairness ==
  /\ WF_vars(Observe /\ UNCHANGED runVars)
  /\ WF_vars(Rested /\ UNCHANGED runVars)
  /\ WF_vars((\E i \in Slots : Worker(i)) /\ UNCHANGED runVars)
  /\ \A r \in Requests : WF_vars(Submit(r) /\ UNCHANGED runVars)

FairSpec == Spec /\ Fairness

-----------------------------------------------------------------------------
\* Every variable keeps to its values, and the policy of a node to its own: only a
\* lenient node is skipped, only another one fails.
TypeOK ==
  /\ token \in Probes \ {Unknown, Off} /\ {on, hot} \subseteq BOOLEAN
  /\ cell \in [probe : Probes, ready : BOOLEAN, running : BOOLEAN, cooling : BOOLEAN]
  /\ pc \in [Clients -> {"idle", "rejected", "gate", "probed", "submit", "ready", "refused",
                         "wave", "between", "stalled", "error", "answered"}]
  /\ seen \in [Clients -> Probes]
  /\ task \in [Slots -> [pc : {"none", "before", "decide", "warming", "after", "finish"},
                         expected : Probes, from : Probes, probe : Probes]]
  /\ wave \in [Requests -> SUBSET Nodes]
  /\ \A r \in Requests, n \in Nodes :
       out[r][n] \in {"none", "ok", IF n \in Lenient THEN "empty" ELSE "failed"}

\* The compiler refuses exactly the graphs with a cycle, parallel edges or not, and
\* the executor never stalls on one that it accepts.
AcceptedGraphsRun ==
  \A r \in Requests :
    LET acyclic == \A S \in (SUBSET Nodes) \ {{}} : \E n \in S : Preds(n) \cap S = {}
    IN /\ pc[r] = "rejected" => ~acyclic
       /\ pc[r] \notin {"idle", "rejected"} => acyclic /\ pc[r] # "stalled"

Feeds == [pair \in Nodes \X Nodes |-> edges[pair] > 0]

\* How request r has been answered.
Outcome(r) ==
  CASE pc[r] = "answered" -> "value"
    [] pc[r] = "error" -> "error"
    [] pc[r] \in {"rejected", "refused"} -> "refused"
    [] OTHER -> "none"

Search ==
  INSTANCE ParadigmRun WITH
    Requests <- Requests, Nodes <- Nodes, Lenient <- Lenient,
    feeds <- Feeds, out <- out, answer <- [r \in Requests |-> Outcome(r)]

\* A request keeps the promise of ParadigmRun: no node before its predecessors, no
\* answer while a node still works, no result of a failed run.
ImplementsParadigmRun == Search!Spec
=============================================================================
