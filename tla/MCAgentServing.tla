---------------------------- MODULE MCAgentServing ----------------------------
(***************************************************************************)
(* Instances of AgentServing for TLC: graphs of three nodes with up to two   *)
(* edges between two of them.                                                *)
(***************************************************************************)
EXTENDS AgentServing

CONSTANTS a, b, c, r1

Graph(simple, double) ==
  [e \in Nodes \X Nodes |-> IF e \in double THEN 2 ELSE IF e \in simple THEN 1 ELSE 0]

\* Two retrievals that are merged, a triangle with parallel edges, and two cycles.
Shapes == {Graph({<<a, c>>, <<b, c>>}, {}), Graph({<<a, c>>, <<b, c>>}, {<<a, b>>}),
           Graph({<<b, c>>, <<c, b>>}, {<<a, c>>}), Graph({<<a, a>>}, {<<b, c>>})}
=============================================================================
