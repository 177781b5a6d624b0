---------------------------- MODULE MCPlanStore ----------------------------
(* Small instances of the plan store.                                       *)
EXTENDS PlanStore, TLC

CONSTANT Serial     \* ids of tasks that may not share the machine
SerialPairs == {p \in Serial \X Serial : p[1] # p[2]}

\* Alike are the agents, the tasks that conflict, and those that do not.
Symmetric ==
  Permutations(Serial) \cup Permutations(Ids \ Serial) \cup Permutations(Agents)
=============================================================================
