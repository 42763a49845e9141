-------------------------- MODULE MCAgentRegistry --------------------------
(* Two connections of one agent id and two concurrent requests, under a     *)
(* client-chosen task_id that both may use or under generated ones.         *)
EXTENDS AgentRegistry, TLC

Symmetry == Permutations(Request) \cup Permutations(Conn) \cup Permutations(GeneratedId)
=============================================================================
