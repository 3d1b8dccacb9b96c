--------------------------- MODULE MCPlannerBridges ---------------------------
(* The Planner's conversation and another one, a wake, and a tool of each kind. *)
EXTENDS PlannerBridges

CONSTANTS c1, c2, k1

MCConversations == {c1, c2}
MCRegistered == {c1}
MCKeys == {k1}
MCServed == {"codex", "opencode", "deepseek-harness"}

=============================================================================
