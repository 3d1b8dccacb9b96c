---------------------------- MODULE MCRunnerService ----------------------------
(* Two projects, a release, and answers that differ in tool, model and          *)
(* participant.                                                                 *)
EXTENDS RunnerService

MCProjects == {"alpha", "beta"}
MCNames == {"p1", "i1", "i2", "v1", "m1", "m2", "high", "low"}
MCSubstitutes == {"i2"}
MCVersions == {"v1.7"}

Role(who, agent, model, reasoning) ==
  [who |-> who, agent |-> agent, model |-> model, reasoning |-> reasoning]

Answer(tool, implementer, cost) ==
  [secret |-> FALSE, confirmed |-> TRUE, cost |-> cost, conversation |-> "p1",
   roles |-> [r \in Roles |-> CASE r = "planner" -> Role("p1", tool, "m1", "high")
                                [] r = "implementer" -> implementer
                                [] r = "reviewer" -> Role("v1", "codex", "m1", "high")]]

Codex == Answer("codex", Role("i1", "codex", "m1", "high"), "balanced")
Claude == Answer("deepseek-harness", Role("i2", "claude-code", "m2", "low"), "balanced")
OpenCode == Answer("deepseek-harness", Role("i2", "opencode", "m2", "high"), "balanced")

\* A budget that stops before it warns.
MCLimitEdits == {[warn_after_agent_runs |-> 5, stop_after_agent_runs |-> 2]}

MCFirst == {Codex}
MCAnswers == {Codex, Claude, OpenCode}

=============================================================================
