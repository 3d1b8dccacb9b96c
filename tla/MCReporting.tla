------------------------------ MODULE MCReporting ------------------------------
(* A small instance of Reporting: a reviewed task, a Planner on one tool and  *)
(* a substitute on the other, and the Runner.                                 *)
EXTENDS Reporting, TLC

CONSTANTS p1, p2, i1, v1, c1, c2, r1, a, b

MCPlanners == {p1, p2}
MCImplementers == {i1}
MCReviewers == {v1}
MCConversations == {c1, c2}
MCRuns == {r1}
MCOneRunner == {a}
MCTwoRunners == {a, b}

\* p1 works with Codex, p2 with one of the other tools.
MCToolOf == [p \in Planners |-> IF p = p1 THEN "codex" ELSE "cli"]

\* Both work with Codex (for the instances the README names beside the run).
MCTwoCodex == [p \in Planners |-> "codex"]

Reviewed(p) ==
  [FreshTask(p, i1, v1) EXCEPT !.status = "REPORTING", !.revision = 4,
                               !.stageRound = 4, !.delivery = 3, !.review = 4]

MCReviewed == {Reviewed(p1), Reviewed(p2)}

MCFaults == FaultKinds
MCNoFaults == {}

=============================================================================
