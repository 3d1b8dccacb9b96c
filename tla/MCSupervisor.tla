----------------------------- MODULE MCSupervisor -----------------------------
(* A small instance of Supervisor: a task whose plan is done, its Runner, and *)
(* the runs it launches.                                                      *)
EXTENDS Supervisor, TLC

CONSTANTS p1, i1, i2, v1, c1, r1, r2, r3

MCPlanners == {p1}
MCImplementers == {i1, i2}
MCReviewers == {v1}
MCConversations == {c1}
MCTwoRuns == {r1, r2}
MCRuns == {r1, r2, r3}

Planned ==
  [FreshTask(p1, i1, v1) EXCEPT !.status = "IMPLEMENTING", !.role = "implementer",
                                !.participant = i1, !.revision = 2, !.stageRound = 2]

MCPlanned == {Planned}

\* Run ids are interchangeable.
RunSymmetry == Permutations(Runs)

=============================================================================
