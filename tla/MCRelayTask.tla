----------------------------- MODULE MCRelayTask -----------------------------
(* A small instance of RelayTask: one Planner and a substitute, one reviewer, *)
(* one implementer and a substitute, a few runs.                              *)
EXTENDS RelayTask, TLC

CONSTANTS p1, p2, i1, i2, v1, c1, r1, r2, r3

MCPlanners == {p1, p2}
MCImplementers == {i1, i2}
MCReviewers == {v1}
MCConversations == {c1}
MCRuns == {r1, r2, r3}

Fresh == FreshTask(p1, i1, v1)

\* The task as the first review left it, taken up from a clone.
Reviewed ==
  [Fresh EXCEPT !.status = "REPORTING", !.revision = 4, !.stageRound = 4,
                !.delivery = 3, !.review = 4]

MCFresh == {Fresh}
MCReviewed == {Reviewed}
MCBoth == {Fresh, Reviewed}

\* Run ids are interchangeable.
RunSymmetry == Permutations(Runs)

=============================================================================
