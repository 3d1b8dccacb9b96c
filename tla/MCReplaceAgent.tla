---------------------------- MODULE MCReplaceAgent ----------------------------
(* Two tasks with the same participants, one of them ready to be reported;    *)
(* a substitute Planner and a substitute implementer.                         *)
EXTENDS ReplaceAgent

CONSTANTS p1, p2, i1, i2, i3, v1, c1, r1, t1, t2

MCPlanners == {p1, p2}
MCImplementers == {i1, i2, i3}
MCReviewers == {v1}
MCConversations == {c1}
MCRuns == {r1}
MCTasks == {t1, t2}
MCWakeable == {p1, p2}
MCRetired == {i3}
MCProfiled == {p1, i1, i2}

Fresh == FreshTask(p1, i1, v1)

Reviewed ==
  [Fresh EXCEPT !.status = "REPORTING", !.revision = 4, !.stageRound = 4,
                !.delivery = 3, !.review = 4]

\* A second task, in implementation.
Planned ==
  [Fresh EXCEPT !.status = "IMPLEMENTING", !.role = "implementer",
                !.participant = i1, !.revision = 5, !.stageRound = 2]

MCStart == [t \in MCTasks |-> IF t = t1 THEN Reviewed ELSE Planned]

=============================================================================
