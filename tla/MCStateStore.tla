----------------------------- MODULE MCStateStore -----------------------------
(* A small instance of StateStore: the Runner and a helper process on a task  *)
(* that is in its first review, or about to be reported.                      *)
EXTENDS StateStore, TLC

CONSTANTS p1, p2, i1, v1, c1, r1, w, a

MCPlanners == {p1, p2}
MCImplementers == {i1}
MCReviewers == {v1}
MCConversations == {c1}
MCOneRun == {r1}
MCRunners == {w}
MCOneClient == {a}

Fresh == FreshTask(p1, i1, v1)

Delivered ==
  [Fresh EXCEPT !.status = "REVIEWING", !.role = "reviewer", !.participant = v1,
                !.revision = 3, !.stageRound = 3, !.delivery = 3]

Reviewed ==
  [Fresh EXCEPT !.status = "REPORTING", !.revision = 4, !.stageRound = 4,
                !.delivery = 3, !.review = 4]

MCReviewed == {Reviewed}
MCUnreported == {Delivered, Reviewed}

=============================================================================
