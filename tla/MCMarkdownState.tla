---------------------------- MODULE MCMarkdownState ----------------------------
(* The template of STATE.md, a STATE.md of an older release and the project     *)
(* index, each with some of its keys, and the writes of some operations.        *)
EXTENDS MarkdownState

MCNumbers == {"1", "2"}
MCPhrases == {"", "in Arbeit", "[chat] stop", "~", "[", "mapping"}
MCBracketed == {"[chat] stop"}
MCTasks == {"t1", "t2", "t3"}
MCDeliveries == {"d1", "2"}
MCRuns == {"i"}

State ==
  <<Entry("task", Quoted("t1")), Remark, Entry("status", Bare("IMPLEMENTING")),
    Entry("revision", Bare("1")), Entry("current_participant", Quoted("i1")),
    Entry("run_id", Bare("null")), Header("assignments"), Nested("planner", Quoted("p1")),
    Nested("implementer", Quoted("i1")), Nested("reviewer", Quoted("v1")),
    Header("assignment_change_refs"), Nested("implementer", Bare("null")),
    Entry("execution", Bare("idle")), Entry("reporting", Bare("null")),
    Entry("question_id", Bare("null"))>>

\* Without assignment_change_refs and reporting.
OldState == SubSeq(State, 1, 10) \o <<State[13], State[15]>>

Index ==
  <<Entry("project", Quoted("")), Entry("active_task", Bare("null")),
    Header("tasks"), Nested("active", Inline(<<>>)), Nested("queued", Inline(<<>>)),
    Nested("blocked", Inline(<<>>)), Nested("completed", Inline(<<>>)),
    Remark, Entry("updated_at", Bare("null"))>>

MCTemplates == [state |-> State, old |-> OldState, index |-> Index]

MCPlain ==
  LET keys == {"task", "status", "revision", "current_participant", "run_id", "execution",
               "reporting", "question_id", "blocked_reason", "subagent_policy", "delivery_id",
               "review_ref", "report_ref"}
  IN [state |-> keys, old |-> keys, index |-> {"project", "active_task", "updated_at"}]

MCSections ==
  LET keys == {"assignments", "assignment_change_refs"}
  IN [state |-> keys, old |-> keys, index |-> {"tasks"}]

\* An operation: the statuses in which it is admitted, what else it must read, its writes.
Op(statuses, reads, writes) ==
  [when |-> (<<"status">> :> {Str(status) : status \in statuses}) @@ reads, writes |-> writes]

Anything == <<>>
Current(participant) == <<"current_participant">> :> {Str(participant)}
Run(id) == <<"run_id">> :> {Str(id)}
Implementer(participant) == <<"assignments", "implementer">> :> {Str(participant)}
Revision(n) == Write(<<"revision">>, Number(n))

\* A run of the Implementer, or of the Reviewer.
Claim(status, id) == Op({status}, <<"run_id">> :> {Null},
                        <<Write(<<"run_id">>, Str(id)), Revision("2")>>)
Finish(id) == Op({"IMPLEMENTING", "REVIEWING", "REPORTING", "WAITING_USER", "CANCELLED"}, Run(id),
                 <<Write(<<"run_id">>, Null), Revision("1")>>)
WaitUser == Op({"IMPLEMENTING"}, Anything,
               <<Write(<<"status">>, Str("WAITING_USER")), Write(<<"question_id">>, Str("Q-1"))>>)
Answer == Op({"WAITING_USER"}, <<"question_id">> :> {Str("Q-1")},
             <<Write(<<"status">>, Str("IMPLEMENTING")), Write(<<"question_id">>, Null)>>)
Cancel(authorization) ==
  Op({"IMPLEMENTING", "REVIEWING", "REPORTING", "WAITING_USER"}, Anything,
     <<Write(<<"status">>, Str("CANCELLED")), Write(<<"blocked_reason">>, Str(authorization))>>)
Pass == Op({"REVIEWING"}, Run("v") @@ Current("v1"),
           <<Write(<<"status">>, Str("REPORTING")), Write(<<"current_participant">>, Str("p1")),
             Revision("1"), Write(<<"review_ref">>, Str("review/1"))>>)
Rework(to) ==
  Op({"REVIEWING"}, Run("v") @@ Current("v1") @@ Implementer(to),
     <<Write(<<"status">>, Str("IMPLEMENTING")), Write(<<"current_participant">>, Str(to)),
       Revision("1"), Write(<<"review_ref">>, Str("review/1"))>>)

TaskOperations ==
  {Claim("IMPLEMENTING", "i"), Claim("REVIEWING", "v"), Finish("i"), Finish("v"), WaitUser, Answer,
   Cancel("[chat] stop"), Cancel("null"), Pass, Rework("i1"), Rework("2")}
MCRelayOperations == [state |-> TaskOperations, old |-> TaskOperations, index |-> {}]

\* The Implementer is replaced, in its turn or not.
Replace(from, to) ==
  LET writes == <<Write(<<"assignments", "implementer">>, Str(to)),
                  WriteAfter(<<"assignment_change_refs", "implementer">>, Str("progress/1"),
                             "assignments"),
                  Revision("2"), Write(<<"subagent_policy">>, Str("UNSELECTED"))>>
  IN {Op({"IMPLEMENTING"}, Implementer(from),
         Append(writes, Write(<<"current_participant">>, Str(to)))),
      Op({"REVIEWING", "REPORTING"}, Implementer(from), writes)}
CacheTime == [when |-> <<>>, writes |-> <<Write(<<"updated_at">>, Str("now"))>>]

MCHelperOperations ==
  LET replacements == Replace("i1", "2") \cup Replace("2", "i1")
  IN [state |-> replacements, old |-> replacements, index |-> {CacheTime}]

MCRest ==
  [deliver |-> <<Write(<<"status">>, Str("REVIEWING")),
                 Write(<<"current_participant">>, Str("v1")), Revision("2")>>,
   wake |-> <<Revision("2")>>,
   phase |-> <<>>,
   report |-> <<Write(<<"report_ref">>, Str("progress/2"))>>,
   reported |-> <<Write(<<"current_participant">>, Str("p1")), Write(<<"run_id">>, Null),
                  Write(<<"execution">>, Str("idle")), Revision("1")>>]

MCWakeKeys == {"k1"}

=============================================================================
