---------------------------- MODULE TaskRecordProofs ----------------------------
(***************************************************************************)
(* Lemmas about the operations of TaskRecord, which the theorems of every  *)
(* module that keeps task records rest on.                                 *)
(***************************************************************************)
EXTENDS TaskRecord, TLAPS

---------------------------------------------------------------------------
(* Typing: every operation of TaskRecord maps records to records.          *)

\* What the fields of a record are.
LEMMA FieldTyping ==
  ASSUME NEW s \in TaskRecords
  PROVE  /\ s.status \in Statuses
         /\ s.revision \in Nat /\ s.revision + 1 \in Nat
         /\ s.stageRound \in Nat /\ s.stageRound + 1 \in Nat
         /\ s.role \in Roles
         /\ s.participant \in Participants
         /\ s.assignments \in [Roles -> Participants]
         /\ s.runId \in Runs \cup {None}
         /\ s.writer \in Runs \cup {None}
         /\ s.lastFinished \in Runs \cup {None}
         /\ s.failures \in Nat /\ s.failures + 1 \in Nat
         /\ s.suspended \in Statuses \cup {None}
         /\ s.question \in Nat
         /\ s.delivery \in Nat
         /\ s.review \in Nat
         /\ s.phase \in Phases \cup {None}
         /\ s.wakeKey \in WakeKeys \cup {None}
BY DEF TaskRecords

\* Writing one field of a record with a value of its type gives a record.
LEMMA FieldUpdate ==
  ASSUME NEW s \in TaskRecords
  PROVE  /\ \A x \in Statuses : [s EXCEPT !.status = x] \in TaskRecords
         /\ \A x \in Nat : [s EXCEPT !.revision = x] \in TaskRecords
         /\ \A x \in Nat : [s EXCEPT !.stageRound = x] \in TaskRecords
         /\ \A x \in Roles : [s EXCEPT !.role = x] \in TaskRecords
         /\ \A x \in Participants : [s EXCEPT !.participant = x] \in TaskRecords
         /\ \A x \in [Roles -> Participants] : [s EXCEPT !.assignments = x] \in TaskRecords
         /\ \A x \in Runs \cup {None} : [s EXCEPT !.runId = x] \in TaskRecords
         /\ \A x \in {"idle", "running", "finished"} : [s EXCEPT !.runStatus = x] \in TaskRecords
         /\ \A x \in Runs \cup {None} : [s EXCEPT !.writer = x] \in TaskRecords
         /\ \A x \in Runs \cup {None} : [s EXCEPT !.lastFinished = x] \in TaskRecords
         /\ \A x \in Nat : [s EXCEPT !.failures = x] \in TaskRecords
         /\ \A x \in Statuses \cup {None} : [s EXCEPT !.suspended = x] \in TaskRecords
         /\ \A x \in Nat : [s EXCEPT !.question = x] \in TaskRecords
         /\ \A x \in Nat : [s EXCEPT !.delivery = x] \in TaskRecords
         /\ \A x \in Nat : [s EXCEPT !.review = x] \in TaskRecords
         /\ \A x \in Phases \cup {None} : [s EXCEPT !.phase = x] \in TaskRecords
         /\ \A x \in WakeKeys \cup {None} : [s EXCEPT !.wakeKey = x] \in TaskRecords
<1>1. \A x \in Statuses : [s EXCEPT !.status = x] \in TaskRecords
  BY DEF TaskRecords
<1>2. \A x \in Nat : [s EXCEPT !.revision = x] \in TaskRecords
  BY DEF TaskRecords
<1>3. \A x \in Nat : [s EXCEPT !.stageRound = x] \in TaskRecords
  BY DEF TaskRecords
<1>4. \A x \in Roles : [s EXCEPT !.role = x] \in TaskRecords
  BY DEF TaskRecords
<1>5. \A x \in Participants : [s EXCEPT !.participant = x] \in TaskRecords
  BY DEF TaskRecords
<1>6. \A x \in [Roles -> Participants] : [s EXCEPT !.assignments = x] \in TaskRecords
  BY DEF TaskRecords
<1>7. \A x \in Runs \cup {None} : [s EXCEPT !.runId = x] \in TaskRecords
  BY DEF TaskRecords
<1>8. \A x \in {"idle", "running", "finished"} : [s EXCEPT !.runStatus = x] \in TaskRecords
  BY DEF TaskRecords
<1>9. \A x \in Runs \cup {None} : [s EXCEPT !.writer = x] \in TaskRecords
  BY DEF TaskRecords
<1>10. \A x \in Runs \cup {None} : [s EXCEPT !.lastFinished = x] \in TaskRecords
  BY DEF TaskRecords
<1>11. \A x \in Nat : [s EXCEPT !.failures = x] \in TaskRecords
  BY DEF TaskRecords
<1>12. \A x \in Statuses \cup {None} : [s EXCEPT !.suspended = x] \in TaskRecords
  BY DEF TaskRecords
<1>13. \A x \in Nat : [s EXCEPT !.question = x] \in TaskRecords
  BY DEF TaskRecords
<1>14. \A x \in Nat : [s EXCEPT !.delivery = x] \in TaskRecords
  BY DEF TaskRecords
<1>15. \A x \in Nat : [s EXCEPT !.review = x] \in TaskRecords
  BY DEF TaskRecords
<1>16. \A x \in Phases \cup {None} : [s EXCEPT !.phase = x] \in TaskRecords
  BY DEF TaskRecords
<1>17. \A x \in WakeKeys \cup {None} : [s EXCEPT !.wakeKey = x] \in TaskRecords
  BY DEF TaskRecords
<1>. QED
  BY <1>1, <1>2, <1>3, <1>4, <1>5, <1>6, <1>7, <1>8, <1>9,
     <1>10, <1>11, <1>12, <1>13, <1>14, <1>15, <1>16, <1>17

\* complete_stage writes a well-typed record.
LEMMA CompleteStageTyping ==
  ASSUME NEW s \in TaskRecords, NEW e \in RoleEvents
  PROVE  AfterCompleteStage(s, e) \in TaskRecords
<1>. DEFINE delivery == IF e.role = "implementer" THEN s.revision + 1 ELSE s.delivery
            review   == IF e.role = "reviewer" THEN s.revision + 1 ELSE s.review
            writer   == IF e.role = "planner" THEN None ELSE s.writer
<1>1. e.to \in Statuses /\ e.next \in Roles
  BY DEF RoleEvents, Statuses, Roles
<1>2. /\ s.assignments[e.next] \in Participants
      /\ s.stageRound + 1 \in Nat /\ s.revision + 1 \in Nat
      /\ delivery \in Nat /\ review \in Nat
      /\ writer \in Runs \cup {None}
  BY <1>1, FieldTyping
<1>. HIDE DEF delivery, review, writer
<1>3. [s EXCEPT !.status = e.to, !.role = e.next,
                !.participant = s.assignments[e.next],
                !.stageRound = s.stageRound + 1, !.revision = s.revision + 1,
                !.delivery = delivery, !.review = review, !.writer = writer]
        \in TaskRecords
  BY <1>1, <1>2, FieldUpdate, ZenonT(60)
<1>. QED
  BY <1>3 DEF AfterCompleteStage, delivery, review, writer

\* prepare_reporting_wake writes a well-typed record.
LEMMA PrepareWakeTyping ==
  ASSUME NEW s \in TaskRecords, NEW who \in Planners, NEW conv \in Conversations
  PROVE  AfterPrepareWake(s, who, conv) \in TaskRecords
<1>. DEFINE key == [rev |-> s.revision + 1, who |-> who, conv |-> conv]
<1>1. /\ s.revision + 1 \in Nat
      /\ key \in WakeKeys \cup {None}
      /\ "pending" \in Phases \cup {None}
  BY FieldTyping DEF WakeKeys, Phases
<1>. HIDE DEF key
<1>2. [s EXCEPT !.phase = "pending", !.wakeKey = key, !.revision = s.revision + 1]
        \in TaskRecords
  BY <1>1, FieldUpdate, ZenonT(60)
<1>. QED
  BY <1>2 DEF AfterPrepareWake, key

\* set_reporting_phase writes a well-typed record.
LEMMA SetPhaseTyping ==
  ASSUME NEW s \in TaskRecords, NEW phase \in Phases
  PROVE  AfterSetPhase(s, phase) \in TaskRecords
BY FieldUpdate DEF AfterSetPhase

\* complete_report writes a well-typed record.
LEMMA CompleteReportTyping ==
  ASSUME NEW s \in TaskRecords
  PROVE  AfterCompleteReport(s) \in TaskRecords
<1>1. /\ s.stageRound + 1 \in Nat /\ s.revision + 1 \in Nat
      /\ "DONE" \in Statuses /\ "completed" \in Phases \cup {None}
      /\ None \in WakeKeys \cup {None} /\ None \in Runs \cup {None}
      /\ "idle" \in {"idle", "running", "finished"}
  BY FieldTyping DEF Statuses, Phases
<1>. QED
  BY <1>1, FieldUpdate, ZenonT(60) DEF AfterCompleteReport

\* claim writes a well-typed record.
LEMMA ClaimTyping ==
  ASSUME NEW s \in TaskRecords, NEW run \in Runs
  PROVE  AfterClaim(s, run) \in TaskRecords
<1>1. /\ s.revision + 1 \in Nat /\ run \in Runs \cup {None}
      /\ "running" \in {"idle", "running", "finished"}
  BY FieldTyping
<1>. QED
  BY <1>1, FieldUpdate, ZenonT(60) DEF AfterClaim

\* finish_run writes a well-typed record.
LEMMA FinishRunTyping ==
  ASSUME NEW s \in TaskRecords, NEW run \in Runs, NEW result
  PROVE  AfterFinishRun(s, run, result) \in TaskRecords
<1>. DEFINE fails   == result # "completed"
            total   == IF fails THEN s.failures + 1 ELSE s.failures
            blocked == fails /\ total > MaxAgentRetries
            lease   == IF fails /\ ~blocked THEN "idle" ELSE "finished"
            status  == IF blocked THEN "BLOCKED" ELSE s.status
<1>1. /\ s.revision + 1 \in Nat
      /\ run \in Runs \cup {None} /\ None \in Runs \cup {None}
      /\ total \in Nat
  BY FieldTyping
<1>2. lease \in {"idle", "running", "finished"}
  OBVIOUS
<1>3. status \in Statuses
  BY FieldTyping DEF Statuses
<1>. HIDE DEF total, lease, status
<1>4. [s EXCEPT !.runStatus = lease, !.status = status, !.failures = total,
                !.lastFinished = run, !.runId = None, !.writer = None,
                !.revision = s.revision + 1]
        \in TaskRecords
  BY <1>1, <1>2, <1>3, FieldUpdate, ZenonT(60)
<1>. QED
  BY <1>4 DEF AfterFinishRun, total, lease, status

\* wait-user writes a well-typed record.
LEMMA WaitUserTyping ==
  ASSUME NEW s \in TaskRecords
  PROVE  AfterWaitUser(s) \in TaskRecords
<1>1. /\ s.revision + 1 \in Nat
      /\ "WAITING_USER" \in Statuses /\ s.status \in Statuses \cup {None}
  BY FieldTyping DEF Statuses
<1>. QED
  BY <1>1, FieldUpdate, ZenonT(60) DEF AfterWaitUser

\* answer writes a well-typed record.
LEMMA AnswerTyping ==
  ASSUME NEW s \in TaskRecords
  PROVE  AfterAnswer(s) \in TaskRecords
<1>. DEFINE status == IF s.suspended = None THEN "PLANNING" ELSE s.suspended
<1>1. /\ s.revision + 1 \in Nat /\ 0 \in Nat
      /\ status \in Statuses /\ None \in Statuses \cup {None}
  BY FieldTyping DEF Statuses
<1>. HIDE DEF status
<1>2. [s EXCEPT !.status = status, !.suspended = None, !.question = 0,
                !.revision = s.revision + 1] \in TaskRecords
  BY <1>1, FieldUpdate, ZenonT(60)
<1>. QED
  BY <1>2 DEF AfterAnswer, status

\* cancel writes a well-typed record.
LEMMA CancelTyping ==
  ASSUME NEW s \in TaskRecords
  PROVE  AfterCancel(s) \in TaskRecords
<1>1. s.revision + 1 \in Nat /\ "CANCELLED" \in Statuses
  BY FieldTyping DEF Statuses
<1>. QED
  BY <1>1, FieldUpdate, ZenonT(60) DEF AfterCancel

\* replace-agent writes a well-typed record.
LEMMA ReplaceTyping ==
  ASSUME NEW s \in TaskRecords, NEW role \in Roles, NEW to \in Participants
  PROVE  AfterReplace(s, role, to) \in TaskRecords
<1>. DEFINE current     == s.role = role
            assignments == [s.assignments EXCEPT ![role] = to]
            round       == IF current THEN s.stageRound + 1 ELSE s.stageRound
            participant == IF current THEN to ELSE s.participant
            writer      == IF current THEN None ELSE s.writer
<1>1. /\ s.revision + 1 \in Nat
      /\ round \in Nat
      /\ participant \in Participants
      /\ writer \in Runs \cup {None}
  BY FieldTyping
<1>2. assignments \in [Roles -> Participants]
  BY FieldTyping
<1>3. AfterReplace(s, role, to) =
        [s EXCEPT !.assignments = assignments, !.revision = s.revision + 1,
                  !.stageRound = round, !.participant = participant,
                  !.writer = writer]
  BY DEF AfterReplace
<1>. HIDE DEF assignments, round, participant, writer
<1>4. [s EXCEPT !.assignments = assignments, !.revision = s.revision + 1,
                !.stageRound = round, !.participant = participant,
                !.writer = writer] \in TaskRecords
  BY <1>1, <1>2, FieldUpdate, ZenonT(60)
<1>. QED
  BY <1>3, <1>4

=============================================================================
