--------------------------- MODULE RelayTaskProofs ---------------------------
(***************************************************************************)
(* Theorems of RelayTask, for every set of participants, runs and          *)
(* conversations, every retry limit and every revision bound.              *)
(***************************************************************************)
EXTENDS RelayTask, TaskRecordProofs, FiniteSetTheorems

---------------------------------------------------------------------------
(* Type correctness.                                                       *)

LEMMA RoleOfTyping == RoleOf("IMPLEMENTING") \in BackgroundRoles
                      /\ RoleOf("REVIEWING") \in BackgroundRoles
BY DEF RoleOf, BackgroundRoles

\* A launch context is a role, its participant and the status it started from.
LEMMA TurnTyping ==
  ASSUME NEW s \in TaskRecords, s.status \in {"IMPLEMENTING", "REVIEWING"}
  PROVE  [role |-> RoleOf(s.status), who |-> s.participant, from |-> s.status]
           \in Turns
BY RoleOfTyping, FieldTyping DEF Turns

\* Every step keeps the record, the turns and the histories well typed.
LEMMA StepTyping == TypeOK /\ [Next]_vars => TypeOK'
<1>. SUFFICES ASSUME TypeOK, [Next]_vars PROVE TypeOK'
  OBVIOUS
<1>. USE DEF TypeOK
<1>1. ASSUME NEW p \in Planners, PlanDone(p) PROVE TypeOK'
  BY <1>1, CompleteStageTyping DEF PlanDone, history
<1>2. ASSUME NEW p \in Planners, ReportDone(p) PROVE TypeOK'
  BY <1>2, CompleteReportTyping DEF ReportDone, history
<1>3. ASSUME NEW r \in Runs, NEW e \in RoleEvents, Handover(r, e) PROVE TypeOK'
  BY <1>3, CompleteStageTyping DEF Handover
<1>4. ASSUME NEW r \in Runs, AgentWaitUser(r) PROVE TypeOK'
  BY <1>4, WaitUserTyping DEF AgentWaitUser, history
<1>5. ASSUME NEW r \in Runs, Claim(r) PROVE TypeOK'
  BY <1>5, ClaimTyping, TurnTyping DEF Claim, history
<1>6. ASSUME NEW r \in Runs, FinishRun(r) PROVE TypeOK'
  BY <1>6, FinishRunTyping DEF FinishRun, EndRun
<1>7. ASSUME NEW r \in Runs, AbandonLaunch(r) PROVE TypeOK'
  BY <1>7, FinishRunTyping DEF AbandonLaunch, history
<1>8. ASSUME NEW conv \in Conversations, PrepareWake(conv) PROVE TypeOK'
  BY <1>8, PrepareWakeTyping DEF PrepareWake, history
<1>9. ASSUME SetReportingPhase PROVE TypeOK'
  BY <1>9, SetPhaseTyping DEF SetReportingPhase, history, Phases
<1>10. ASSUME WaitUser PROVE TypeOK'
  BY <1>10, WaitUserTyping DEF WaitUser, history
<1>11. ASSUME Answer PROVE TypeOK'
  BY <1>11, AnswerTyping DEF Answer, history
<1>12. ASSUME Cancel PROVE TypeOK'
  BY <1>12, CancelTyping DEF Cancel, history
<1>13. ASSUME NEW role \in Roles, NEW to \in Participants, ReplaceAgent(role, to)
       PROVE  TypeOK'
  BY <1>13, ReplaceTyping DEF ReplaceAgent, history
<1>14. CASE UNCHANGED vars
  BY <1>14 DEF vars
<1>. QED
  BY <1>1, <1>2, <1>3, <1>4, <1>5, <1>6, <1>7, <1>8, <1>9, <1>10, <1>11,
     <1>12, <1>13, <1>14 DEF Next, ImplementationDone, Verdict

\* The record, the launch contexts and the histories keep their types, whatever
\* the order of the operations (state_store.py, relay_state.py).
THEOREM Typing == Spec => []TypeOK
<1>1. Init => TypeOK
  BY StartAssumption DEF Init, TypeOK
<1>. QED
  BY <1>1, StepTyping, PTL DEF Spec

---------------------------------------------------------------------------
(* The inductive invariant, part by part. *)

\* Every step keeps the current participant the assigned one.
LEMMA StepOwner == TypeOK /\ OwnerIsAssigned /\ [Next]_vars => OwnerIsAssigned'
<1>. SUFFICES ASSUME TypeOK, OwnerIsAssigned, [Next]_vars
             PROVE  OwnerIsAssigned'
  OBVIOUS
<1>. task \in TaskRecords
  BY DEF TypeOK
<1>. USE DEF TaskRecords, history, OwnerIsAssigned
<1>1. ASSUME NEW p \in Planners, PlanDone(p) PROVE OwnerIsAssigned'
  BY <1>1 DEF PlanDone, AfterCompleteStage, CanCompleteStage, RoleEvents
<1>2. ASSUME NEW p \in Planners, ReportDone(p) PROVE OwnerIsAssigned'
  BY <1>2 DEF ReportDone, CanCompleteReport, AfterCompleteReport
<1>3. ASSUME NEW r \in Runs, NEW e \in RoleEvents, Handover(r, e)
      PROVE  OwnerIsAssigned'
  BY <1>3 DEF Handover, AfterCompleteStage, CanCompleteStage, RoleEvents
<1>4. ASSUME NEW r \in Runs, AgentWaitUser(r) PROVE OwnerIsAssigned'
  BY <1>4 DEF AgentWaitUser, CanWaitUser, AfterWaitUser
<1>5. ASSUME NEW r \in Runs, Claim(r) PROVE OwnerIsAssigned'
  BY <1>5 DEF Claim, CanClaim, AfterClaim
<1>6. ASSUME NEW r \in Runs, FinishRun(r) PROVE OwnerIsAssigned'
  BY <1>6 DEF FinishRun, EndRun, CanFinishRun, AfterFinishRun
<1>7. ASSUME NEW r \in Runs, AbandonLaunch(r) PROVE OwnerIsAssigned'
  BY <1>7 DEF AbandonLaunch, CanFinishRun, AfterFinishRun
<1>8. ASSUME NEW conv \in Conversations, PrepareWake(conv)
      PROVE  OwnerIsAssigned'
  BY <1>8 DEF PrepareWake, AfterPrepareWake
<1>9. ASSUME SetReportingPhase PROVE OwnerIsAssigned'
  BY <1>9 DEF SetReportingPhase, AfterSetPhase
<1>10. ASSUME WaitUser PROVE OwnerIsAssigned'
  BY <1>10 DEF WaitUser, CanWaitUser, AfterWaitUser
<1>11. ASSUME Answer PROVE OwnerIsAssigned'
  BY <1>11 DEF Answer, CanAnswer, AfterAnswer
<1>12. ASSUME Cancel PROVE OwnerIsAssigned'
  BY <1>12 DEF Cancel, CanCancel, AfterCancel
<1>13. ASSUME NEW role \in Roles, NEW to \in Participants, ReplaceAgent(role, to)
       PROVE  OwnerIsAssigned'
  BY <1>13 DEF ReplaceAgent, CanReplace, AfterReplace
<1>14. CASE UNCHANGED vars
  BY <1>14 DEF vars, TypeOK
<1>. QED
  BY <1>1, <1>2, <1>3, <1>4, <1>5, <1>6, <1>7, <1>8, <1>9, <1>10, <1>11,
     <1>12, <1>13, <1>14 DEF Next, ImplementationDone, Verdict

\* Every step keeps the lease, the writer and the last finished run consistent.
LEMMA StepLease ==
  TypeOK /\ ReleasedRuns /\ LeaseConsistent /\ [Next]_vars
    => LeaseConsistent'
<1>. SUFFICES ASSUME TypeOK, ReleasedRuns, LeaseConsistent, [Next]_vars
             PROVE  LeaseConsistent'
  OBVIOUS
<1>. task \in TaskRecords
  BY DEF TypeOK
<1>. USE DEF TaskRecords, history, LeaseConsistent, ReleasedRuns, RunActive,
       TypeOK
<1>1. ASSUME NEW p \in Planners, PlanDone(p) PROVE LeaseConsistent'
  BY <1>1 DEF PlanDone, AfterCompleteStage, CanCompleteStage, RoleEvents
<1>2. ASSUME NEW p \in Planners, ReportDone(p) PROVE LeaseConsistent'
  BY <1>2 DEF ReportDone, CanCompleteReport, AfterCompleteReport
<1>3. ASSUME NEW r \in Runs, NEW e \in RoleEvents, Handover(r, e)
      PROVE  LeaseConsistent'
  BY <1>3 DEF Handover, AfterCompleteStage, CanCompleteStage, RoleEvents
<1>4. ASSUME NEW r \in Runs, AgentWaitUser(r) PROVE LeaseConsistent'
  BY <1>4 DEF AgentWaitUser, CanWaitUser, AfterWaitUser
<1>5. ASSUME NEW r \in Runs, Claim(r) PROVE LeaseConsistent'
  <2>1. /\ turn'[r] \in Turns
        /\ task.lastFinished # r
    BY <1>5, TurnTyping, NoneAssumption DEF Claim
  <2>2. /\ task'.runId = r /\ task'.writer = r /\ task'.runStatus = "running"
        /\ task'.lastFinished = task.lastFinished
    BY <1>5 DEF Claim, AfterClaim
  <2>. QED
    BY <2>1, <2>2, NoneAssumption
<1>6. ASSUME NEW r \in Runs, FinishRun(r) PROVE LeaseConsistent'
  BY <1>6 DEF FinishRun, EndRun, CanFinishRun, AfterFinishRun
<1>7. ASSUME NEW r \in Runs, AbandonLaunch(r) PROVE LeaseConsistent'
  BY <1>7 DEF AbandonLaunch, CanFinishRun, AfterFinishRun
<1>8. ASSUME NEW conv \in Conversations, PrepareWake(conv)
      PROVE  LeaseConsistent'
  BY <1>8 DEF PrepareWake, AfterPrepareWake
<1>9. ASSUME SetReportingPhase PROVE LeaseConsistent'
  BY <1>9 DEF SetReportingPhase, AfterSetPhase
<1>10. ASSUME WaitUser PROVE LeaseConsistent'
  BY <1>10 DEF WaitUser, CanWaitUser, AfterWaitUser
<1>11. ASSUME Answer PROVE LeaseConsistent'
  BY <1>11 DEF Answer, CanAnswer, AfterAnswer
<1>12. ASSUME Cancel PROVE LeaseConsistent'
  BY <1>12 DEF Cancel, CanCancel, AfterCancel
<1>13. ASSUME NEW role \in Roles, NEW to \in Participants, ReplaceAgent(role, to)
       PROVE  LeaseConsistent'
  BY <1>13 DEF ReplaceAgent, CanReplace, AfterReplace
<1>14. CASE UNCHANGED vars
  BY <1>14 DEF vars, TypeOK
<1>. QED
  BY <1>1, <1>2, <1>3, <1>4, <1>5, <1>6, <1>7, <1>8, <1>9, <1>10, <1>11,
     <1>12, <1>13, <1>14 DEF Next, ImplementationDone, Verdict

\* Every step keeps the finished and the failed runs claimed and off the lease.
LEMMA StepReleased ==
  TypeOK /\ LeaseConsistent /\ ReleasedRuns /\ [Next]_vars
    => ReleasedRuns'
<1>. SUFFICES ASSUME TypeOK, LeaseConsistent, ReleasedRuns, [Next]_vars
             PROVE  ReleasedRuns'
  OBVIOUS
<1>. task \in TaskRecords
  BY DEF TypeOK
<1>. USE DEF TaskRecords, history, LeaseConsistent, ReleasedRuns, TypeOK
<1>1. ASSUME NEW p \in Planners, PlanDone(p) PROVE ReleasedRuns'
  BY <1>1 DEF PlanDone, AfterCompleteStage, CanCompleteStage, RoleEvents
<1>2. ASSUME NEW p \in Planners, ReportDone(p) PROVE ReleasedRuns'
  BY <1>2, NoneAssumption DEF ReportDone, CanCompleteReport, AfterCompleteReport
<1>3. ASSUME NEW r \in Runs, NEW e \in RoleEvents, Handover(r, e)
      PROVE  ReleasedRuns'
  BY <1>3 DEF Handover, AfterCompleteStage, CanCompleteStage, RoleEvents
<1>4. ASSUME NEW r \in Runs, AgentWaitUser(r) PROVE ReleasedRuns'
  BY <1>4 DEF AgentWaitUser, CanWaitUser, AfterWaitUser
<1>5. ASSUME NEW r \in Runs, Claim(r) PROVE ReleasedRuns'
  <2>1. turn'[r] \in Turns
    BY <1>5, TurnTyping DEF Claim
  <2>2. r \notin failed
    BY <1>5 DEF Claim
  <2>3. /\ task'.runId = r
        /\ task'.lastFinished = task.lastFinished
        /\ \A q \in Runs \ {r} : turn'[q] = turn[q]
        /\ failed' = failed
    BY <1>5 DEF Claim, AfterClaim
  <2>. QED
    BY <2>1, <2>2, <2>3, NoneAssumption
<1>6. ASSUME NEW r \in Runs, FinishRun(r) PROVE ReleasedRuns'
  BY <1>6, NoneAssumption DEF FinishRun, EndRun, CanFinishRun, AfterFinishRun
<1>7. ASSUME NEW r \in Runs, AbandonLaunch(r) PROVE ReleasedRuns'
  BY <1>7, NoneAssumption DEF AbandonLaunch, CanFinishRun, AfterFinishRun
<1>8. ASSUME NEW conv \in Conversations, PrepareWake(conv) PROVE ReleasedRuns'
  BY <1>8 DEF PrepareWake, AfterPrepareWake
<1>9. ASSUME SetReportingPhase PROVE ReleasedRuns'
  BY <1>9 DEF SetReportingPhase, AfterSetPhase
<1>10. ASSUME WaitUser PROVE ReleasedRuns'
  BY <1>10 DEF WaitUser, CanWaitUser, AfterWaitUser
<1>11. ASSUME Answer PROVE ReleasedRuns'
  BY <1>11 DEF Answer, CanAnswer, AfterAnswer
<1>12. ASSUME Cancel PROVE ReleasedRuns'
  BY <1>12 DEF Cancel, CanCancel, AfterCancel
<1>13. ASSUME NEW role \in Roles, NEW to \in Participants, ReplaceAgent(role, to)
       PROVE  ReleasedRuns'
  BY <1>13 DEF ReplaceAgent, CanReplace, AfterReplace
<1>14. CASE UNCHANGED vars
  BY <1>14 DEF vars, TypeOK
<1>. QED
  BY <1>1, <1>2, <1>3, <1>4, <1>5, <1>6, <1>7, <1>8, <1>9, <1>10, <1>11,
     <1>12, <1>13, <1>14 DEF Next, ImplementationDone, Verdict

\* Every step keeps the role of the stage, and a stage behind an open question.
LEMMA StepStage ==
  TypeOK /\ StageHasRole /\ QuestionHasStage /\ [Next]_vars
    => (StageHasRole /\ QuestionHasStage)'
<1>. SUFFICES ASSUME TypeOK, StageHasRole, QuestionHasStage, [Next]_vars
             PROVE  (StageHasRole /\ QuestionHasStage)'
  OBVIOUS
<1>. task \in TaskRecords
  BY DEF TypeOK
<1>. USE DEF TaskRecords, history, StageHasRole, QuestionHasStage, Stage,
       Statuses, Terminal, Roles
<1>1. ASSUME NEW p \in Planners, PlanDone(p)
      PROVE  (StageHasRole /\ QuestionHasStage)'
  BY <1>1 DEF PlanDone, AfterCompleteStage, CanCompleteStage, RoleEvents
<1>2. ASSUME NEW p \in Planners, ReportDone(p)
      PROVE  (StageHasRole /\ QuestionHasStage)'
  BY <1>2 DEF ReportDone, CanCompleteReport, AfterCompleteReport
<1>3. ASSUME NEW r \in Runs, NEW e \in RoleEvents, Handover(r, e)
      PROVE  (StageHasRole /\ QuestionHasStage)'
  BY <1>3 DEF Handover, AfterCompleteStage, CanCompleteStage, RoleEvents
<1>4. ASSUME NEW r \in Runs, AgentWaitUser(r)
      PROVE  (StageHasRole /\ QuestionHasStage)'
  <2>1. /\ task'.status = "WAITING_USER" /\ task'.suspended = task.status
        /\ task'.role = task.role
    BY <1>4 DEF AgentWaitUser, AfterWaitUser
  <2>2. task'.suspended # None
    BY <2>1, NoneAssumption
  <2>. QED
    BY <2>1, <2>2
<1>5. ASSUME NEW r \in Runs, Claim(r) PROVE (StageHasRole /\ QuestionHasStage)'
  BY <1>5 DEF Claim, CanClaim, AfterClaim
<1>6. ASSUME NEW r \in Runs, FinishRun(r)
      PROVE  (StageHasRole /\ QuestionHasStage)'
  BY <1>6 DEF FinishRun, EndRun, CanFinishRun, AfterFinishRun
<1>7. ASSUME NEW r \in Runs, AbandonLaunch(r)
      PROVE  (StageHasRole /\ QuestionHasStage)'
  BY <1>7 DEF AbandonLaunch, CanFinishRun, AfterFinishRun
<1>8. ASSUME NEW conv \in Conversations, PrepareWake(conv)
      PROVE  (StageHasRole /\ QuestionHasStage)'
  BY <1>8 DEF PrepareWake, AfterPrepareWake
<1>9. ASSUME SetReportingPhase PROVE (StageHasRole /\ QuestionHasStage)'
  BY <1>9 DEF SetReportingPhase, AfterSetPhase
<1>10. ASSUME WaitUser PROVE (StageHasRole /\ QuestionHasStage)'
  <2>1. /\ task'.status = "WAITING_USER" /\ task'.suspended = task.status
        /\ task'.role = task.role
    BY <1>10 DEF WaitUser, AfterWaitUser
  <2>2. task'.suspended # None
    BY <2>1, NoneAssumption
  <2>. QED
    BY <2>1, <2>2
<1>11. ASSUME Answer PROVE (StageHasRole /\ QuestionHasStage)'
  <2>1. /\ task.status = "WAITING_USER" /\ task.suspended # None
        /\ task'.status = task.suspended /\ task'.suspended = None
        /\ task'.question = 0 /\ task'.role = task.role
    BY <1>11 DEF Answer, CanAnswer, AfterAnswer
  <2>. QED
    BY <2>1, NoneAssumption
<1>12. ASSUME Cancel PROVE (StageHasRole /\ QuestionHasStage)'
  BY <1>12 DEF Cancel, CanCancel, AfterCancel
<1>13. ASSUME NEW role \in Roles, NEW to \in Participants, ReplaceAgent(role, to)
       PROVE  (StageHasRole /\ QuestionHasStage)'
  BY <1>13 DEF ReplaceAgent, CanReplace, AfterReplace
<1>14. CASE UNCHANGED vars
  BY <1>14 DEF vars, TypeOK
<1>. QED
  BY <1>1, <1>2, <1>3, <1>4, <1>5, <1>6, <1>7, <1>8, <1>9, <1>10, <1>11,
     <1>12, <1>13, <1>14 DEF Next, ImplementationDone, Verdict

\* Every step keeps the role of a turn that of the status it started from.
LEMMA StepTurn ==
  TypeOK /\ TurnStartsInItsStage /\ [Next]_vars
    => TurnStartsInItsStage'
<1>. SUFFICES ASSUME TypeOK, TurnStartsInItsStage, [Next]_vars
             PROVE  TurnStartsInItsStage'
  OBVIOUS
<1>. task \in TaskRecords
  BY DEF TypeOK
<1>. USE DEF TaskRecords, history, TurnStartsInItsStage, TypeOK, Turns
<1>1. ASSUME NEW p \in Planners, PlanDone(p) PROVE TurnStartsInItsStage'
  BY <1>1 DEF PlanDone, AfterCompleteStage, CanCompleteStage, RoleEvents
<1>2. ASSUME NEW p \in Planners, ReportDone(p) PROVE TurnStartsInItsStage'
  BY <1>2 DEF ReportDone, CanCompleteReport, AfterCompleteReport
<1>3. ASSUME NEW r \in Runs, NEW e \in RoleEvents, Handover(r, e)
      PROVE  TurnStartsInItsStage'
  BY <1>3 DEF Handover, AfterCompleteStage, CanCompleteStage, RoleEvents
<1>4. ASSUME NEW r \in Runs, AgentWaitUser(r) PROVE TurnStartsInItsStage'
  BY <1>4 DEF AgentWaitUser, CanWaitUser, AfterWaitUser
<1>5. ASSUME NEW r \in Runs, Claim(r) PROVE TurnStartsInItsStage'
  BY <1>5 DEF Claim, CanClaim, AfterClaim
<1>6. ASSUME NEW r \in Runs, FinishRun(r) PROVE TurnStartsInItsStage'
  BY <1>6 DEF FinishRun, EndRun, CanFinishRun, AfterFinishRun
<1>7. ASSUME NEW r \in Runs, AbandonLaunch(r) PROVE TurnStartsInItsStage'
  BY <1>7 DEF AbandonLaunch, CanFinishRun, AfterFinishRun
<1>8. ASSUME NEW conv \in Conversations, PrepareWake(conv)
      PROVE  TurnStartsInItsStage'
  BY <1>8 DEF PrepareWake, AfterPrepareWake
<1>9. ASSUME SetReportingPhase PROVE TurnStartsInItsStage'
  BY <1>9 DEF SetReportingPhase, AfterSetPhase
<1>10. ASSUME WaitUser PROVE TurnStartsInItsStage'
  BY <1>10 DEF WaitUser, CanWaitUser, AfterWaitUser
<1>11. ASSUME Answer PROVE TurnStartsInItsStage'
  BY <1>11 DEF Answer, CanAnswer, AfterAnswer
<1>12. ASSUME Cancel PROVE TurnStartsInItsStage'
  BY <1>12 DEF Cancel, CanCancel, AfterCancel
<1>13. ASSUME NEW role \in Roles, NEW to \in Participants, ReplaceAgent(role, to)
       PROVE  TurnStartsInItsStage'
  BY <1>13 DEF ReplaceAgent, CanReplace, AfterReplace
<1>14. CASE UNCHANGED vars
  BY <1>14 DEF vars, TypeOK
<1>. QED
  BY <1>1, <1>2, <1>3, <1>4, <1>5, <1>6, <1>7, <1>8, <1>9, <1>10, <1>11,
     <1>12, <1>13, <1>14 DEF Next, ImplementationDone, Verdict

\* Every step keeps a task that has spent its retries away from its stages.
LEMMA StepBudget ==
  TypeOK /\ QuestionHasStage /\ RetryBudget /\ SpentBudgetBlocks /\ [Next]_vars
    => (RetryBudget /\ SpentBudgetBlocks)'
<1>. SUFFICES ASSUME TypeOK, QuestionHasStage, RetryBudget, SpentBudgetBlocks,
                    [Next]_vars
             PROVE  (RetryBudget /\ SpentBudgetBlocks)'
  OBVIOUS
<1>. task \in TaskRecords
  BY DEF TypeOK
<1>. USE DEF TaskRecords, history, RetryBudget, SpentBudgetBlocks,
       QuestionHasStage, Terminal, Statuses
<1>1. ASSUME NEW p \in Planners, PlanDone(p)
      PROVE  (RetryBudget /\ SpentBudgetBlocks)'
  BY <1>1 DEF PlanDone, AfterCompleteStage, CanCompleteStage, RoleEvents
<1>2. ASSUME NEW p \in Planners, ReportDone(p)
      PROVE  (RetryBudget /\ SpentBudgetBlocks)'
  BY <1>2 DEF ReportDone, CanCompleteReport, AfterCompleteReport
<1>3. ASSUME NEW r \in Runs, NEW e \in RoleEvents, Handover(r, e)
      PROVE  (RetryBudget /\ SpentBudgetBlocks)'
  BY <1>3 DEF Handover, AfterCompleteStage, CanCompleteStage, RoleEvents
<1>4. ASSUME NEW r \in Runs, AgentWaitUser(r)
      PROVE  (RetryBudget /\ SpentBudgetBlocks)'
  BY <1>4 DEF AgentWaitUser, CanWaitUser, AfterWaitUser
<1>5. ASSUME NEW r \in Runs, Claim(r) PROVE (RetryBudget /\ SpentBudgetBlocks)'
  BY <1>5 DEF Claim, CanClaim, AfterClaim
<1>6. ASSUME NEW r \in Runs, FinishRun(r)
      PROVE  (RetryBudget /\ SpentBudgetBlocks)'
  BY <1>6 DEF FinishRun, EndRun, CanFinishRun, AfterFinishRun
<1>7. ASSUME NEW r \in Runs, AbandonLaunch(r)
      PROVE  (RetryBudget /\ SpentBudgetBlocks)'
  BY <1>7 DEF AbandonLaunch, CanFinishRun, AfterFinishRun
<1>8. ASSUME NEW conv \in Conversations, PrepareWake(conv)
      PROVE  (RetryBudget /\ SpentBudgetBlocks)'
  BY <1>8 DEF PrepareWake, AfterPrepareWake
<1>9. ASSUME SetReportingPhase PROVE (RetryBudget /\ SpentBudgetBlocks)'
  BY <1>9 DEF SetReportingPhase, AfterSetPhase
<1>10. ASSUME WaitUser PROVE (RetryBudget /\ SpentBudgetBlocks)'
  BY <1>10 DEF WaitUser, CanWaitUser, AfterWaitUser
<1>11. ASSUME Answer PROVE (RetryBudget /\ SpentBudgetBlocks)'
  BY <1>11 DEF Answer, CanAnswer, AfterAnswer
<1>12. ASSUME Cancel PROVE (RetryBudget /\ SpentBudgetBlocks)'
  BY <1>12 DEF Cancel, CanCancel, AfterCancel
<1>13. ASSUME NEW role \in Roles, NEW to \in Participants, ReplaceAgent(role, to)
       PROVE  (RetryBudget /\ SpentBudgetBlocks)'
  BY <1>13 DEF ReplaceAgent, CanReplace, AfterReplace
<1>14. CASE UNCHANGED vars
  BY <1>14 DEF vars, TypeOK
<1>. QED
  BY <1>1, <1>2, <1>3, <1>4, <1>5, <1>6, <1>7, <1>8, <1>9, <1>10, <1>11,
     <1>12, <1>13, <1>14 DEF Next, ImplementationDone, Verdict

\* Every step keeps the verdict of a report younger than its delivery.
LEMMA StepReports ==
  TypeOK /\ QuestionHasStage /\ ReportsReviewedDelivery /\ ReferencesAreOld /\
  [Next]_vars
    => (ReportsReviewedDelivery /\ ReferencesAreOld)'
<1>. SUFFICES ASSUME TypeOK, QuestionHasStage, ReportsReviewedDelivery,
                    ReferencesAreOld, [Next]_vars
             PROVE  (ReportsReviewedDelivery /\ ReferencesAreOld)'
  OBVIOUS
<1>. task \in TaskRecords
  BY DEF TypeOK
<1>. USE DEF TaskRecords, history, ReportsReviewedDelivery, ReferencesAreOld,
       QuestionHasStage, Stage, Terminal, Statuses
<1>1. ASSUME NEW p \in Planners, PlanDone(p)
      PROVE  (ReportsReviewedDelivery /\ ReferencesAreOld)'
  BY <1>1 DEF PlanDone, AfterCompleteStage, CanCompleteStage, RoleEvents
<1>2. ASSUME NEW p \in Planners, ReportDone(p)
      PROVE  (ReportsReviewedDelivery /\ ReferencesAreOld)'
  BY <1>2 DEF ReportDone, CanCompleteReport, AfterCompleteReport
<1>3. ASSUME NEW r \in Runs, NEW e \in RoleEvents, Handover(r, e)
      PROVE  (ReportsReviewedDelivery /\ ReferencesAreOld)'
  BY <1>3 DEF Handover, AfterCompleteStage, CanCompleteStage, RoleEvents
<1>4. ASSUME NEW r \in Runs, AgentWaitUser(r)
      PROVE  (ReportsReviewedDelivery /\ ReferencesAreOld)'
  BY <1>4 DEF AgentWaitUser, CanWaitUser, AfterWaitUser
<1>5. ASSUME NEW r \in Runs, Claim(r)
      PROVE  (ReportsReviewedDelivery /\ ReferencesAreOld)'
  BY <1>5 DEF Claim, CanClaim, AfterClaim
<1>6. ASSUME NEW r \in Runs, FinishRun(r)
      PROVE  (ReportsReviewedDelivery /\ ReferencesAreOld)'
  BY <1>6 DEF FinishRun, EndRun, CanFinishRun, AfterFinishRun
<1>7. ASSUME NEW r \in Runs, AbandonLaunch(r)
      PROVE  (ReportsReviewedDelivery /\ ReferencesAreOld)'
  BY <1>7 DEF AbandonLaunch, CanFinishRun, AfterFinishRun
<1>8. ASSUME NEW conv \in Conversations, PrepareWake(conv)
      PROVE  (ReportsReviewedDelivery /\ ReferencesAreOld)'
  BY <1>8 DEF PrepareWake, AfterPrepareWake
<1>9. ASSUME SetReportingPhase
      PROVE  (ReportsReviewedDelivery /\ ReferencesAreOld)'
  BY <1>9 DEF SetReportingPhase, AfterSetPhase
<1>10. ASSUME WaitUser PROVE (ReportsReviewedDelivery /\ ReferencesAreOld)'
  BY <1>10 DEF WaitUser, CanWaitUser, AfterWaitUser
<1>11. ASSUME Answer PROVE (ReportsReviewedDelivery /\ ReferencesAreOld)'
  <2>1. /\ task.status = "WAITING_USER" /\ task.suspended # None
        /\ task'.status = task.suspended /\ task'.suspended = None
        /\ task'.revision = task.revision + 1
        /\ task'.delivery = task.delivery /\ task'.review = task.review
    BY <1>11 DEF Answer, CanAnswer, AfterAnswer
  <2>. QED
    BY <2>1, NoneAssumption
<1>12. ASSUME Cancel PROVE (ReportsReviewedDelivery /\ ReferencesAreOld)'
  BY <1>12 DEF Cancel, CanCancel, AfterCancel
<1>13. ASSUME NEW role \in Roles, NEW to \in Participants, ReplaceAgent(role, to)
       PROVE  (ReportsReviewedDelivery /\ ReferencesAreOld)'
  BY <1>13 DEF ReplaceAgent, CanReplace, AfterReplace
<1>14. CASE UNCHANGED vars
  BY <1>14 DEF vars, TypeOK
<1>. QED
  BY <1>1, <1>2, <1>3, <1>4, <1>5, <1>6, <1>7, <1>8, <1>9, <1>10, <1>11,
     <1>12, <1>13, <1>14 DEF Next, ImplementationDone, Verdict

\* Every step keeps a run that handed over off its own role, and so from a second
\* handover.
LEMMA StepHandover ==
  TypeOK /\ StageHasRole /\ TurnStartsInItsStage /\ LeaseConsistent /\
  HandoverIsNoFailure /\ ReleasedRuns /\ OneHandoverPerTurn /\ HandedOver /\
  [Next]_vars
    => (OneHandoverPerTurn /\ HandedOver)'
<1>. SUFFICES ASSUME TypeOK, StageHasRole, TurnStartsInItsStage,
                    LeaseConsistent, HandoverIsNoFailure, ReleasedRuns,
                    OneHandoverPerTurn, HandedOver, [Next]_vars
             PROVE  (OneHandoverPerTurn /\ HandedOver)'
  OBVIOUS
<1>. task \in TaskRecords
  BY DEF TypeOK
<1>. USE DEF TaskRecords, history, OneHandoverPerTurn, HandedOver, StageHasRole,
       TurnStartsInItsStage, LeaseConsistent, RunActive, TypeOK, Turns,
       BackgroundRoles
<1>1. ASSUME NEW p \in Planners, PlanDone(p)
      PROVE  (OneHandoverPerTurn /\ HandedOver)'
  BY <1>1 DEF PlanDone, AfterCompleteStage, CanCompleteStage, RoleEvents
<1>2. ASSUME NEW p \in Planners, ReportDone(p)
      PROVE  (OneHandoverPerTurn /\ HandedOver)'
  BY <1>2, NoneAssumption DEF ReportDone, CanCompleteReport, AfterCompleteReport
<1>3. ASSUME NEW r \in Runs, NEW e \in RoleEvents, Handover(r, e)
      PROVE  (OneHandoverPerTurn /\ HandedOver)'
  BY <1>3 DEF Handover, AfterCompleteStage, CanCompleteStage, RoleEvents
<1>4. ASSUME NEW r \in Runs, AgentWaitUser(r)
      PROVE  (OneHandoverPerTurn /\ HandedOver)'
  BY <1>4 DEF AgentWaitUser, CanWaitUser, AfterWaitUser
<1>5. ASSUME NEW r \in Runs, Claim(r) PROVE (OneHandoverPerTurn /\ HandedOver)'
  BY <1>5 DEF Claim, CanClaim, AfterClaim
<1>6. ASSUME NEW r \in Runs, FinishRun(r)
      PROVE  (OneHandoverPerTurn /\ HandedOver)'
  BY <1>6, NoneAssumption DEF FinishRun, EndRun, CanFinishRun, AfterFinishRun
<1>7. ASSUME NEW r \in Runs, AbandonLaunch(r)
      PROVE  (OneHandoverPerTurn /\ HandedOver)'
  BY <1>7, NoneAssumption DEF AbandonLaunch, CanFinishRun, AfterFinishRun
<1>8. ASSUME NEW conv \in Conversations, PrepareWake(conv)
      PROVE  (OneHandoverPerTurn /\ HandedOver)'
  BY <1>8 DEF PrepareWake, AfterPrepareWake
<1>9. ASSUME SetReportingPhase PROVE (OneHandoverPerTurn /\ HandedOver)'
  BY <1>9 DEF SetReportingPhase, AfterSetPhase
<1>10. ASSUME WaitUser PROVE (OneHandoverPerTurn /\ HandedOver)'
  BY <1>10 DEF WaitUser, CanWaitUser, AfterWaitUser
<1>11. ASSUME Answer PROVE (OneHandoverPerTurn /\ HandedOver)'
  BY <1>11 DEF Answer, CanAnswer, AfterAnswer
<1>12. ASSUME Cancel PROVE (OneHandoverPerTurn /\ HandedOver)'
  BY <1>12 DEF Cancel, CanCancel, AfterCancel
<1>13. ASSUME NEW role \in Roles, NEW to \in Participants, ReplaceAgent(role, to)
       PROVE  (OneHandoverPerTurn /\ HandedOver)'
  BY <1>13 DEF ReplaceAgent, CanReplace, AfterReplace
<1>14. CASE UNCHANGED vars
  BY <1>14 DEF vars, TypeOK
<1>. QED
  BY <1>1, <1>2, <1>3, <1>4, <1>5, <1>6, <1>7, <1>8, <1>9, <1>10, <1>11,
     <1>12, <1>13, <1>14 DEF Next, ImplementationDone, Verdict

\* Every step counts a failed run once, and never one that handed over.
LEMMA StepFailures ==
  TypeOK /\ StageHasRole /\ TurnStartsInItsStage /\ HandedOver /\
  ReleasedRuns /\ IsFiniteSet(failed) /\ HandoverIsNoFailure /\
  IsFiniteSet(failed) /\ FailuresAreRuns /\ [Next]_vars
    => (HandoverIsNoFailure /\ IsFiniteSet(failed) /\ FailuresAreRuns)'
<1>. SUFFICES ASSUME TypeOK, StageHasRole, TurnStartsInItsStage, HandedOver,
                    ReleasedRuns, IsFiniteSet(failed), HandoverIsNoFailure,
                    IsFiniteSet(failed), FailuresAreRuns, [Next]_vars
            
PROVE  (HandoverIsNoFailure /\ IsFiniteSet(failed) /\ FailuresAreRuns)'
  OBVIOUS
<1>. task \in TaskRecords
  BY DEF TypeOK
<1>. USE DEF TaskRecords, history, HandoverIsNoFailure, FailuresAreRuns,
       HandedOver, StageHasRole, ReleasedRuns, TurnStartsInItsStage, TypeOK,
       Turns
<1>1. ASSUME NEW p \in Planners, PlanDone(p)
      PROVE  (HandoverIsNoFailure /\ IsFiniteSet(failed) /\ FailuresAreRuns)'
  BY <1>1 DEF PlanDone, AfterCompleteStage, CanCompleteStage, RoleEvents
<1>2. ASSUME NEW p \in Planners, ReportDone(p)
      PROVE  (HandoverIsNoFailure /\ IsFiniteSet(failed) /\ FailuresAreRuns)'
  BY <1>2 DEF ReportDone, CanCompleteReport, AfterCompleteReport
<1>3. ASSUME NEW r \in Runs, NEW e \in RoleEvents, Handover(r, e)
      PROVE  (HandoverIsNoFailure /\ IsFiniteSet(failed) /\ FailuresAreRuns)'
  <2>1. r \notin failed /\ failed' = failed
    BY <1>3 DEF Handover, CanCompleteStage, RoleEvents, BackgroundRoles
  <2>2. task'.failures = task.failures
    BY <1>3 DEF Handover, AfterCompleteStage
  <2>3. \A q \in Runs \ {r} : handoffs'[q] = handoffs[q]
    BY <1>3 DEF Handover
  <2>. QED
    BY <2>1, <2>2, <2>3
<1>4. ASSUME NEW r \in Runs, AgentWaitUser(r)
      PROVE  (HandoverIsNoFailure /\ IsFiniteSet(failed) /\ FailuresAreRuns)'
  BY <1>4 DEF AgentWaitUser, CanWaitUser, AfterWaitUser
<1>5. ASSUME NEW r \in Runs, Claim(r)
      PROVE  (HandoverIsNoFailure /\ IsFiniteSet(failed) /\ FailuresAreRuns)'
  BY <1>5 DEF Claim, CanClaim, AfterClaim
<1>6. ASSUME NEW r \in Runs, FinishRun(r)
      PROVE  (HandoverIsNoFailure /\ IsFiniteSet(failed) /\ FailuresAreRuns)'
  <2>1. r \notin failed /\ task.runId = r /\ turn[r] # None /\ handoffs' = handoffs
    BY <1>6 DEF FinishRun, EndRun, CanFinishRun
  <2>2. PICK code \in {0, 1}, reason \in {"exit", "timeout", "interrupted"} :
          /\ task' = AfterFinishRun(task, r, RunResult(turn[r].from, task.status, code, reason))
          /\ failed' = IF RunResult(turn[r].from, task.status, code, reason) = "completed"
                       THEN failed ELSE failed \cup {r}
    BY <1>6 DEF FinishRun, EndRun
  <2>. DEFINE result == RunResult(turn[r].from, task.status, code, reason)
  <2>3. CASE result = "completed"
    <3>1. task'.failures = task.failures /\ failed' = failed
      BY <2>2, <2>3 DEF AfterFinishRun
    <3>. QED
      BY <2>1, <3>1
  <2>4. CASE result # "completed"
    <3>1. task'.failures = task.failures + 1 /\ failed' = failed \cup {r}
      BY <2>2, <2>4 DEF AfterFinishRun
    <3>2. /\ IsFiniteSet(failed \cup {r})
          /\ Cardinality(failed \cup {r}) = Cardinality(failed) + 1
      BY <2>1, FS_AddElement
    <3>3. task.status = turn[r].from
      BY <2>1, <2>4, NoneAssumption DEF RunResult
    <3>4. handoffs[r] = 0
      BY <2>1, <3>3 DEF RoleOf, Stage
    <3>. QED
      BY <2>1, <3>1, <3>2, <3>4
  <2>. QED
    BY <2>3, <2>4
<1>7. ASSUME NEW r \in Runs, AbandonLaunch(r)
      PROVE  (HandoverIsNoFailure /\ IsFiniteSet(failed) /\ FailuresAreRuns)'
  <2>1. RunResult(None, task.status, 1, "exit") = "completed"
    BY DEF RunResult
  <2>2. task'.failures = task.failures
    BY <1>7, <2>1 DEF AbandonLaunch, AfterFinishRun
  <2>3. failed' = failed /\ handoffs' = handoffs
    BY <1>7 DEF AbandonLaunch
  <2>. QED
    BY <2>2, <2>3
<1>8. ASSUME NEW conv \in Conversations, PrepareWake(conv)
      PROVE  (HandoverIsNoFailure /\ IsFiniteSet(failed) /\ FailuresAreRuns)'
  BY <1>8 DEF PrepareWake, AfterPrepareWake
<1>9. ASSUME SetReportingPhase
      PROVE  (HandoverIsNoFailure /\ IsFiniteSet(failed) /\ FailuresAreRuns)'
  BY <1>9 DEF SetReportingPhase, AfterSetPhase
<1>10. ASSUME WaitUser
       PROVE  (HandoverIsNoFailure /\ IsFiniteSet(failed) /\ FailuresAreRuns)'
  BY <1>10 DEF WaitUser, CanWaitUser, AfterWaitUser
<1>11. ASSUME Answer
       PROVE  (HandoverIsNoFailure /\ IsFiniteSet(failed) /\ FailuresAreRuns)'
  BY <1>11 DEF Answer, CanAnswer, AfterAnswer
<1>12. ASSUME Cancel
       PROVE  (HandoverIsNoFailure /\ IsFiniteSet(failed) /\ FailuresAreRuns)'
  BY <1>12 DEF Cancel, CanCancel, AfterCancel
<1>13. ASSUME NEW role \in Roles, NEW to \in Participants, ReplaceAgent(role, to)
       PROVE  (HandoverIsNoFailure /\ IsFiniteSet(failed) /\ FailuresAreRuns)'
  BY <1>13 DEF ReplaceAgent, CanReplace, AfterReplace
<1>14. CASE UNCHANGED vars
  BY <1>14 DEF vars, TypeOK
<1>. QED
  BY <1>1, <1>2, <1>3, <1>4, <1>5, <1>6, <1>7, <1>8, <1>9, <1>10, <1>11,
     <1>12, <1>13, <1>14 DEF Next, ImplementationDone, Verdict

---------------------------------------------------------------------------
(* The safety of the relay.                                                *)

\* The invariant holds of the records a relay starts on.
LEMMA InitInvariant == Init => RelayInvariant
<1>. SUFFICES ASSUME Init PROVE RelayInvariant
  OBVIOUS
<1>. USE DEF Init
<1>1. task \in TaskRecords /\ AtRest(task)
  BY StartAssumption
<1>2. TypeOK
  BY <1>1 DEF TypeOK
<1>3. OwnerIsAssigned /\ LeaseConsistent /\ ReleasedRuns
  BY <1>1 DEF AtRest, OwnerIsAssigned, LeaseConsistent, ReleasedRuns
<1>4. Stage(task) = task.status
  BY <1>1 DEF AtRest, Stage
<1>5. StageHasRole /\ QuestionHasStage /\ TurnStartsInItsStage
  BY <1>1, <1>4 DEF AtRest, StageHasRole, QuestionHasStage, TurnStartsInItsStage
<1>6. /\ OneHandoverPerTurn /\ HandedOver /\ HandoverIsNoFailure
      /\ IsFiniteSet(failed) /\ FailuresAreRuns
  BY <1>1, FS_EmptySet, NoneAssumption
     DEF AtRest, OneHandoverPerTurn, HandedOver, HandoverIsNoFailure,
      FailuresAreRuns
<1>7. /\ RetryBudget /\ SpentBudgetBlocks
      /\ ReportsReviewedDelivery /\ ReferencesAreOld
  BY <1>1, <1>4, RetriesAssumption
     DEF AtRest, RetryBudget, SpentBudgetBlocks, ReportsReviewedDelivery,
         ReferencesAreOld, TaskRecords
<1>. QED
  BY <1>2, <1>3, <1>5, <1>6, <1>7 DEF RelayInvariant

\* The invariant is inductive.
LEMMA StepInvariant == RelayInvariant /\ [Next]_vars => RelayInvariant'
BY StepTyping, StepOwner, StepLease, StepReleased, StepStage, StepTurn,
   StepBudget, StepReports, StepHandover, StepFailures DEF RelayInvariant

\* The invariant holds in every reachable state of every relay.
THEOREM Safety == Spec => []RelayInvariant
BY InitInvariant, StepInvariant, PTL DEF Spec

\* Whoever the task waits for is the participant assigned to the current role,
\* through handovers, verdicts and replacements (complete_stage, replace_agent).
THEOREM OwnerSafety == Spec => []OwnerIsAssigned
BY Safety, PTL DEF RelayInvariant

\* The lease, the writer session and the launch context agree about which run is
\* active (claim, finish_run, complete_report).
THEOREM LeaseSafety == Spec => []LeaseConsistent
BY Safety, PTL DEF RelayInvariant

\* A run's agent hands over at most once (complete_stage).
THEOREM HandoverSafety == Spec => []OneHandoverPerTurn
BY Safety, PTL DEF RelayInvariant

\* A run that handed over is never counted as failed, however late the Runner
\* comes to look (classify_run_result, finish_run).
THEOREM HandoverSuccess == Spec => []HandoverIsNoFailure
BY Safety, PTL DEF RelayInvariant

\* agent_failure_count is the number of runs that failed, each counted once
\* (finish_run).
THEOREM FailureCount == Spec => []FailuresAreRuns
BY Safety, PTL DEF RelayInvariant

\* Beyond max_agent_retries no stage is left to retry (finish_run).
THEOREM RetrySafety == Spec => []RetryBudget
BY Safety, PTL DEF RelayInvariant

\* Every report follows a verdict on the last delivery (complete_stage,
\* complete_report).
THEOREM ReportSafety == Spec => []ReportsReviewedDelivery
BY Safety, PTL DEF RelayInvariant

---------------------------------------------------------------------------
(* What no step does.                                                      *)

\* No step moves a closed task.
LEMMA TerminalStep ==
  ASSUME TypeOK, [Next]_vars
  PROVE  task.status \in Terminal => task'.status = task.status
<1>. DEFINE Goal == task.status \in Terminal => task'.status = task.status
<1>. task \in TaskRecords
  BY DEF TypeOK
<1>. USE DEF TaskRecords, Terminal, Statuses
<1>1. ASSUME NEW p \in Planners, PlanDone(p) PROVE Goal
  BY <1>1 DEF PlanDone, AfterCompleteStage, CanCompleteStage, RoleEvents
<1>2. ASSUME NEW p \in Planners, ReportDone(p) PROVE Goal
  BY <1>2 DEF ReportDone, CanCompleteReport, AfterCompleteReport
<1>3. ASSUME NEW r \in Runs, NEW e \in RoleEvents, Handover(r, e) PROVE Goal
  BY <1>3 DEF Handover, AfterCompleteStage, CanCompleteStage, RoleEvents
<1>4. ASSUME NEW r \in Runs, AgentWaitUser(r) PROVE Goal
  BY <1>4 DEF AgentWaitUser, CanWaitUser, AfterWaitUser
<1>5. ASSUME NEW r \in Runs, Claim(r) PROVE Goal
  BY <1>5 DEF Claim, CanClaim, AfterClaim
<1>6. ASSUME NEW r \in Runs, FinishRun(r) PROVE Goal
  <2>1. turn[r] \in Turns
    BY <1>6 DEF FinishRun, EndRun, TypeOK
  <2>2. task.status \in Terminal => turn[r].from # task.status
    BY <2>1 DEF Turns
  <2>3. PICK code \in {0, 1}, reason \in {"exit", "timeout", "interrupted"} :
          task' = AfterFinishRun(task, r, RunResult(turn[r].from, task.status, code, reason))
    BY <1>6 DEF FinishRun, EndRun
  <2>4. task.status \in Terminal =>
          RunResult(turn[r].from, task.status, code, reason) = "completed"
    BY <2>2 DEF RunResult
  <2>. QED
    BY <2>3, <2>4 DEF AfterFinishRun
<1>7. ASSUME NEW r \in Runs, AbandonLaunch(r) PROVE Goal
  <2>1. RunResult(None, task.status, 1, "exit") = "completed"
    BY DEF RunResult
  <2>. QED
    BY <1>7, <2>1 DEF AbandonLaunch, AfterFinishRun
<1>8. ASSUME NEW conv \in Conversations, PrepareWake(conv) PROVE Goal
  BY <1>8 DEF PrepareWake, AfterPrepareWake
<1>9. ASSUME SetReportingPhase PROVE Goal
  BY <1>9 DEF SetReportingPhase, AfterSetPhase
<1>10. ASSUME WaitUser PROVE Goal
  BY <1>10 DEF WaitUser, CanWaitUser, AfterWaitUser
<1>11. ASSUME Answer PROVE Goal
  BY <1>11 DEF Answer, CanAnswer, AfterAnswer
<1>12. ASSUME Cancel PROVE Goal
  BY <1>12 DEF Cancel, CanCancel, AfterCancel
<1>13. ASSUME NEW role \in Roles, NEW to \in Participants, ReplaceAgent(role, to)
       PROVE  Goal
  BY <1>13 DEF ReplaceAgent, CanReplace, AfterReplace
<1>14. CASE UNCHANGED vars
  BY <1>14 DEF vars
<1>. QED
  BY <1>1, <1>2, <1>3, <1>4, <1>5, <1>6, <1>7, <1>8, <1>9, <1>10, <1>11,
     <1>12, <1>13, <1>14 DEF Next, ImplementationDone, Verdict

\* A step takes the next revision or changes the reporting phase alone.
LEMMA RevisionStep ==
  ASSUME TypeOK, [Next]_vars
  PROVE  \/ task' = task
         \/ task'.revision = task.revision + 1
         \/ /\ task'.revision = task.revision
            /\ task' = [task EXCEPT !.phase = task'.phase]
<1>. DEFINE Goal == \/ task' = task
         \/ task'.revision = task.revision + 1
         \/ /\ task'.revision = task.revision
            /\ task' = [task EXCEPT !.phase = task'.phase]
<1>. task \in TaskRecords
  BY DEF TypeOK
<1>. USE DEF TaskRecords
<1>1. ASSUME NEW p \in Planners, PlanDone(p) PROVE Goal
  BY <1>1 DEF PlanDone, AfterCompleteStage, CanCompleteStage, RoleEvents
<1>2. ASSUME NEW p \in Planners, ReportDone(p) PROVE Goal
  BY <1>2 DEF ReportDone, CanCompleteReport, AfterCompleteReport
<1>3. ASSUME NEW r \in Runs, NEW e \in RoleEvents, Handover(r, e) PROVE Goal
  BY <1>3 DEF Handover, AfterCompleteStage, CanCompleteStage, RoleEvents
<1>4. ASSUME NEW r \in Runs, AgentWaitUser(r) PROVE Goal
  BY <1>4 DEF AgentWaitUser, CanWaitUser, AfterWaitUser
<1>5. ASSUME NEW r \in Runs, Claim(r) PROVE Goal
  BY <1>5 DEF Claim, CanClaim, AfterClaim
<1>6. ASSUME NEW r \in Runs, FinishRun(r) PROVE Goal
  BY <1>6 DEF FinishRun, EndRun, CanFinishRun, AfterFinishRun
<1>7. ASSUME NEW r \in Runs, AbandonLaunch(r) PROVE Goal
  BY <1>7 DEF AbandonLaunch, CanFinishRun, AfterFinishRun
<1>8. ASSUME NEW conv \in Conversations, PrepareWake(conv) PROVE Goal
  BY <1>8 DEF PrepareWake, AfterPrepareWake
<1>9. ASSUME SetReportingPhase PROVE Goal
  BY <1>9 DEF SetReportingPhase, AfterSetPhase
<1>10. ASSUME WaitUser PROVE Goal
  BY <1>10 DEF WaitUser, CanWaitUser, AfterWaitUser
<1>11. ASSUME Answer PROVE Goal
  BY <1>11 DEF Answer, CanAnswer, AfterAnswer
<1>12. ASSUME Cancel PROVE Goal
  BY <1>12 DEF Cancel, CanCancel, AfterCancel
<1>13. ASSUME NEW role \in Roles, NEW to \in Participants, ReplaceAgent(role, to)
       PROVE  Goal
  BY <1>13 DEF ReplaceAgent, CanReplace, AfterReplace
<1>14. CASE UNCHANGED vars
  BY <1>14 DEF vars
<1>. QED
  BY <1>1, <1>2, <1>3, <1>4, <1>5, <1>6, <1>7, <1>8, <1>9, <1>10, <1>11,
     <1>12, <1>13, <1>14 DEF Next, ImplementationDone, Verdict

\* DONE and CANCELLED are final: no late handover, answer or finalization moves a
\* closed task (complete_stage, finish_run, answer).
THEOREM ClosedForGood == Spec => TerminalIsFinal
<1>1. TypeOK /\ [Next]_vars =>
        [task.status \in Terminal => task'.status = task.status]_vars
  BY TerminalStep
<1>. QED
  BY <1>1, Typing, PTL DEF Spec, TerminalIsFinal

\* The revision orders the history of the record (every writer of STATE.md).
THEOREM RevisionHistory == Spec => RevisionOrders
<1>1. TypeOK /\ [Next]_vars =>
        [task' # task =>
           \/ task'.revision = task.revision + 1
           \/ /\ task'.revision = task.revision
              /\ task' = [task EXCEPT !.phase = task'.phase]]_vars
  BY RevisionStep
<1>. QED
  BY <1>1, Typing, PTL DEF Spec, RevisionOrders

=============================================================================
