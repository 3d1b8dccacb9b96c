------------------------------- MODULE RelayTask -------------------------------
(***************************************************************************)
(* What the relay promises about one task: every accepted operation acts   *)
(* on the record as a single step, on the revision its caller saw.  The    *)
(* actors are the foreground Planner, the agents of the background runs    *)
(* (a run's agent may still be alive after the Runner has given it up),    *)
(* the Runner and the user.  StateStore implements this specification with *)
(* a lock file, snapshots and crashes.                                     *)
(***************************************************************************)
EXTENDS TaskRecord, FiniteSets

CONSTANTS
  MaxRevision,      \* bound: no operation starts past this revision
  StartingTasks     \* records the relay may be (re)started on

\* A task between two turns: freshly planned, or taken up from a clone of the
\* repository at a later stage.
AtRest(s) ==
  /\ s.status \in {"PLANNING", "IMPLEMENTING", "REVIEWING", "REPORTING"}
  /\ s.role = CASE s.status = "IMPLEMENTING" -> "implementer"
                [] s.status = "REVIEWING" -> "reviewer"
                [] OTHER -> "planner"
  /\ \A role \in Roles : s.assignments[role] \in ParticipantsOf(role)
  /\ s.participant = s.assignments[s.role]
  /\ s.runId = None /\ s.writer = None /\ ~RunActive(s)
  /\ s.lastFinished = None /\ s.failures = 0 /\ s.suspended = None /\ s.question = 0
  /\ s.phase = None /\ s.wakeKey = None
  /\ s.status = "REVIEWING" => s.delivery > 0
  /\ s.status = "REPORTING" => s.review > s.delivery /\ s.delivery > 0
  /\ s.delivery <= s.revision /\ s.review <= s.revision

ASSUME StartAssumption ==
  StartingTasks \subseteq TaskRecords /\ \A s \in StartingTasks : AtRest(s)

BackgroundRoles == {"implementer", "reviewer"}
Turns == [role : BackgroundRoles, who : Participants,
          from : {"IMPLEMENTING", "REVIEWING"}]

ASSUME NoneAssumption ==
  /\ None \notin Runs
  /\ None \notin WakeKeys
  /\ None \notin Statuses
  /\ None \notin Turns

VARIABLES
  task,       \* STATE.md
  turn,       \* the launch context of every run, None before it is claimed
  handoffs,   \* history: how many stages each run's agent has handed over
  failed      \* history: runs the Runner counted as failed

vars == <<task, turn, handoffs, failed>>
history == <<handoffs, failed>>

TypeOK ==
  /\ task \in TaskRecords
  /\ turn \in [Runs -> Turns \cup {None}]
  /\ handoffs \in [Runs -> Nat]
  /\ failed \subseteq Runs

Init ==
  /\ task \in StartingTasks
  /\ turn = [r \in Runs |-> None]
  /\ handoffs = [r \in Runs |-> 0]
  /\ failed = {}

Bounded == task.revision < MaxRevision

\* Supervisor.tick maps a status to the role it launches.
RoleOf(status) ==
  CASE status = "IMPLEMENTING" -> "implementer"
    [] status = "REVIEWING" -> "reviewer"

---------------------------------------------------------------------------
(* The foreground Planner.                                                 *)

PlanDone(p) ==
  \E e \in RoleEvents :
    /\ e.role = "planner"
    /\ Bounded
    /\ CanCompleteStage(task, e, p, None)
    /\ task' = AfterCompleteStage(task, e)
    /\ UNCHANGED <<turn, history>>

ReportDone(p) ==
  /\ Bounded
  /\ CanCompleteReport(task, p, task.wakeKey, task.delivery, task.review)
  /\ task' = AfterCompleteReport(task)
  /\ UNCHANGED <<turn, history>>

---------------------------------------------------------------------------
(* The agent of run r.  It knows its role and participant from the launch  *)
(* context and speaks for no other.                                        *)

Handover(r, e) ==
  /\ Bounded
  /\ turn[r] # None
  /\ e.role = turn[r].role
  /\ CanCompleteStage(task, e, turn[r].who, r)
  /\ task' = AfterCompleteStage(task, e)
  /\ handoffs' = [handoffs EXCEPT ![r] = @ + 1]
  /\ UNCHANGED <<turn, failed>>

ImplementationDone(r) ==
  \E e \in RoleEvents : e.role = "implementer" /\ Handover(r, e)

Verdict(r) ==
  \E e \in RoleEvents : e.role = "reviewer" /\ Handover(r, e)

AgentWaitUser(r) ==
  /\ Bounded
  /\ turn[r] # None
  /\ CanWaitUser(task)
  /\ task' = AfterWaitUser(task)
  /\ UNCHANGED <<turn, history>>

---------------------------------------------------------------------------
(* The Runner: Supervisor.tick and ReportingCoordinator.tick.              *)

Claim(r) ==
  /\ Bounded
  /\ turn[r] = None
  /\ task.status \in {"IMPLEMENTING", "REVIEWING"}
  /\ CanClaim(task)
  /\ task' = AfterClaim(task, r)
  /\ turn' = [turn EXCEPT ![r] = [role |-> RoleOf(task.status),
                                  who  |-> task.participant,
                                  from |-> task.status]]
  /\ UNCHANGED history

\* The run ended with an exit code, for a reason.
EndRun(r, code, reason) ==
  LET result == RunResult(turn[r].from, task.status, code, reason)
  IN /\ Bounded
     /\ turn[r] # None
     /\ CanFinishRun(task, r)
     /\ task' = AfterFinishRun(task, r, result)
     /\ failed' = IF result = "completed" THEN failed ELSE failed \cup {r}
     /\ UNCHANGED <<turn, handoffs>>

\* Its worker exited, timed out or was found gone.
FinishRun(r) ==
  \E code \in {0, 1}, reason \in {"exit", "timeout", "interrupted"} :
    EndRun(r, code, reason)

\* The claim succeeded and the launch did not: finish_run without a start
\* status releases the lease.
AbandonLaunch(r) ==
  /\ Bounded
  /\ turn[r] # None
  /\ CanFinishRun(task, r)
  /\ task' = AfterFinishRun(task, r, RunResult(None, task.status, 1, "exit"))
  /\ UNCHANGED <<turn, history>>

PrepareWake(conv) ==
  /\ Bounded
  /\ ~RunActive(task)
  /\ task.participant \in Planners
  /\ CanPrepareWake(task, task.participant)
  /\ task' = AfterPrepareWake(task, task.participant, conv)
  /\ UNCHANGED <<turn, history>>

SetReportingPhase ==
  \E phase \in {"submitted", "active"} :
    /\ task.status = "REPORTING"
    /\ ~RunActive(task)
    /\ task.wakeKey # None
    /\ CanSetPhase(task, task.wakeKey)
    /\ task' = AfterSetPhase(task, phase)
    /\ UNCHANGED <<turn, history>>

---------------------------------------------------------------------------
(* The user, through the Skill.                                            *)

WaitUser ==
  /\ Bounded
  /\ CanWaitUser(task)
  /\ task' = AfterWaitUser(task)
  /\ UNCHANGED <<turn, history>>

Answer ==
  /\ Bounded
  /\ CanAnswer(task, task.question)
  /\ task' = AfterAnswer(task)
  /\ UNCHANGED <<turn, history>>

Cancel ==
  /\ Bounded
  /\ CanCancel(task)
  /\ task' = AfterCancel(task)
  /\ UNCHANGED <<turn, history>>

ReplaceAgent(role, to) ==
  /\ Bounded
  /\ \E stopped \in BOOLEAN :
       CanReplace(task, role, task.assignments[role], to, stopped)
  /\ task' = AfterReplace(task, role, to)
  /\ UNCHANGED <<turn, history>>

---------------------------------------------------------------------------

Next ==
  \/ \E p \in Planners : PlanDone(p) \/ ReportDone(p)
  \/ \E r \in Runs : ImplementationDone(r) \/ Verdict(r) \/ AgentWaitUser(r)
  \/ \E r \in Runs : Claim(r) \/ FinishRun(r) \/ AbandonLaunch(r)
  \/ \E conv \in Conversations : PrepareWake(conv)
  \/ SetReportingPhase
  \/ WaitUser
  \/ Answer
  \/ Cancel
  \/ \E role \in Roles, to \in Participants : ReplaceAgent(role, to)

Spec == Init /\ [][Next]_vars

---------------------------------------------------------------------------
(* Properties.                                                             *)

\* The stage a waiting task goes back to.
Stage(s) == IF s.status = "WAITING_USER" THEN s.suspended ELSE s.status

\* The current participant is always the one assigned to the current role,
\* through handovers and replacements, while a run is active or not
\* (complete_stage, replace_agent).
OwnerIsAssigned == task.participant = task.assignments[task.role]

\* A leased task has a live lease: the run is the one last claimed, it is not
\* finished, and nobody else holds the writer session (claim, finish_run,
\* complete_report).
LeaseConsistent ==
  /\ RunActive(task) <=> task.runId # None
  /\ task.writer # None => task.writer = task.runId
  /\ task.runId # None => turn[task.runId] # None /\ task.lastFinished # task.runId

\* A run's agent hands over at most one stage, however long it lingers and
\* whatever the user and the Planner do meanwhile (complete_stage against
\* claim, finish_run and replace_agent).
OneHandoverPerTurn == \A r \in Runs : handoffs[r] <= 1

\* Every failure is counted once: no run is counted twice by two finalizations
\* and none is lost (finish_run).
FailuresAreRuns == task.failures = Cardinality(failed)

\* A run that handed its stage over is never counted as failed, whenever the
\* Runner comes to finalize it (classify_run_result).
HandoverIsNoFailure == \A r \in failed : handoffs[r] = 0

\* The retry budget is what separates a retry from BLOCKED: as long as the task
\* has a stage to return to, it has failures left (finish_run).
RetryBudget ==
  task.failures > MaxAgentRetries =>
    task.status \in {"BLOCKED", "WAITING_USER", "CANCELLED"}

\* A task reports only what was reviewed after it was delivered: the last verdict
\* is younger than the last delivery (implementation-done, verdict).
ReportsReviewedDelivery ==
  Stage(task) \in {"REPORTING", "DONE"} =>
    task.review > task.delivery /\ task.delivery > 0

\* DONE and CANCELLED are final: no late handover, answer or finalization moves a
\* closed task (relay_state.py, finish_run).
TerminalIsFinal ==
  [][task.status \in Terminal => task'.status = task.status]_vars

\* The revision orders the history of the record: it never goes back, and any
\* change but that of the reporting phase takes the next one.
RevisionOrders ==
  [][task' # task =>
       \/ task'.revision = task.revision + 1
       \/ /\ task'.revision = task.revision
          /\ task' = [task EXCEPT !.phase = task'.phase]]_vars

---------------------------------------------------------------------------
(* What the proofs need besides.                                           *)

StageHasRole ==
  /\ Stage(task) \in {"PLANNING", "REPORTING"} => task.role = "planner"
  /\ Stage(task) = "IMPLEMENTING" => task.role = "implementer"
  /\ Stage(task) = "REVIEWING" => task.role = "reviewer"

QuestionHasStage ==
  task.status = "WAITING_USER" /\ task.question # 0 => task.suspended # None

TurnStartsInItsStage ==
  \A r \in Runs : turn[r] # None => turn[r].role = RoleOf(turn[r].from)

\* A run that handed over holds a lease on a role that is no longer its own.
HandedOver ==
  \A r \in Runs :
    /\ turn[r] = None => handoffs[r] = 0
    /\ handoffs[r] # 0 /\ task.runId = r =>
         IF turn[r].role = "implementer"
         THEN task.role = "reviewer"
         ELSE task.role \in {"planner", "implementer"}

ReleasedRuns ==
  /\ task.lastFinished # None => turn[task.lastFinished] # None
  /\ \A r \in failed : turn[r] # None /\ task.runId # r

\* A task out of retries has no answerable question that leads back to a stage.
SpentBudgetBlocks ==
  task.failures > MaxAgentRetries /\ task.status = "WAITING_USER" =>
    task.question = 0 \/ task.suspended \in {"BLOCKED", "WAITING_USER"}

ReferencesAreOld ==
  /\ task.delivery <= task.revision /\ task.review <= task.revision
  /\ Stage(task) = "REVIEWING" => task.delivery > 0

\* A task whose Planner is being woken has no run, and no way back to a stage that
\* would start one (used in RelayCallersProofs; not part of the invariant below).
WokenIsUnleased ==
  task.wakeKey # None =>
    /\ task.runId = None
    /\ \/ task.status \in {"REPORTING", "CANCELLED"}
       \/ /\ task.status = "WAITING_USER"
          /\ task.suspended \in {"REPORTING", "WAITING_USER", None}

\* The inductive invariant: the safety properties and what keeps them true from
\* one operation to the next.
RelayInvariant ==
  /\ TypeOK
  /\ OwnerIsAssigned /\ LeaseConsistent /\ ReleasedRuns
  /\ StageHasRole /\ QuestionHasStage /\ TurnStartsInItsStage
  /\ OneHandoverPerTurn /\ HandedOver /\ HandoverIsNoFailure
  /\ IsFiniteSet(failed) /\ FailuresAreRuns
  /\ RetryBudget /\ SpentBudgetBlocks
  /\ ReportsReviewedDelivery /\ ReferencesAreOld

=============================================================================
