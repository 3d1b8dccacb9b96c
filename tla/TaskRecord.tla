------------------------------ MODULE TaskRecord ------------------------------
(***************************************************************************)
(* The durable task record, docs/agent/tasks/<TASK>/STATE.md, and what     *)
(* every operation of state_store.py, relay_state.py and workflow_state.py *)
(* does to it.  An operation Op is a pair: CanOp, the checks it makes on   *)
(* the record it read, and AfterOp, the record it writes.  How a process   *)
(* comes to read and to write the record is the subject of StateStore.     *)
(*                                                                         *)
(* The expected_revision argument is not repeated here: a caller that gets *)
(* past the compare-and-set read the very record the guard is applied to.  *)
(***************************************************************************)
EXTENDS Naturals

CONSTANTS
  Planners, Implementers, Reviewers,   \* participant ids, by immutable role
  Conversations,                       \* Planner conversations a wake may name
  Runs,                                \* run ids, "run-" and a fresh uuid4
  MaxAgentRetries,                     \* policy.max_agent_retries
  None                                 \* YAML null

ASSUME RetriesAssumption == MaxAgentRetries \in Nat

Participants == Planners \cup Implementers \cup Reviewers
Roles == {"planner", "implementer", "reviewer"}

ParticipantsOf(role) ==
  CASE role = "planner" -> Planners
    [] role = "implementer" -> Implementers
    [] role = "reviewer" -> Reviewers

Statuses == {"PLANNING", "IMPLEMENTING", "REVIEWING", "REPORTING",
             "WAITING_USER", "BLOCKED", "DONE", "CANCELLED"}
Terminal == {"DONE", "CANCELLED"}
Phases == {"pending", "submitted", "active", "completed"}

\* wake_key = task:revision:participant:hash(conversation)
WakeKeys == [rev : Nat, who : Planners, conv : Conversations]

\* A delivery and a verdict are named by the revision that recorded them; 0
\* stands for null.  A question is named by the revision that asked it.
TaskRecords ==
  [status      : Statuses,
   revision    : Nat,
   stageRound  : Nat,
   role        : Roles,                 \* current_role
   participant : Participants,          \* current_participant
   assignments : [Roles -> Participants],
   runId       : Runs \cup {None},
   runStatus   : {"idle", "running", "finished"},
   writer      : Runs \cup {None},      \* writer_session
   lastFinished: Runs \cup {None},      \* last_finished_run_id
   failures    : Nat,                   \* agent_failure_count
   suspended   : Statuses \cup {None},  \* suspended_status
   question    : Nat,
   delivery    : Nat,
   review      : Nat,
   phase       : Phases \cup {None},    \* reporting.phase
   wakeKey     : WakeKeys \cup {None}]  \* reporting.wake_key

FreshTask(p, i, r) ==
  [status |-> "PLANNING", revision |-> 1, stageRound |-> 1,
   role |-> "planner", participant |-> p,
   assignments |-> [x \in Roles |-> CASE x = "planner" -> p
                                      [] x = "implementer" -> i
                                      [] x = "reviewer" -> r],
   runId |-> None, runStatus |-> "idle", writer |-> None,
   lastFinished |-> None, failures |-> 0, suspended |-> None, question |-> 0,
   delivery |-> 0, review |-> 0, phase |-> None, wakeKey |-> None]

---------------------------------------------------------------------------
(* complete_stage: plan-done, implementation-done, verdict.                *)

RoleEvents ==
  { [role |-> "planner", event |-> "plan_completed",
     from |-> "PLANNING", to |-> "IMPLEMENTING", next |-> "implementer"],
    [role |-> "implementer", event |-> "implementation_completed",
     from |-> "IMPLEMENTING", to |-> "REVIEWING", next |-> "reviewer"],
    [role |-> "reviewer", event |-> "review_passed",
     from |-> "REVIEWING", to |-> "REPORTING", next |-> "planner"],
    [role |-> "reviewer", event |-> "changes_requested",
     from |-> "REVIEWING", to |-> "IMPLEMENTING", next |-> "implementer"],
    [role |-> "reviewer", event |-> "replan_required",
     from |-> "REVIEWING", to |-> "PLANNING", next |-> "planner"] }

\* Mutant: the run identity is not checked.
CanCompleteStageAnyRun(s, e, who, run) ==
  s.status = e.from /\ s.role = e.role /\ s.participant = who

CanCompleteStage(s, e, who, run) ==
  /\ s.status = e.from
  /\ s.role = e.role
  /\ s.participant = who
  /\ IF e.role = "planner"
     THEN run = None
     ELSE run # None /\ s.runId = run /\ s.writer = run

\* Mutant: a PASS verdict leaves no review reference.
AfterCompleteStageUnreviewed(s, e) ==
  [s EXCEPT !.status = e.to,
            !.role = e.next,
            !.participant = s.assignments[e.next],
            !.stageRound = s.stageRound + 1,
            !.revision = s.revision + 1,
            !.delivery = IF e.role = "implementer" THEN s.revision + 1 ELSE s.delivery,
            !.writer = IF e.role = "planner" THEN None ELSE s.writer]

AfterCompleteStage(s, e) ==
  [s EXCEPT !.status = e.to,
            !.role = e.next,
            !.participant = s.assignments[e.next],
            !.stageRound = s.stageRound + 1,
            !.revision = s.revision + 1,
            !.delivery = IF e.role = "implementer" THEN s.revision + 1 ELSE s.delivery,
            !.review = IF e.role = "reviewer" THEN s.revision + 1 ELSE s.review,
            !.writer = IF e.role = "planner" THEN None ELSE s.writer]

---------------------------------------------------------------------------
(* prepare_reporting_wake, set_reporting_phase and complete_report.        *)

CanPrepareWake(s, who) ==
  /\ s.status = "REPORTING"
  /\ s.role = "planner"
  /\ s.participant = who

\* Mutant: every tick makes a key of its own.
AfterPrepareWakeAnew(s, who, conv) ==
  [s EXCEPT !.phase = "pending",
            !.wakeKey = [rev |-> s.revision + 1, who |-> who, conv |-> conv],
            !.revision = s.revision + 1]

AfterPrepareWake(s, who, conv) ==
  IF s.wakeKey # None
  THEN s
  ELSE [s EXCEPT !.phase = "pending",
                 !.wakeKey = [rev |-> s.revision + 1, who |-> who, conv |-> conv],
                 !.revision = s.revision + 1]

CanSetPhase(s, key) == s.wakeKey = key

AfterSetPhase(s, phase) == [s EXCEPT !.phase = phase]

CanCompleteReport(s, who, key, delivery, review) ==
  /\ s.status = "REPORTING"
  /\ s.role = "planner"
  /\ s.participant = who
  /\ s.assignments["planner"] = who
  /\ key # None
  /\ s.wakeKey = key
  /\ s.delivery = delivery
  /\ s.review # 0
  /\ s.review = review

\* The wake key does not survive: set_yaml_value looks for a line "reporting:"
\* to put the phase under, finds the one-line mapping written by
\* prepare_reporting_wake instead, and appends a second "reporting:" section
\* that holds the phase alone; the parser keeps the last of the two.
AfterCompleteReport(s) ==
  [s EXCEPT !.status = "DONE",
            !.phase = "completed",
            !.wakeKey = None,
            !.runId = None,
            !.runStatus = "idle",
            !.writer = None,
            !.stageRound = s.stageRound + 1,
            !.revision = s.revision + 1]

---------------------------------------------------------------------------
(* claim and finish_run.                                                   *)

RunActive(s) == s.runStatus = "running"

CanClaim(s) == ~(s.runId # None /\ RunActive(s))

AfterClaim(s, run) ==
  [s EXCEPT !.runId = run,
            !.runStatus = "running",
            !.writer = run,
            !.revision = s.revision + 1]

\* Mutant: the business state is not looked at.
RunResultByExit(start, status, code, reason) ==
  IF start = None \/ (reason = "exit" /\ code = 0) THEN "completed" ELSE "agent_failure"

\* classify_run_result; start is None in the three-argument call that only
\* releases the lease.
RunResult(start, status, code, reason) ==
  CASE start = None -> "completed"
    [] start # None /\ status # start -> "completed"
    [] start # None /\ status = start /\ reason # "exit" -> reason
    [] start # None /\ status = start /\ reason = "exit" ->
         IF code = 0 THEN "protocol_failure" ELSE "agent_failure"

\* Mutant: a finalization is neither matched with the lease nor idempotent.
CanFinishRunUnmatched(s, run) == s.revision > 0

CanFinishRun(s, run) == s.lastFinished # run /\ s.runId = run

\* Mutant: one retry too many.
AfterFinishRunLenient(s, run, result) ==
  LET failures == IF result # "completed" THEN s.failures + 1 ELSE s.failures
  IN [s EXCEPT !.runStatus = "finished",
               !.status = IF failures > MaxAgentRetries + 1 THEN "BLOCKED" ELSE s.status,
               !.failures = failures,
               !.lastFinished = run,
               !.runId = None,
               !.writer = None,
               !.revision = s.revision + 1]

\* Mutant: the lease is released and the writer session kept.
AfterFinishRunKeepsWriter(s, run, result) ==
  [s EXCEPT !.runStatus = "finished",
            !.lastFinished = run,
            !.runId = None,
            !.revision = s.revision + 1]

AfterFinishRun(s, run, result) ==
  LET failed   == result # "completed"
      failures == IF failed THEN s.failures + 1 ELSE s.failures
      blocked  == failed /\ failures > MaxAgentRetries
  IN [s EXCEPT !.runStatus = IF failed /\ ~blocked THEN "idle" ELSE "finished",
               !.status = IF blocked THEN "BLOCKED" ELSE s.status,
               !.failures = failures,
               !.lastFinished = run,
               !.runId = None,
               !.writer = None,
               !.revision = s.revision + 1]

---------------------------------------------------------------------------
(* wait-user, answer and cancel (relay_state.py).                          *)

\* Mutant: a cancelled task may still ask.
CanWaitUserCancelled(s) == s.status # "DONE"

CanWaitUser(s) == s.status \notin Terminal

AfterWaitUser(s) ==
  [s EXCEPT !.status = "WAITING_USER",
            !.suspended = s.status,
            !.question = s.revision + 1,
            !.revision = s.revision + 1]

CanAnswer(s, question) ==
  /\ s.status = "WAITING_USER"
  /\ s.question = question
  /\ question # 0

\* Mutant: the suspended status is cleared before it is read.
AfterAnswerCleared(s) ==
  LET cleared == [s EXCEPT !.suspended = None, !.question = 0]
  IN [cleared EXCEPT !.status = cleared.suspended, !.revision = s.revision + 1]

AfterAnswer(s) ==
  [s EXCEPT !.status = IF s.suspended = None THEN "PLANNING" ELSE s.suspended,
            !.suspended = None,
            !.question = 0,
            !.revision = s.revision + 1]

CanCancel(s) == s.status \notin Terminal

\* Mutant: the cancellation takes no revision.
AfterCancelSameRevision(s) == [s EXCEPT !.status = "CANCELLED"]

AfterCancel(s) ==
  [s EXCEPT !.status = "CANCELLED", !.revision = s.revision + 1]

---------------------------------------------------------------------------
(* replace-agent with scope current-task or both (workflow_state.py).      *)

\* stopped: --confirm-writer-stopped was given.
CanReplace(s, role, from, to, stopped) ==
  /\ to \in ParticipantsOf(role)
  /\ from # to
  /\ s.status \notin Terminal
  /\ ~(role = "planner" /\ s.phase \in {"submitted", "active"})
  /\ s.assignments[role] = from
  /\ s.writer # None => stopped

\* Mutant: only the assignment is rewritten.
AfterReplaceAssignment(s, role, to) ==
  [s EXCEPT !.assignments[role] = to, !.revision = s.revision + 1]

AfterReplace(s, role, to) ==
  LET current == s.role = role
  IN [s EXCEPT !.assignments[role] = to,
               !.revision = s.revision + 1,
               !.stageRound = IF current THEN s.stageRound + 1 ELSE s.stageRound,
               !.participant = IF current THEN to ELSE s.participant,
               !.writer = IF current THEN None ELSE s.writer]

=============================================================================
