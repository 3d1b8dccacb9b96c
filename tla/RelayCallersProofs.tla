-------------------------- MODULE RelayCallersProofs ---------------------------
(***************************************************************************)
(* Theorems of the two modules that say how the operations of RelayTask    *)
(* are called, on top of those about RelayTask itself.                     *)
(*                                                                         *)
(* StateStore: the calls under the lock, for every number of Runners,      *)
(* helpers and crashes.  The lock file is safe in either layout; the rest  *)
(* is about a checkout, where all callers lock the same file.              *)
(*                                                                         *)
(* Supervisor: the ticks of the Runner, for any number of runs and of      *)
(* faults: they are operations of the relay, and which faults the lease of *)
(* a working agent survives.                                               *)
(***************************************************************************)
EXTENDS StateStore, Supervisor, RelayTaskProofs

(***************************************************************************)
(* StateStore                                                              *)
(***************************************************************************)

---------------------------------------------------------------------------
(* The lock file, in either layout.                                        *)

\* A call locks one of the two files.
LEMMA LockOfTyping == \A q : LockOf(q) \in LockFiles
BY DEF LockOf, HelperLock, StoreLock, LockFiles

\* What an accepted call does first it does inside.
LEMMA FirstWriteInside ==
  ASSUME NEW q, NEW s
  PROVE  /\ FirstWrite(q, s) \in {"journaling", "indexing", "unlinking", "writing"}
         /\ FirstWrite(q, s) = "journaling" <=> q.op = "complete_report"
         /\ FirstWrite(q, s) = "indexing" => q.op = "recover" /\ s.status = "DONE"
         /\ FirstWrite(q, s) = "unlinking" => q.op = "recover" /\ s.status # "DONE"
<1>1. CASE q.op = "complete_report"
  <2>1. FirstWrite(q, s) = "journaling"
    BY <1>1 DEF FirstWrite
  <2>. QED
    BY <1>1, <2>1
<1>2. CASE q.op = "recover"
  <2>1. FirstWrite(q, s) = IF s.status = "DONE" THEN "indexing" ELSE "unlinking"
    BY <1>2 DEF FirstWrite
  <2>. QED
    BY <1>2, <2>1
<1>3. CASE q.op \notin {"complete_report", "recover"}
  <2>1. FirstWrite(q, s) = "writing"
    BY <1>3 DEF FirstWrite
  <2>. QED
    BY <1>3, <2>1
<1>. QED
  BY <1>1, <1>2, <1>3

\* Only an acquisition and a release move the lock, and only their caller's.
LEMMA StepLock ==
  LockTyping /\ InsideHoldsLock /\ [StoreNext]_storeVars
    => LockTyping' /\ InsideHoldsLock'
<1>. SUFFICES ASSUME LockTyping, InsideHoldsLock, [StoreNext]_storeVars
             PROVE  LockTyping' /\ InsideHoldsLock'
  OBVIOUS
<1>. DEFINE Goal == LockTyping' /\ InsideHoldsLock'
<1>. USE CallersAssumption DEF LockTyping, InsideHoldsLock, Inside, Locations
<1>1. ASSUME NEW p \in Callers, Call(p) PROVE Goal
  <2>1. PICK q : call' = [call EXCEPT ![p] = q]
    BY <1>1 DEF Call
  <2>. QED
    BY <1>1, <2>1 DEF Call, Goto
<1>2. ASSUME NEW p \in Callers, Acquire(p) PROVE Goal
  BY <1>2, LockOfTyping DEF Acquire, Goto
<1>3. ASSUME NEW p \in Callers, LockExists(p) PROVE Goal
  BY <1>3 DEF LockExists
<1>4. ASSUME NEW p \in Callers, Check(p) PROVE Goal
  BY <1>4, FirstWriteInside DEF Check, Goto
<1>5. ASSUME NEW p \in Callers, Refuse(p) \/ Journal(p) \/ UnlinkTransaction(p) PROVE Goal
  BY <1>5 DEF Refuse, Journal, UnlinkTransaction, Goto
<1>6. ASSUME NEW p \in Callers, Write(p) PROVE Goal
  BY <1>6 DEF Write, Goto
<1>7. ASSUME NEW p \in Callers, WriteIndex(p) PROVE Goal
  BY <1>7 DEF WriteIndex, Goto
<1>8. ASSUME NEW p \in Callers, Release(p) PROVE Goal
  BY <1>8, LockOfTyping DEF Release, Goto
<1>9. ASSUME NEW p \in Callers, Crash(p) PROVE Goal
  BY <1>9, LockOfTyping DEF Crash
<1>10. CASE ReleaseStaleLock
  BY <1>10 DEF ReleaseStaleLock, process, HelperLock, LockFiles
<1>11. CASE UNCHANGED storeVars
  BY <1>11 DEF storeVars
<1>. QED
  BY <1>1, <1>2, <1>3, <1>4, <1>5, <1>6, <1>7, <1>8, <1>9, <1>10, <1>11
     DEF StoreNext, Step

\* At the start nobody holds a lock.
LEMMA InitLock == StoreInit => LockTyping /\ InsideHoldsLock
BY DEF StoreInit, LockTyping, InsideHoldsLock, Inside, Locations

\* A process that is inside holds its lock file until it leaves or dies, in a
\* checkout and in a worktree: no release and no stale-lock removal takes the
\* file of a live process (finally: path.unlink(), release-stale-lock).
THEOREM LockSafety == StoreSpec => []InsideHoldsLock
<1>1. StoreSpec => [](LockTyping /\ InsideHoldsLock)
  BY InitLock, StepLock, PTL DEF StoreSpec
<1>. QED
  BY <1>1, PTL

\* In a checkout there is one lock, hence one process inside.
LEMMA OneInside ==
  ASSUME Layout = "checkout", InsideHoldsLock,
         NEW p \in Callers, NEW q \in Callers, pc[p] \in Inside, pc[q] \in Inside
  PROVE  p = q
BY DEF InsideHoldsLock, LockOf, HelperLock, StoreLock

---------------------------------------------------------------------------
(* The requests, operation by operation.                                   *)

\* What an accepted request has been checked for.
LEMMA Accepted ==
  ASSUME NEW q, NEW s, Accepts(q, s)
  PROVE  /\ SameRevision(q, s)
         /\ q.op # "recover" => Bounded
         /\ q.op = "complete_stage" =>
              CanCompleteStage(s, q.rule, q.who, q.run)
         /\ q.op = "complete_report" =>
              CanCompleteReport(s, q.who, q.seen.wakeKey, q.seen.delivery, q.seen.review)
         /\ q.op = "wait_user" =>
              CanWaitUser(s)
         /\ q.op = "answer" =>
              CanAnswer(s, q.seen.question)
         /\ q.op = "cancel" =>
              CanCancel(s)
         /\ q.op = "replace_agent" =>
              \E stopped \in BOOLEAN :
                CanReplace(s, q.arg, q.seen.assignments[q.arg], q.who, stopped)
         /\ q.op = "claim" =>
              CanClaim(s)
         /\ q.op = "finish_run" =>
              CanFinishRun(s, q.run)
         /\ q.op = "abandon_launch" =>
              CanFinishRun(s, q.run)
         /\ q.op = "prepare_wake" =>
              CanPrepareWake(s, q.who)
         /\ q.op = "set_phase" =>
              CanSetPhase(s, q.seen.wakeKey)
<1>1. q.op = "complete_stage" =>
       CanCompleteStage(s, q.rule, q.who, q.run)
  BY DEF Accepts
<1>2. q.op = "complete_report" =>
       CanCompleteReport(s, q.who, q.seen.wakeKey, q.seen.delivery, q.seen.review)
  BY DEF Accepts
<1>3. q.op = "wait_user" =>
       CanWaitUser(s)
  BY DEF Accepts
<1>4. q.op = "answer" =>
       CanAnswer(s, q.seen.question)
  BY DEF Accepts
<1>5. q.op = "cancel" =>
       CanCancel(s)
  BY DEF Accepts
<1>6. q.op = "replace_agent" =>
       \E stopped \in BOOLEAN :
           CanReplace(s, q.arg, q.seen.assignments[q.arg], q.who, stopped)
  BY DEF Accepts
<1>7. q.op = "claim" =>
       CanClaim(s)
  BY DEF Accepts
<1>8. q.op = "finish_run" =>
       CanFinishRun(s, q.run)
  BY DEF Accepts
<1>9. q.op = "abandon_launch" =>
       CanFinishRun(s, q.run)
  BY DEF Accepts
<1>10. q.op = "prepare_wake" =>
       CanPrepareWake(s, q.who)
  BY DEF Accepts
<1>11. q.op = "set_phase" =>
       CanSetPhase(s, q.seen.wakeKey)
  BY DEF Accepts
<1>12. SameRevision(q, s) /\ (q.op # "recover" => Bounded)
  BY DEF Accepts
<1>. QED
  BY <1>1, <1>2, <1>3, <1>4, <1>5, <1>6, <1>7, <1>8, <1>9, <1>10, <1>11, <1>12

\* What a request writes.
LEMMA Outcomes ==
  ASSUME NEW q, NEW s
  PROVE  /\ q.op = "complete_stage" => Outcome(q, s) = AfterCompleteStage(s, q.rule)
         /\ q.op = "complete_report" => Outcome(q, s) = AfterCompleteReport(s)
         /\ q.op = "wait_user" => Outcome(q, s) = AfterWaitUser(s)
         /\ q.op = "answer" => Outcome(q, s) = AfterAnswer(s)
         /\ q.op = "cancel" => Outcome(q, s) = AfterCancel(s)
         /\ q.op = "replace_agent" => Outcome(q, s) = AfterReplace(s, q.arg, q.who)
         /\ q.op = "claim" => Outcome(q, s) = AfterClaim(s, q.run)
         /\ q.op = "finish_run" => Outcome(q, s) = AfterFinishRun(s, q.run, ResultOf(q, s))
         /\ q.op = "abandon_launch" => Outcome(q, s) = AfterFinishRun(s, q.run, ResultOf(q, s))
         /\ q.op = "prepare_wake" => Outcome(q, s) = AfterPrepareWake(s, q.who, q.arg)
         /\ q.op = "set_phase" => Outcome(q, s) = AfterSetPhase(s, q.arg)
<1>1. q.op = "complete_stage" => Outcome(q, s) = AfterCompleteStage(s, q.rule)
  BY DEF Outcome
<1>2. q.op = "complete_report" => Outcome(q, s) = AfterCompleteReport(s)
  BY DEF Outcome
<1>3. q.op = "wait_user" => Outcome(q, s) = AfterWaitUser(s)
  BY DEF Outcome
<1>4. q.op = "answer" => Outcome(q, s) = AfterAnswer(s)
  BY DEF Outcome
<1>5. q.op = "cancel" => Outcome(q, s) = AfterCancel(s)
  BY DEF Outcome
<1>6. q.op = "replace_agent" => Outcome(q, s) = AfterReplace(s, q.arg, q.who)
  BY DEF Outcome
<1>7. q.op = "claim" => Outcome(q, s) = AfterClaim(s, q.run)
  BY DEF Outcome
<1>8. q.op = "finish_run" => Outcome(q, s) = AfterFinishRun(s, q.run, ResultOf(q, s))
  BY DEF Outcome
<1>9. q.op = "abandon_launch" => Outcome(q, s) = AfterFinishRun(s, q.run, ResultOf(q, s))
  BY DEF Outcome
<1>10. q.op = "prepare_wake" => Outcome(q, s) = AfterPrepareWake(s, q.who, q.arg)
  BY DEF Outcome
<1>11. q.op = "set_phase" => Outcome(q, s) = AfterSetPhase(s, q.arg)
  BY DEF Outcome
<1>. QED
  BY <1>1, <1>2, <1>3, <1>4, <1>5, <1>6, <1>7, <1>8, <1>9, <1>10, <1>11

---------------------------------------------------------------------------
(* What a caller asks for fits the record it read.                         *)

\* The arguments of a request.
Arguments == Roles \cup Conversations \cup Phases \cup Endings \cup {None}

\* A request holds the record as it is and what it was built from.
LEMMA RequestTyping ==
  ASSUME TypeOK, NEW op \in Ops, NEW who \in Participants \cup {None},
         NEW run \in Runs \cup {None}, NEW arg \in Arguments
  PROVE  LET q == Request(op, who, run, arg)
         IN /\ q \in Requests
            /\ q.op = op /\ q.seen = task /\ q.who = who /\ q.run = run
            /\ q.rule = None /\ q.arg = arg
BY DEF Request, Requests, Arguments, TypeOK

LEMMA HandoverTyping ==
  ASSUME TypeOK, NEW e \in RoleEvents, NEW who \in Participants \cup {None},
         NEW run \in Runs \cup {None}
  PROVE  LET q == HandoverRequest(e, who, run)
         IN /\ q \in Requests
            /\ q.op = "complete_stage" /\ q.seen = task /\ q.who = who /\ q.run = run
            /\ q.rule = e /\ q.arg = None
BY DEF HandoverRequest, Request, Requests, TypeOK, Ops, ClientOps

\* A request built now: it holds this record and fits it.
NewRequest(q) ==
  /\ q \in Requests /\ WellFormed(q) /\ q.seen = task
  /\ q.op = "claim" => turn[q.run] = None

\* Every request a client may make is one.
LEMMA ClientRequestsFit ==
  ASSUME TypeOK, NEW q \in ClientRequests
  PROVE  NewRequest(q)
<1>. USE DEF Participants
<1>1. ASSUME NEW p \in Planners, NEW e \in RoleEvents, e.role = "planner",
             q = HandoverRequest(e, p, None)
      PROVE  NewRequest(q)
  BY <1>1, HandoverTyping, RoleEventAssumption DEF NewRequest, WellFormed
<1>2. ASSUME NEW r \in Runs, turn[r] # None, NEW e \in RoleEvents,
             e.role = turn[r].role, q = HandoverRequest(e, turn[r].who, r)
      PROVE  NewRequest(q)
  <2>1. turn[r] \in Turns
    BY <1>2 DEF TypeOK
  <2>2. turn[r].who \in Participants /\ turn[r].role # "planner"
    BY <2>1 DEF Turns, BackgroundRoles
  <2>. QED
    BY <1>2, <2>2, HandoverTyping, RoleEventAssumption, NoneAssumption
       DEF NewRequest, WellFormed
<1>3. ASSUME NEW p \in Planners, q = Request("complete_report", p, None, None)
      PROVE  NewRequest(q)
  <2>1. "complete_report" \in Ops /\ None \in Arguments
    BY DEF Ops, ClientOps, Arguments
  <2>2. /\ q \in Requests /\ q.op = "complete_report" /\ q.seen = task /\ q.who = p
        /\ q.run = None /\ q.rule = None /\ q.arg = None
    BY <1>3, <2>1, RequestTyping
  <2>. QED
    BY <1>3, <2>2 DEF NewRequest, WellFormed
<1>4. ASSUME NEW op \in {"wait_user", "answer", "cancel"}, q = Request(op, None, None, None)
      PROVE  NewRequest(q)
  <2>1. op \in Ops /\ None \in Arguments
    BY DEF Ops, ClientOps, Arguments
  <2>2. /\ q \in Requests /\ q.op = op /\ q.seen = task /\ q.who = None
        /\ q.run = None /\ q.rule = None /\ q.arg = None
    BY <1>4, <2>1, RequestTyping
  <2>. QED
    BY <1>4, <2>2 DEF NewRequest, WellFormed
<1>5. ASSUME NEW who \in Participants, NEW role \in Roles,
             q = Request("replace_agent", who, None, role)
      PROVE  NewRequest(q)
  <2>1. "replace_agent" \in Ops /\ role \in Arguments
    BY DEF Ops, ClientOps, Arguments
  <2>2. /\ q \in Requests /\ q.op = "replace_agent" /\ q.seen = task /\ q.who = who
        /\ q.run = None /\ q.rule = None /\ q.arg = role
    BY <1>5, <2>1, RequestTyping
  <2>. QED
    BY <1>5, <2>2 DEF NewRequest, WellFormed
<1>6. q \in PlannerRequests => NewRequest(q)
  BY <1>1, <1>3 DEF PlannerRequests
<1>7. q \in UserRequests => NewRequest(q)
  BY <1>4, <1>5 DEF UserRequests
<1>8. ASSUME NEW r \in Runs, q \in AgentRequests(r) PROVE NewRequest(q)
  BY <1>2, <1>8 DEF AgentRequests
<1>. QED
  BY <1>6, <1>7, <1>8 DEF ClientRequests

\* Every request the Runner may make is one.
LEMMA RunnerRequestsFit ==
  ASSUME TypeOK, NEW q \in RunnerRequests
  PROVE  NewRequest(q)
<1>. task \in TaskRecords
  BY DEF TypeOK
<1>1. task.participant \in Participants
  BY FieldTyping
<1>2. ASSUME NEW r \in Runs, turn[r] = None, ~RunActive(task),
             task.status \in {"IMPLEMENTING", "REVIEWING"},
             q = Request("claim", task.participant, r, None)
      PROVE  NewRequest(q)
  <2>1. "claim" \in Ops /\ None \in Arguments
    BY DEF Ops, RunnerOps, Arguments
  <2>2. /\ q \in Requests /\ q.op = "claim" /\ q.seen = task /\ q.who = task.participant
        /\ q.run = r /\ q.rule = None /\ q.arg = None
    BY <1>1, <1>2, <2>1, RequestTyping
  <2>. QED
    BY <1>2, <2>2, NoneAssumption DEF NewRequest, WellFormed
<1>3. ASSUME NEW r \in Runs, NEW how \in Endings, q = Request("finish_run", None, r, how)
      PROVE  NewRequest(q)
  <2>1. "finish_run" \in Ops /\ how \in Arguments
    BY DEF Ops, RunnerOps, Arguments
  <2>2. /\ q \in Requests /\ q.op = "finish_run" /\ q.seen = task /\ q.who = None
        /\ q.run = r /\ q.rule = None /\ q.arg = how
    BY <1>3, <2>1, RequestTyping
  <2>. QED
    BY <1>3, <2>2, NoneAssumption DEF NewRequest, WellFormed
<1>4. ASSUME NEW r \in Runs, q = Request("abandon_launch", None, r, None)
      PROVE  NewRequest(q)
  <2>1. "abandon_launch" \in Ops /\ None \in Arguments
    BY DEF Ops, RunnerOps, Arguments
  <2>2. /\ q \in Requests /\ q.op = "abandon_launch" /\ q.seen = task /\ q.who = None
        /\ q.run = r /\ q.rule = None /\ q.arg = None
    BY <1>1, <1>4, <2>1, RequestTyping
  <2>. QED
    BY <1>4, <2>2, NoneAssumption DEF NewRequest, WellFormed
<1>5. ASSUME NEW conv \in Conversations, ~RunActive(task), task.participant \in Planners,
             q = Request("prepare_wake", task.participant, None, conv)
      PROVE  NewRequest(q)
  <2>1. "prepare_wake" \in Ops /\ conv \in Arguments
    BY DEF Ops, RunnerOps, Arguments
  <2>2. /\ q \in Requests /\ q.op = "prepare_wake" /\ q.seen = task /\ q.who = task.participant
        /\ q.run = None /\ q.rule = None /\ q.arg = conv
    BY <1>1, <1>5, <2>1, RequestTyping
  <2>. QED
    BY <1>5, <2>2 DEF NewRequest, WellFormed
<1>6. ASSUME NEW phase \in {"submitted", "active"}, task.status = "REPORTING",
             ~RunActive(task), task.wakeKey # None,
             q = Request("set_phase", None, None, phase)
      PROVE  NewRequest(q)
  <2>1. "set_phase" \in Ops /\ phase \in Arguments
    BY DEF Ops, RunnerOps, Arguments, Phases
  <2>2. /\ q \in Requests /\ q.op = "set_phase" /\ q.seen = task /\ q.who = None
        /\ q.run = None /\ q.rule = None /\ q.arg = phase
    BY <1>1, <1>6, <2>1, RequestTyping
  <2>. QED
    BY <1>6, <2>2 DEF NewRequest, WellFormed
<1>7. ASSUME q = Request("recover", None, None, None) PROVE NewRequest(q)
  <2>1. "recover" \in Ops /\ None \in Arguments
    BY DEF Ops, RunnerOps, Arguments
  <2>2. /\ q \in Requests /\ q.op = "recover" /\ q.seen = task /\ q.who = None
        /\ q.run = None /\ q.rule = None /\ q.arg = None
    BY <1>1, <1>7, <2>1, RequestTyping
  <2>. QED
    BY <1>7, <2>2 DEF NewRequest, WellFormed
<1>. QED
  BY <1>2, <1>3, <1>4, <1>5, <1>6, <1>7 DEF RunnerRequests

---------------------------------------------------------------------------
(* A write is an operation of RelayTask.                                   *)

\* What a process about to write knows.
AboutToWrite(q) ==
  Past(q) /\ Accepts(q, task) /\ q.op # "recover"

\* The four variables of the relay as a write leaves them.
Written(q) ==
  /\ task' = Outcome(q, task)
  /\ turn' = IF q.op = "claim"
             THEN [turn EXCEPT ![q.run] = [role |-> RoleOf(task.status),
                                           who  |-> q.who,
                                           from |-> task.status]]
             ELSE turn
  /\ handoffs' = IF q.op = "complete_stage" /\ q.run # None
                 THEN [handoffs EXCEPT ![q.run] = @ + 1] ELSE handoffs
  /\ failed' = IF q.op = "finish_run" /\ ResultOf(q, task) # "completed"
               THEN failed \cup {q.run} ELSE failed

\* A record that is the one its reader saw but for the phase has its other fields.
LEMMA SameButPhase ==
  ASSUME NEW s \in TaskRecords, NEW x, task = [s EXCEPT !.phase = x]
  PROVE  /\ task.status = s.status /\ task.participant = s.participant
         /\ task.runStatus = s.runStatus /\ task.wakeKey = s.wakeKey
         /\ task.question = s.question /\ task.delivery = s.delivery
         /\ task.review = s.review /\ task.assignments = s.assignments
         /\ RunActive(task) = RunActive(s)
BY DEF TaskRecords, RunActive

\* What the request says, besides, of the record the process has read again.
LEMMA SeenNow ==
  ASSUME NEW q, AboutToWrite(q), q.op \notin {"finish_run", "abandon_launch"}
  PROVE  /\ q.op = "claim" =>
              /\ q.who = task.participant /\ turn[q.run] = None
              /\ task.status \in {"IMPLEMENTING", "REVIEWING"}
         /\ q.op = "prepare_wake" => q.who = task.participant /\ ~RunActive(task)
         /\ q.op = "set_phase" =>
              task.status = "REPORTING" /\ ~RunActive(task) /\ task.wakeKey # None
         /\ q.seen.wakeKey = task.wakeKey /\ q.seen.question = task.question
         /\ q.seen.delivery = task.delivery /\ q.seen.review = task.review
<1>1. q.seen.revision = task.revision
  <2>1. q.op # "recover" /\ SameRevision(q, task)
    BY Accepted DEF AboutToWrite, Past
  <2>. QED
    BY <2>1 DEF SameRevision
<1>2. q.seen \in TaskRecords
  BY DEF AboutToWrite, Past, Requests
<1>3. task = [q.seen EXCEPT !.phase = task.phase]
  BY <1>1 DEF AboutToWrite, Past
<1>4. /\ task.status = q.seen.status /\ task.participant = q.seen.participant
      /\ task.wakeKey = q.seen.wakeKey /\ task.question = q.seen.question
      /\ task.delivery = q.seen.delivery /\ task.review = q.seen.review
      /\ RunActive(task) = RunActive(q.seen)
  BY <1>2, <1>3, SameButPhase
<1>. QED
  BY <1>1, <1>4 DEF AboutToWrite, Past, WellFormed

\* Whatever the operation, the write is a step of RelayTask.
LEMMA WriteImplements ==
  ASSUME RelayInvariant, NEW q, AboutToWrite(q), Written(q)
  PROVE  Next
<1>. q \in Requests /\ WellFormed(q) /\ Accepts(q, task) /\ Bounded /\ q.op # "recover"
  BY Accepted DEF AboutToWrite, Past
<1>1. CASE q.op = "complete_stage" /\ q.run = None
  <2>1. q.rule \in RoleEvents /\ CanCompleteStage(task, q.rule, q.who, q.run)
    BY <1>1, Accepted DEF Requests, WellFormed
  <2>2. q.rule.role = "planner" /\ q.who \in Planners
    BY <1>1, <2>1 DEF CanCompleteStage, WellFormed
  <2>3. task' = AfterCompleteStage(task, q.rule) /\ UNCHANGED <<turn, history>>
    BY <1>1, Outcomes DEF Written, history
  <2>4. PlanDone(q.who)
    BY <1>1, <2>1, <2>2, <2>3 DEF PlanDone
  <2>. QED
    BY <2>2, <2>4 DEF Next
<1>2. CASE q.op = "complete_stage" /\ q.run # None
  <2>1. /\ q.rule \in RoleEvents /\ CanCompleteStage(task, q.rule, q.who, q.run)
        /\ q.run \in Runs
    BY <1>2, Accepted DEF Requests, WellFormed
  <2>2. q.rule.role # "planner"
    BY <1>2, <2>1 DEF WellFormed
  <2>3. turn[q.run] # None /\ turn[q.run].role = q.rule.role /\ turn[q.run].who = q.who
    BY <1>2, <2>2 DEF WellFormed
  <2>4. /\ task' = AfterCompleteStage(task, q.rule)
        /\ handoffs' = [handoffs EXCEPT ![q.run] = @ + 1]
        /\ UNCHANGED <<turn, failed>>
    BY <1>2, Outcomes DEF Written
  <2>5. Handover(q.run, q.rule)
    BY <2>1, <2>3, <2>4 DEF Handover
  <2>6. q.rule.role \in {"implementer", "reviewer"}
    BY <2>1, <2>2 DEF RoleEvents
  <2>. QED
    BY <2>1, <2>5, <2>6 DEF Next, ImplementationDone, Verdict
<1>3. CASE q.op = "complete_report"
  <2>1. CanCompleteReport(task, q.who, task.wakeKey, task.delivery, task.review)
    BY <1>3, Accepted, SeenNow
  <2>2. q.who \in Planners
    BY <1>3 DEF WellFormed
  <2>3. task' = AfterCompleteReport(task) /\ UNCHANGED <<turn, history>>
    BY <1>3, Outcomes DEF Written, history
  <2>4. ReportDone(q.who)
    BY <2>1, <2>3 DEF ReportDone
  <2>. QED
    BY <2>2, <2>4 DEF Next
<1>4. CASE q.op = "wait_user"
  <2>1. CanWaitUser(task) /\ task' = AfterWaitUser(task) /\ UNCHANGED <<turn, history>>
    BY <1>4, Accepted, Outcomes DEF Written, history
  <2>. QED
    BY <2>1 DEF WaitUser, Next
<1>5. CASE q.op = "answer"
  <2>1. CanAnswer(task, task.question)
    BY <1>5, Accepted, SeenNow
  <2>2. task' = AfterAnswer(task) /\ UNCHANGED <<turn, history>>
    BY <1>5, Outcomes DEF Written, history
  <2>. QED
    BY <2>1, <2>2 DEF Answer, Next
<1>6. CASE q.op = "cancel"
  <2>1. CanCancel(task) /\ task' = AfterCancel(task) /\ UNCHANGED <<turn, history>>
    BY <1>6, Accepted, Outcomes DEF Written, history
  <2>. QED
    BY <2>1 DEF Cancel, Next
<1>7. CASE q.op = "replace_agent"
  <2>1. PICK stopped \in BOOLEAN :
          CanReplace(task, q.arg, q.seen.assignments[q.arg], q.who, stopped)
    BY <1>7, Accepted
  <2>2. CanReplace(task, q.arg, task.assignments[q.arg], q.who, stopped)
    BY <2>1 DEF CanReplace
  <2>3. task' = AfterReplace(task, q.arg, q.who) /\ UNCHANGED <<turn, history>>
    BY <1>7, Outcomes DEF Written, history
  <2>4. q.arg \in Roles /\ q.who \in Participants
    BY <1>7 DEF WellFormed
  <2>5. ReplaceAgent(q.arg, q.who)
    BY <2>2, <2>3 DEF ReplaceAgent
  <2>. QED
    BY <2>4, <2>5 DEF Next
<1>8. CASE q.op = "claim"
  <2>1. CanClaim(task)
    BY <1>8, Accepted
  <2>2. /\ q.who = task.participant /\ turn[q.run] = None
        /\ task.status \in {"IMPLEMENTING", "REVIEWING"}
    BY <1>8, SeenNow
  <2>3. q.run \in Runs
    BY <1>8 DEF WellFormed, Requests
  <2>4. /\ task' = AfterClaim(task, q.run)
        /\ turn' = [turn EXCEPT ![q.run] = [role |-> RoleOf(task.status),
                                            who  |-> task.participant,
                                            from |-> task.status]]
        /\ UNCHANGED history
    BY <1>8, <2>2, Outcomes DEF Written, history
  <2>5. Claim(q.run)
    BY <2>1, <2>2, <2>4 DEF Claim
  <2>. QED
    BY <2>3, <2>5 DEF Next
<1>9. CASE q.op = "finish_run"
  <2>. DEFINE code   == IF q.arg = "exit0" THEN 0 ELSE 1
              reason == IF q.arg \in {"timeout", "interrupted"} THEN q.arg ELSE "exit"
  <2>1. q.run \in Runs
    BY <1>9 DEF WellFormed, Requests
  <2>2. CanFinishRun(task, q.run)
    BY <1>9, Accepted
  <2>3. turn[q.run] # None
    BY <2>1, <2>2, NoneAssumption DEF CanFinishRun, RelayInvariant, LeaseConsistent
  <2>4. ResultOf(q, task) = RunResult(turn[q.run].from, task.status, code, reason)
    BY <1>9 DEF ResultOf
  <2>5. /\ task' = AfterFinishRun(task, q.run, ResultOf(q, task))
        /\ failed' = IF ResultOf(q, task) = "completed" THEN failed ELSE failed \cup {q.run}
        /\ UNCHANGED <<turn, handoffs>>
    BY <1>9, Outcomes DEF Written
  <2>6. code \in {0, 1} /\ reason \in {"exit", "timeout", "interrupted"}
    OBVIOUS
  <2>. HIDE DEF code, reason
  <2>7. EndRun(q.run, code, reason)
    BY <2>2, <2>3, <2>4, <2>5 DEF EndRun
  <2>. QED
    BY <2>1, <2>6, <2>7 DEF FinishRun, Next
<1>10. CASE q.op = "abandon_launch"
  <2>1. q.run \in Runs
    BY <1>10 DEF WellFormed, Requests
  <2>2. CanFinishRun(task, q.run)
    BY <1>10, Accepted
  <2>3. turn[q.run] # None
    BY <2>1, <2>2, NoneAssumption DEF CanFinishRun, RelayInvariant, LeaseConsistent
  <2>4. q.arg = None
    BY <1>10 DEF WellFormed
  <2>5. /\ ResultOf(q, task) = "completed"
        /\ RunResult(None, task.status, 1, "exit") = "completed"
    BY <1>10 DEF ResultOf, RunResult
  <2>6. /\ task' = AfterFinishRun(task, q.run, RunResult(None, task.status, 1, "exit"))
        /\ UNCHANGED <<turn, history>>
    BY <1>10, <2>5, Outcomes DEF Written, history
  <2>7. AbandonLaunch(q.run)
    BY <2>2, <2>3, <2>6 DEF AbandonLaunch
  <2>. QED
    BY <2>1, <2>7 DEF Next
<1>11. CASE q.op = "prepare_wake"
  <2>1. CanPrepareWake(task, q.who)
    BY <1>11, Accepted
  <2>2. q.who = task.participant /\ ~RunActive(task)
    BY <1>11, SeenNow
  <2>3. q.arg \in Conversations /\ q.who \in Planners
    BY <1>11 DEF WellFormed
  <2>4. task' = AfterPrepareWake(task, q.who, q.arg) /\ UNCHANGED <<turn, history>>
    BY <1>11, Outcomes DEF Written, history
  <2>5. PrepareWake(q.arg)
    BY <2>1, <2>2, <2>3, <2>4 DEF PrepareWake
  <2>. QED
    BY <2>3, <2>5 DEF Next
<1>12. CASE q.op = "set_phase"
  <2>1. CanSetPhase(task, task.wakeKey)
    BY <1>12, Accepted, SeenNow
  <2>2. task.status = "REPORTING" /\ ~RunActive(task) /\ task.wakeKey # None
    BY <1>12, SeenNow
  <2>3. q.arg \in {"submitted", "active"}
    BY <1>12 DEF WellFormed
  <2>4. task' = AfterSetPhase(task, q.arg) /\ UNCHANGED <<turn, history>>
    BY <1>12, Outcomes DEF Written, history
  <2>5. SetReportingPhase
    BY <2>1, <2>2, <2>3, <2>4 DEF SetReportingPhase
  <2>. QED
    BY <2>5 DEF Next
<1>. QED
  <2>1. q.op \in Ops
    BY DEF Requests
  <2>. QED
    BY <2>1, <1>1, <1>2, <1>3, <1>4, <1>5, <1>6, <1>7, <1>8, <1>9, <1>10, <1>11, <1>12
       DEF Ops, RunnerOps, ClientOps

---------------------------------------------------------------------------
(* What an operation of RelayTask does to what others have read.           *)

\* No operation suspends a closed task.
LEMMA StepSuspended ==
  ASSUME TypeOK, SuspendedIsOpen, [Next]_vars
  PROVE  SuspendedIsOpen'
<1>. task \in TaskRecords
  BY DEF TypeOK
<1>. USE DEF TaskRecords, Terminal, Statuses, SuspendedIsOpen
<1>1. ASSUME NEW p \in Planners, PlanDone(p) \/ ReportDone(p) PROVE SuspendedIsOpen'
  BY <1>1 DEF PlanDone, AfterCompleteStage, ReportDone, AfterCompleteReport
<1>2. ASSUME NEW r \in Runs, NEW e \in RoleEvents, Handover(r, e) PROVE SuspendedIsOpen'
  BY <1>2 DEF Handover, AfterCompleteStage
<1>3. ASSUME WaitUser \/ \E r \in Runs : AgentWaitUser(r) PROVE SuspendedIsOpen'
  BY <1>3 DEF WaitUser, AgentWaitUser, CanWaitUser, AfterWaitUser
<1>4. ASSUME NEW r \in Runs, Claim(r) PROVE SuspendedIsOpen'
  BY <1>4 DEF Claim, AfterClaim
<1>5. ASSUME NEW r \in Runs, FinishRun(r) \/ AbandonLaunch(r) PROVE SuspendedIsOpen'
  BY <1>5 DEF FinishRun, EndRun, AbandonLaunch, AfterFinishRun
<1>6. ASSUME NEW conv \in Conversations, PrepareWake(conv) PROVE SuspendedIsOpen'
  BY <1>6 DEF PrepareWake, AfterPrepareWake
<1>7. CASE SetReportingPhase
  BY <1>7 DEF SetReportingPhase, AfterSetPhase
<1>8. CASE Answer
  BY <1>8, NoneAssumption DEF Answer, AfterAnswer
<1>9. CASE Cancel
  BY <1>9 DEF Cancel, AfterCancel
<1>10. ASSUME NEW role \in Roles, NEW to \in Participants, ReplaceAgent(role, to)
       PROVE  SuspendedIsOpen'
  BY <1>10 DEF ReplaceAgent, AfterReplace
<1>11. CASE UNCHANGED vars
  BY <1>11 DEF vars
<1>. QED
  BY <1>1, <1>2, <1>3, <1>4, <1>5, <1>6, <1>7, <1>8, <1>9, <1>10, <1>11
     DEF Next, ImplementationDone, Verdict

\* The launch context of a run is written once, by its claim.
LEMMA TurnsStay ==
  ASSUME TypeOK, [Next]_vars
  PROVE  /\ \A r \in Runs : turn[r] # None => turn'[r] = turn[r]
         /\ turn' = turn \/ task'.revision = task.revision + 1
<1>. DEFINE Goal == /\ \A r \in Runs : turn[r] # None => turn'[r] = turn[r]
                    /\ turn' = turn \/ task'.revision = task.revision + 1
<1>1. ASSUME NEW r \in Runs, Claim(r) PROVE Goal
  BY <1>1 DEF Claim, AfterClaim, TypeOK, TaskRecords
<1>2. CASE UNCHANGED turn
  BY <1>2
<1>3. UNCHANGED turn \/ \E r \in Runs : Claim(r)
  BY DEF Next, vars, PlanDone, ReportDone, ImplementationDone, Verdict, Handover,
         AgentWaitUser, FinishRun, EndRun, AbandonLaunch, PrepareWake, SetReportingPhase,
         WaitUser, Answer, Cancel, ReplaceAgent
<1>. QED
  BY <1>1, <1>2, <1>3

\* A request fits what its caller read, however far the record has moved on.
LEMMA PastStays ==
  ASSUME TypeOK, [Next]_vars, TypeOK', NEW q, Past(q)
  PROVE  Past(q)'
<1>. /\ q \in Requests /\ q.seen \in TaskRecords
     /\ q.rule \in RoleEvents \cup {None} /\ q.run \in Runs \cup {None}
  BY DEF Past, Requests
<1>. /\ task \in TaskRecords /\ task' \in TaskRecords
     /\ task.revision \in Nat /\ task'.revision \in Nat /\ q.seen.revision \in Nat
  BY DEF TypeOK, TaskRecords
<1>1. WellFormed(q)'
  BY TurnsStay DEF Past, WellFormed
<1>2. CASE task'.revision = task.revision + 1
  BY <1>1, <1>2 DEF Past
<1>3. CASE task' = task /\ turn' = turn
  BY <1>1, <1>3 DEF Past
<1>4. CASE /\ task'.revision = task.revision /\ turn' = turn
           /\ task' = [task EXCEPT !.phase = task'.phase]
  <2>1. task = [q.seen EXCEPT !.phase = task.phase] =>
          task' = [q.seen EXCEPT !.phase = task'.phase]
    BY <1>4 DEF TaskRecords
  <2>. QED
    BY <1>1, <1>4, <2>1 DEF Past
<1>. QED
  BY <1>2, <1>3, <1>4, RevisionStep, TurnsStay

\* Only the Planner's report closes a task as done.
LEMMA OnlyReportCloses ==
  ASSUME TypeOK, SuspendedIsOpen, NEW q, AboutToWrite(q), Written(q),
         q.op # "complete_report", task.status # "DONE"
  PROVE  task'.status # "DONE"
<1>. task \in TaskRecords
  BY DEF TypeOK
<1>. USE DEF TaskRecords, SuspendedIsOpen, Terminal
<1>1. CASE q.op = "complete_stage"
  <2>1. task' = AfterCompleteStage(task, q.rule) /\ q.rule \in RoleEvents
    BY <1>1, Outcomes DEF Written, AboutToWrite, Past, Requests, WellFormed
  <2>. QED
    BY <2>1 DEF AfterCompleteStage, RoleEvents
<1>2. CASE q.op \in {"wait_user", "answer", "cancel"}
  <2>1. \/ task' = AfterWaitUser(task)
        \/ task' = AfterAnswer(task)
        \/ task' = AfterCancel(task)
    BY <1>2, Outcomes DEF Written
  <2>. QED
    BY <2>1 DEF AfterWaitUser, AfterAnswer, AfterCancel
<1>3. CASE q.op = "replace_agent"
  <2>1. task' = AfterReplace(task, q.arg, q.who)
    BY <1>3, Outcomes DEF Written
  <2>. QED
    BY <2>1 DEF AfterReplace
<1>4. CASE q.op = "claim"
  <2>1. task' = AfterClaim(task, q.run)
    BY <1>4, Outcomes DEF Written
  <2>. QED
    BY <2>1 DEF AfterClaim
<1>5. CASE q.op \in {"finish_run", "abandon_launch"}
  <2>1. task' = AfterFinishRun(task, q.run, ResultOf(q, task))
    BY <1>5, Outcomes DEF Written
  <2>. QED
    BY <2>1 DEF AfterFinishRun
<1>6. CASE q.op = "prepare_wake"
  <2>1. task' = AfterPrepareWake(task, q.who, q.arg)
    BY <1>6, Outcomes DEF Written
  <2>. QED
    BY <2>1 DEF AfterPrepareWake
<1>7. CASE q.op = "set_phase"
  <2>1. task' = AfterSetPhase(task, q.arg)
    BY <1>7, Outcomes DEF Written
  <2>. QED
    BY <2>1 DEF AfterSetPhase
<1>. QED
  <2>1. q.op \in Ops /\ q.op # "recover"
    BY DEF AboutToWrite, Past, Requests
  <2>. QED
    BY <2>1, <1>1, <1>2, <1>3, <1>4, <1>5, <1>6, <1>7 DEF Ops, RunnerOps, ClientOps

---------------------------------------------------------------------------
(* The store, step by step, in a checkout.                                 *)

\* A process that writes knows what it needs to know.
LEMMA WriterKnows ==
  ASSUME StoreInvariant, NEW p \in Callers, Write(p)
  PROVE  AboutToWrite(call[p]) /\ Written(call[p])
<1>1. snap[p].task = task /\ Accepts(call[p], task) /\ call[p].op # "recover"
  BY DEF StoreInvariant, UnderTheLock, FilesStay, Write
<1>2. Past(call[p])
  BY DEF StoreInvariant, SeenIsPast, Write
<1>3. Written(call[p])
  BY <1>1 DEF Write, Written
<1>. QED
  BY <1>1, <1>2, <1>3 DEF AboutToWrite

\* Every step of the store is a step of RelayTask, or none.
LEMMA StoreStep ==
  ASSUME StoreInvariant, [StoreNext]_storeVars
  PROVE  [Next]_vars
<1>1. ASSUME NEW p \in Callers, Write(p) PROVE Next
  BY <1>1, WriterKnows, WriteImplements DEF StoreInvariant
<1>2. ASSUME NEW p \in Callers,
             \/ Call(p) \/ Acquire(p) \/ LockExists(p) \/ Check(p) \/ Refuse(p)
             \/ Journal(p) \/ WriteIndex(p) \/ UnlinkTransaction(p) \/ Release(p)
             \/ Crash(p)
      PROVE  UNCHANGED vars
  BY <1>2 DEF Call, Acquire, LockExists, Check, Refuse, Journal, WriteIndex,
              UnlinkTransaction, Release, Crash
<1>3. CASE ReleaseStaleLock
  BY <1>3 DEF ReleaseStaleLock
<1>4. CASE UNCHANGED storeVars
  BY <1>4 DEF storeVars
<1>. QED
  BY <1>1, <1>2, <1>3, <1>4 DEF StoreNext, Step

\* The record stays where no process writes it.
LEMMA RelayStep ==
  ASSUME StoreInvariant, [StoreNext]_storeVars
  PROVE  RelayInvariant' /\ SuspendedIsOpen' /\ TypeOK'
<1>1. [Next]_vars
  BY StoreStep
<1>2. RelayInvariant'
  BY <1>1, StepInvariant DEF StoreInvariant
<1>3. SuspendedIsOpen'
  BY <1>1, StepSuspended DEF StoreInvariant, RelayInvariant
<1>. QED
  BY <1>2, <1>3 DEF RelayInvariant

\* The store keeps its types.
LEMMA StepStoreTyping ==
  ASSUME StoreInvariant, [StoreNext]_storeVars
  PROVE  StoreTypeOK'
<1>. StoreTypeOK /\ TypeOK /\ task \in TaskRecords /\ TypeOK'
  BY RelayStep DEF StoreInvariant, RelayInvariant, TypeOK
<1>. USE CallersAssumption, CrashesAssumption DEF StoreTypeOK
<1>1. ASSUME NEW p \in Callers, Call(p) PROVE StoreTypeOK'
  <2>1. PICK q \in RunnerRequests \cup ClientRequests : call' = [call EXCEPT ![p] = q]
    BY <1>1 DEF Call
  <2>2. q \in Requests
    BY RunnerRequestsFit, ClientRequestsFit DEF NewRequest
  <2>3. pc' \in [Callers -> Locations]
    BY <1>1 DEF Call, Goto, Locations
  <2>. QED
    BY <1>1, <2>1, <2>2, <2>3 DEF Call, files
<1>2. ASSUME NEW p \in Callers, Acquire(p) PROVE StoreTypeOK'
  BY <1>2, LockOfTyping DEF Acquire, Goto, Locations, files
<1>3. ASSUME NEW p \in Callers, LockExists(p) PROVE StoreTypeOK'
  BY <1>3 DEF LockExists, Locations, files
<1>4. ASSUME NEW p \in Callers, Check(p) PROVE StoreTypeOK'
  <2>1. pc' \in [Callers -> Locations]
    BY <1>4, FirstWriteInside DEF Check, Goto, Locations
  <2>. QED
    BY <1>4, <2>1 DEF Check, files
<1>5. ASSUME NEW p \in Callers, Refuse(p) \/ Journal(p) \/ UnlinkTransaction(p)
      PROVE  StoreTypeOK'
  BY <1>5 DEF Refuse, Journal, UnlinkTransaction, Goto, Locations, files
<1>6. ASSUME NEW p \in Callers, Write(p) PROVE StoreTypeOK'
  <2>1. pc' \in [Callers -> Locations]
    BY <1>6 DEF Write, Goto, Locations
  <2>. QED
    BY <1>6, <2>1 DEF Write, files
<1>7. ASSUME NEW p \in Callers, WriteIndex(p) PROVE StoreTypeOK'
  <2>1. pc' \in [Callers -> Locations]
    BY <1>7 DEF WriteIndex, Goto, Locations
  <2>2. index' \in {"active", "completed"}
    <3>1. CASE call[p].op = "replace_agent"
      <4>1. snap[p].index = index
        BY <1>7, <3>1 DEF WriteIndex, Goto, StoreInvariant, UnderTheLock, FilesStay
      <4>. QED
        BY <1>7, <3>1, <4>1 DEF WriteIndex
    <3>2. CASE call[p].op # "replace_agent"
      BY <1>7, <3>2 DEF WriteIndex
    <3>. QED
      BY <3>1, <3>2
  <2>. QED
    BY <1>7, <2>1, <2>2 DEF WriteIndex, files
<1>8. ASSUME NEW p \in Callers, Release(p) PROVE StoreTypeOK'
  BY <1>8, LockOfTyping DEF Release, Goto, Locations, files
<1>9. ASSUME NEW p \in Callers, Crash(p) PROVE StoreTypeOK'
  BY <1>9, LockOfTyping DEF Crash, Locations, files
<1>10. CASE ReleaseStaleLock
  BY <1>10 DEF ReleaseStaleLock, process, files, HelperLock, LockFiles
<1>11. CASE UNCHANGED storeVars
  BY <1>11 DEF storeVars
<1>. QED
  BY <1>1, <1>2, <1>3, <1>4, <1>5, <1>6, <1>7, <1>8, <1>9, <1>10, <1>11
     DEF StoreNext, Step

\* What the callers have read stays in the past.
LEMMA StepSeen ==
  ASSUME StoreInvariant, [StoreNext]_storeVars
  PROVE  SeenIsPast'
<1>. /\ SeenIsPast /\ TypeOK /\ TypeOK' /\ [Next]_vars
     /\ pc \in [Callers -> Locations] /\ call \in [Callers -> Requests \cup {None}]
  BY StoreStep, RelayStep DEF StoreInvariant, RelayInvariant, StoreTypeOK
<1>1. \A q : Past(q) => Past(q)'
  BY PastStays
<1>2. ASSUME NEW p \in Callers, Call(p) PROVE SeenIsPast'
  <2>1. PICK q \in RunnerRequests \cup ClientRequests : call' = [call EXCEPT ![p] = q]
    BY <1>2 DEF Call
  <2>2. NewRequest(q)
    BY RunnerRequestsFit, ClientRequestsFit
  <2>3. Past(q)
    <3>1. task \in TaskRecords /\ task.revision \in Nat
      BY DEF TypeOK, TaskRecords
    <3>2. task = [task EXCEPT !.phase = task.phase]
      BY <3>1 DEF TaskRecords
    <3>. QED
      BY <2>2, <3>1, <3>2 DEF NewRequest, Past
  <2>4. Past(q)'
    BY <1>1, <2>3
  <2>5. pc' = [pc EXCEPT ![p] = "locking"]
    BY <1>2 DEF Call, Goto
  <2>. QED
    BY <1>1, <2>1, <2>4, <2>5 DEF SeenIsPast
<1>3. ASSUME NEW p \in Callers, Step(p) \/ Crash(p), NEW c \in Callers, pc'[c] # "idle"
      PROVE  Past(call[c])'
  <2>1. pc[c] # "idle" /\ call'[c] = call[c]
    <3>1. CASE Acquire(p) \/ Refuse(p) \/ Journal(p) \/ UnlinkTransaction(p)
      BY <1>3, <3>1 DEF Acquire, Refuse, Journal, UnlinkTransaction, Goto
    <3>2. CASE LockExists(p) \/ Release(p) \/ Crash(p)
      BY <1>3, <3>2 DEF LockExists, Release, Crash, Goto, Inside
    <3>3. CASE Check(p)
      BY <1>3, <3>3 DEF Check, Goto
    <3>4. CASE Write(p) \/ WriteIndex(p)
      BY <1>3, <3>4 DEF Write, WriteIndex, Goto
    <3>. QED
      BY <1>3, <3>1, <3>2, <3>3, <3>4 DEF Step
  <2>2. Past(call[c])
    BY <2>1 DEF SeenIsPast
  <2>3. PICK r : r = call[c]
    OBVIOUS
  <2>4. Past(r)'
    BY <1>1, <2>2, <2>3
  <2>5. call'[c] = r
    BY <2>1, <2>3
  <2>. QED
    BY <2>1, <2>4, <2>5
<1>4. CASE ReleaseStaleLock \/ UNCHANGED storeVars
  BY <1>1, <1>4 DEF ReleaseStaleLock, storeVars, process, SeenIsPast
<1>. QED
  BY <1>2, <1>3, <1>4 DEF StoreNext, SeenIsPast

\* A closed task stays closed, and a write that closes one is a report.
LEMMA StepDone ==
  ASSUME StoreInvariant, [StoreNext]_storeVars
  PROVE  task.status = "DONE" => task'.status = "DONE"
BY StoreStep, TerminalStep DEF StoreInvariant, RelayInvariant, Terminal

\* What a process knows of the files under the lock.
LEMMA StepFiles ==
  ASSUME Layout = "checkout", StoreInvariant, [StoreNext]_storeVars
  PROVE  UnderTheLock'
<1>. /\ UnderTheLock /\ InsideHoldsLock /\ IndexedIsClosed
     /\ pc \in [Callers -> Locations] /\ call \in [Callers -> Requests \cup {None}]
     /\ snap \in [Callers -> [task : TaskRecords, index : {"active", "completed"}]
                               \cup {None}]
  BY DEF StoreInvariant, StoreTypeOK
<1>1. ASSUME NEW p \in Callers, NEW c \in Callers, p # c, Call(p) \/ Step(p) \/ Crash(p)
      PROVE  FilesStay(c)'
  <2>1. pc'[c] = pc[c] /\ call'[c] = call[c] /\ snap'[c] = snap[c]
    <3>1. CASE Acquire(p) \/ Refuse(p) \/ Journal(p) \/ UnlinkTransaction(p)
      BY <1>1, <3>1 DEF Acquire, Refuse, Journal, UnlinkTransaction, Goto
    <3>2. CASE LockExists(p) \/ Release(p) \/ Crash(p)
      BY <1>1, <3>2 DEF LockExists, Release, Crash, Goto
    <3>3. CASE Check(p) \/ Call(p)
      BY <1>1, <3>3 DEF Check, Call, Goto
    <3>4. CASE Write(p) \/ WriteIndex(p)
      BY <1>1, <3>4 DEF Write, WriteIndex, Goto
    <3>. QED
      BY <1>1, <3>1, <3>2, <3>3, <3>4 DEF Step
  <2>2. CASE pc[c] \notin Inside
    BY <2>1, <2>2 DEF FilesStay, Inside, Locations
  <2>3. CASE pc[c] \in Inside
    <3>1. pc[p] \notin Inside
      BY <1>1, <2>3, OneInside
    <3>2. UNCHANGED <<task, index, txn>>
      <4>1. Call(p) \/ Acquire(p) \/ LockExists(p) \/ Crash(p)
        BY <1>1, <3>1 DEF Step, Check, Refuse, Journal, Write, WriteIndex,
                          UnlinkTransaction, Release, Goto, Inside, Locations
      <4>. QED
        BY <4>1 DEF Call, Acquire, LockExists, Crash, vars, files
    <3>3. Accepts(call[c], task) => Accepts(call[c], task)'
      BY <2>1, <3>2, Zenon DEF Accepts, Bounded
    <3>. QED
      BY <2>1, <3>2, <3>3 DEF UnderTheLock, FilesStay
  <2>. QED
    BY <2>2, <2>3
<1>2. ASSUME NEW p \in Callers, Call(p) \/ Acquire(p) \/ LockExists(p) \/ Refuse(p)
      PROVE  FilesStay(p)'
  BY <1>2 DEF Call, Acquire, LockExists, Refuse, Goto, FilesStay
<1>3. ASSUME NEW p \in Callers, UnlinkTransaction(p) \/ Release(p) \/ Crash(p)
      PROVE  FilesStay(p)'
  BY <1>3 DEF UnlinkTransaction, Release, Crash, Goto, FilesStay
<1>4. ASSUME NEW p \in Callers, Check(p) PROVE FilesStay(p)'
  <2>1. /\ pc'[p] = FirstWrite(call[p], task)
        /\ snap'[p] = [task |-> task, index |-> index]
        /\ call' = call /\ UNCHANGED <<task, index, txn>>
        /\ Accepts(call[p], task)
    BY <1>4 DEF Check, Goto, vars, files
  <2>2. Accepts(call[p], task)'
    BY <2>1, Zenon DEF Accepts, Bounded
  <2>3. /\ pc'[p] \in {"journaling", "indexing", "unlinking", "writing"}
        /\ pc'[p] = "journaling" <=> call[p].op = "complete_report"
        /\ pc'[p] = "indexing" => call[p].op = "recover" /\ task.status = "DONE"
        /\ pc'[p] = "unlinking" => call[p].op = "recover" /\ task.status # "DONE"
    BY <2>1, FirstWriteInside
  <2>4. pc'[p] = "writing" => call[p].op # "recover"
    BY <2>1 DEF FirstWrite
  <2>. QED
    BY <2>1, <2>2, <2>3, <2>4 DEF FilesStay
<1>5. ASSUME NEW p \in Callers, Journal(p) PROVE FilesStay(p)'
  <2>1. /\ pc[p] = "journaling" /\ pc'[p] = "writing" /\ txn' = "report"
        /\ call' = call /\ snap' = snap /\ task' = task
    BY <1>5 DEF Journal, Goto, vars
  <2>2. /\ snap[p].task = task /\ Accepts(call[p], task)
        /\ call[p].op = "complete_report"
    BY <2>1 DEF UnderTheLock, FilesStay
  <2>3. Accepts(call[p], task)'
    BY <2>1, <2>2, Zenon DEF Accepts, Bounded
  <2>. QED
    BY <2>1, <2>2, <2>3 DEF FilesStay
<1>6. ASSUME NEW p \in Callers, Write(p) PROVE FilesStay(p)'
  <2>1. /\ pc[p] = "writing"
        /\ pc'[p] = IF call[p].op \in {"complete_report", "replace_agent"}
                    THEN "indexing" ELSE "releasing"
        /\ call' = call /\ snap' = snap /\ index' = index
    BY <1>6 DEF Write, Goto, files
  <2>2. call[p].op = "replace_agent" => snap[p].index = index
    BY <2>1 DEF UnderTheLock, FilesStay
  <2>3. call[p].op = "complete_report" => task'.status = "DONE"
    <3>1. task' = Outcome(call[p], task) /\ task \in TaskRecords
      BY <1>6, WriterKnows DEF Written, StoreInvariant, RelayInvariant, TypeOK
    <3>2. call[p].op = "complete_report" => task' = AfterCompleteReport(task)
      BY <3>1, Outcomes
    <3>. QED
      BY <3>1, <3>2 DEF AfterCompleteReport, TaskRecords
  <2>. QED
    BY <2>1, <2>2, <2>3 DEF FilesStay
<1>7. ASSUME NEW p \in Callers, WriteIndex(p) PROVE FilesStay(p)'
  BY <1>7 DEF WriteIndex, Goto, FilesStay
<1>8. CASE ReleaseStaleLock \/ UNCHANGED storeVars
  <2>1. UNCHANGED <<task, index, txn, pc, call, snap>>
    BY <1>8 DEF ReleaseStaleLock, storeVars, vars, files, process
  <2>2. ASSUME NEW c \in Callers, Accepts(call[c], task) PROVE Accepts(call[c], task)'
    BY <2>1, <2>2, Zenon DEF Accepts, Bounded
  <2>. QED
    BY <2>1, <2>2 DEF UnderTheLock, FilesStay
<1>9. ASSUME NEW p \in Callers, Call(p) \/ Step(p) \/ Crash(p) PROVE FilesStay(p)'
  BY <1>2, <1>3, <1>4, <1>5, <1>6, <1>7, <1>9 DEF Step
<1>. QED
  BY <1>1, <1>8, <1>9 DEF StoreNext, UnderTheLock

\* The index and the transaction directory keep up with the record.
LEMMA StepIndex ==
  ASSUME StoreInvariant, [StoreNext]_storeVars
  PROVE  ClosedIsIndexedOrJournaled' /\ IndexedIsClosed'
<1>. DEFINE Goal == ClosedIsIndexedOrJournaled' /\ IndexedIsClosed'
<1>. /\ ClosedIsIndexedOrJournaled /\ IndexedIsClosed /\ UnderTheLock
     /\ index \in {"active", "completed"} /\ TypeOK /\ SuspendedIsOpen
  BY DEF StoreInvariant, StoreTypeOK, RelayInvariant
<1>. USE DEF ClosedIsIndexedOrJournaled, IndexedIsClosed
<1>1. ASSUME NEW p \in Callers,
             \/ Call(p) \/ Acquire(p) \/ LockExists(p) \/ Check(p) \/ Refuse(p)
             \/ Release(p) \/ Crash(p)
      PROVE  Goal
  BY <1>1 DEF Call, Acquire, LockExists, Check, Refuse, Release, Crash, vars, files
<1>2. ASSUME NEW p \in Callers, Journal(p) PROVE Goal
  BY <1>2 DEF Journal, vars
<1>3. ASSUME NEW p \in Callers, Write(p) PROVE Goal
  <2>1. index' = index /\ txn' = txn /\ pc[p] = "writing"
    BY <1>3 DEF Write, files
  <2>2. task.status = "DONE" => task'.status = "DONE"
    BY StepDone
  <2>3. call[p].op = "complete_report" => txn = "report"
    BY <2>1 DEF UnderTheLock, FilesStay
  <2>4. call[p].op # "complete_report" /\ task.status # "DONE" => task'.status # "DONE"
    BY <1>3, WriterKnows, OnlyReportCloses
  <2>. QED
    BY <2>1, <2>2, <2>3, <2>4
<1>4. ASSUME NEW p \in Callers, WriteIndex(p) PROVE Goal
  <2>1. /\ task' = task /\ txn' = txn /\ pc[p] = "indexing"
        /\ index' = IF call[p].op = "replace_agent" THEN snap[p].index ELSE "completed"
    BY <1>4 DEF WriteIndex, Goto, vars
  <2>2. /\ call[p].op = "replace_agent" => snap[p].index = index
        /\ call[p].op # "replace_agent" => task.status = "DONE"
    BY <2>1 DEF UnderTheLock, FilesStay
  <2>. QED
    BY <2>1, <2>2
<1>5. ASSUME NEW p \in Callers, UnlinkTransaction(p) PROVE Goal
  <2>1. task' = task /\ index' = index /\ pc[p] = "unlinking"
    BY <1>5 DEF UnlinkTransaction, Goto, vars
  <2>2. index = "completed" \/ task.status # "DONE"
    BY <2>1 DEF UnderTheLock, FilesStay
  <2>. QED
    BY <2>1, <2>2
<1>6. CASE ReleaseStaleLock \/ UNCHANGED storeVars
  BY <1>6 DEF ReleaseStaleLock, storeVars, vars, files
<1>. QED
  BY <1>1, <1>2, <1>3, <1>4, <1>5, <1>6 DEF StoreNext, Step

---------------------------------------------------------------------------
(* The safety of the store.                                                *)

\* The invariant holds of a repository nobody is using.
LEMMA InitStore == StoreInit => StoreInvariant
<1>. SUFFICES ASSUME StoreInit PROVE StoreInvariant
  OBVIOUS
<1>1. task \in StartingTasks /\ AtRest(task) /\ task \in TaskRecords
  BY StartAssumption DEF StoreInit, Init
<1>2. RelayInvariant /\ TypeOK
  BY InitInvariant DEF StoreInit, RelayInvariant
<1>3. SuspendedIsOpen
  BY <1>1, NoneAssumption DEF AtRest, SuspendedIsOpen, Terminal, Statuses
<1>4. StoreTypeOK
  BY <1>2, CrashesAssumption DEF StoreInit, StoreTypeOK, Locations
<1>5. InsideHoldsLock /\ SeenIsPast /\ UnderTheLock
  BY DEF StoreInit, InsideHoldsLock, Inside, Locations, SeenIsPast, UnderTheLock, FilesStay
<1>6. ClosedIsIndexedOrJournaled /\ IndexedIsClosed
  BY <1>1 DEF StoreInit, AtRest, ClosedIsIndexedOrJournaled, IndexedIsClosed
<1>. QED
  BY <1>2, <1>3, <1>4, <1>5, <1>6 DEF StoreInvariant

\* In a checkout every step of the store keeps it.
LEMMA StepStore ==
  Layout = "checkout" /\ StoreInvariant /\ [StoreNext]_storeVars => StoreInvariant'
<1>. SUFFICES ASSUME Layout = "checkout", StoreInvariant, [StoreNext]_storeVars
             PROVE  StoreInvariant'
  OBVIOUS
<1>1. LockTyping
  BY DEF StoreInvariant, StoreTypeOK, LockTyping
<1>2. InsideHoldsLock'
  BY <1>1, StepLock DEF StoreInvariant
<1>. QED
  BY <1>2, StepStoreTyping, RelayStep, StepSeen, StepFiles, StepIndex
     DEF StoreInvariant

\* In a checkout the store keeps its types, each process under the lock finds the
\* files as it read them, and every request fits the record its caller read.
THEOREM StoreSafety == ASSUME Layout = "checkout" PROVE StoreSpec => []StoreInvariant
BY InitStore, StepStore, PTL DEF StoreSpec

\* With its lock file, snapshots and crashes the store is RelayTask: every write
\* is one accepted operation on the revision its caller saw (StateStore).
THEOREM StoreRefines == ASSUME Layout = "checkout" PROVE StoreSpec => ImplementsRelayTask
<1>1. StoreInit => Init
  BY DEF StoreInit
<1>2. StoreInvariant /\ [StoreNext]_storeVars => [Next]_vars
  BY StoreStep
<1>. QED
  BY <1>1, <1>2, StoreSafety, PTL DEF StoreSpec, ImplementsRelayTask, Spec

\* No update is lost: STATE.md and PROJECT_STATUS.md are, when a process replaces
\* them, what it read under the lock (_write_state, update_project_cache).
THEOREM UpdateSafety == ASSUME Layout = "checkout" PROVE StoreSpec => []NoLostUpdate
<1>1. StoreInvariant => NoLostUpdate
  BY DEF StoreInvariant, UnderTheLock, FilesStay, NoLostUpdate
<1>. QED
  BY <1>1, StoreSafety, PTL

\* A process that passed the compare-and-set writes from the record its caller
\* decided on (_require_revision).
THEOREM RevisionGuard == ASSUME Layout = "checkout" PROVE StoreSpec => []ActsOnWhatWasSeen
<1>1. ASSUME StoreInvariant, NEW p \in Callers, pc[p] = "writing",
             call[p].op \notin {"finish_run", "abandon_launch"}
      PROVE  snap[p].task = [call[p].seen EXCEPT !.phase = snap[p].task.phase]
  <2>1. snap[p].task = task /\ Accepts(call[p], task) /\ call[p].op # "recover"
    BY <1>1 DEF StoreInvariant, UnderTheLock, FilesStay
  <2>2. call[p].seen.revision = task.revision
    <3>1. SameRevision(call[p], task)
      BY <2>1, Accepted
    <3>. QED
      BY <1>1, <2>1, <3>1 DEF SameRevision
  <2>3. Past(call[p])
    BY <1>1 DEF StoreInvariant, SeenIsPast
  <2>. QED
    BY <2>1, <2>2, <2>3 DEF Past
<1>2. StoreInvariant => ActsOnWhatWasSeen
  BY <1>1 DEF ActsOnWhatWasSeen
<1>. QED
  BY <1>2, StoreSafety, PTL

\* Whichever process dies at whichever step, a task that is closed and not yet
\* indexed has the transaction the recovery needs (complete_report).
THEOREM CrashSafety ==
  ASSUME Layout = "checkout" PROVE StoreSpec => []ClosedIsIndexedOrJournaled
BY StoreSafety, PTL DEF StoreInvariant

\* The project index lists a task as completed only after it is DONE
\* (_complete_project_index).
THEOREM IndexSafety == ASSUME Layout = "checkout" PROVE StoreSpec => []IndexedIsClosed
BY StoreSafety, PTL DEF StoreInvariant

(***************************************************************************)
(* Supervisor                                                              *)
(***************************************************************************)

---------------------------------------------------------------------------
(* The record under the Supervisor.                                        *)

\* A task whose Planner is being woken gets no run, whatever the next operation.
LEMMA StepWoken ==
  ASSUME RelayInvariant, WokenIsUnleased, [Next]_vars
  PROVE  WokenIsUnleased'
<1>. task \in TaskRecords
  BY DEF RelayInvariant, TypeOK
<1>. USE DEF TaskRecords, Terminal, history
<1>1. task.wakeKey # None => \A r \in Runs : task.runId # r
  BY NoneAssumption DEF WokenIsUnleased
<1>2. ASSUME NEW p \in Planners, PlanDone(p) PROVE WokenIsUnleased'
  BY <1>2
     DEF WokenIsUnleased, PlanDone, AfterCompleteStage, CanCompleteStage,
         RoleEvents
<1>3. ASSUME NEW p \in Planners, ReportDone(p) PROVE WokenIsUnleased'
  BY <1>3 DEF WokenIsUnleased, ReportDone, AfterCompleteReport
<1>4. ASSUME NEW r \in Runs, NEW e \in RoleEvents, Handover(r, e)
      PROVE  WokenIsUnleased'
  <2>1. task.runId = r
    BY <1>4 DEF Handover, CanCompleteStage, RoleEvents, TypeOK, RelayInvariant,
                Turns, BackgroundRoles
  <2>. QED
    BY <1>1, <1>4, <2>1 DEF WokenIsUnleased, Handover, AfterCompleteStage
<1>5. ASSUME NEW r \in Runs, AgentWaitUser(r) PROVE WokenIsUnleased'
  BY <1>5 DEF WokenIsUnleased, AgentWaitUser, CanWaitUser, AfterWaitUser
<1>6. ASSUME NEW r \in Runs, Claim(r) PROVE WokenIsUnleased'
  BY <1>6 DEF WokenIsUnleased, Claim, AfterClaim
<1>7. ASSUME NEW r \in Runs, FinishRun(r) \/ AbandonLaunch(r)
      PROVE  WokenIsUnleased'
  BY <1>1, <1>7
     DEF WokenIsUnleased, FinishRun, EndRun, AbandonLaunch, CanFinishRun,
        AfterFinishRun
<1>8. ASSUME NEW conv \in Conversations, PrepareWake(conv) PROVE WokenIsUnleased'
  BY <1>8 DEF WokenIsUnleased, PrepareWake, CanPrepareWake, AfterPrepareWake,
              RelayInvariant, LeaseConsistent
<1>9. ASSUME SetReportingPhase PROVE WokenIsUnleased'
  BY <1>9 DEF WokenIsUnleased, SetReportingPhase, AfterSetPhase
<1>10. ASSUME WaitUser PROVE WokenIsUnleased'
  BY <1>10 DEF WokenIsUnleased, WaitUser, CanWaitUser, AfterWaitUser
<1>11. ASSUME Answer PROVE WokenIsUnleased'
  BY <1>11 DEF WokenIsUnleased, Answer, CanAnswer, AfterAnswer, RelayInvariant,
               QuestionHasStage
<1>12. ASSUME Cancel PROVE WokenIsUnleased'
  BY <1>12 DEF WokenIsUnleased, Cancel, AfterCancel
<1>13. ASSUME NEW role \in Roles, NEW to \in Participants, ReplaceAgent(role, to)
       PROVE  WokenIsUnleased'
  BY <1>13 DEF WokenIsUnleased, ReplaceAgent, AfterReplace
<1>14. CASE UNCHANGED vars
  BY <1>14 DEF vars, WokenIsUnleased
<1>. QED
  BY <1>2, <1>3, <1>4, <1>5, <1>6, <1>7, <1>8, <1>9, <1>10, <1>11,
     <1>12, <1>13, <1>14 DEF Next, ImplementationDone, Verdict

\* What the record has to do with the tick: the lease and the launch contexts.
RecordKept == task'.runId = task.runId /\ turn' = turn

\* Only the Runner's own steps take or release a lease: agents, the Planner and
\* the user leave it where it is, also when they close the task.
LEMMA OthersKeepLease ==
  ASSUME RelayInvariant, WokenIsUnleased,
         \/ Report
         \/ \E r \in Runs : AgentActs(r)
         \/ ForegroundActs
  PROVE  /\ RecordKept /\ RunActive(task)' = RunActive(task)
         /\ UNCHANGED <<tick, handle, runDirs, worker, agent, published, exits>>
<1>. task \in TaskRecords
  BY DEF RelayInvariant, TypeOK
<1>. DEFINE Kept == RecordKept /\ task'.runStatus = task.runStatus
<1>. USE DEF RecordKept, history, TaskRecords
<1>1. ASSUME NEW p \in Planners, PlanDone(p) PROVE Kept
  BY <1>1 DEF PlanDone, AfterCompleteStage
<1>2. ASSUME NEW p \in Planners, ReportDone(p)
      PROVE  RecordKept /\ ~RunActive(task) /\ ~RunActive(task)'
  BY <1>2 DEF ReportDone, CanCompleteReport, AfterCompleteReport, WokenIsUnleased,
              RelayInvariant, LeaseConsistent, RunActive
<1>3. ASSUME NEW r \in Runs, NEW e \in RoleEvents, Handover(r, e) PROVE Kept
  BY <1>3 DEF Handover, AfterCompleteStage
<1>4. ASSUME NEW r \in Runs, AgentWaitUser(r) PROVE Kept
  BY <1>4 DEF AgentWaitUser, AfterWaitUser
<1>5. ASSUME NEW conv \in Conversations, PrepareWake(conv) PROVE Kept
  BY <1>5 DEF PrepareWake, AfterPrepareWake
<1>6. ASSUME SetReportingPhase PROVE Kept
  BY <1>6 DEF SetReportingPhase, AfterSetPhase
<1>7. ASSUME WaitUser \/ Answer \/ Cancel PROVE Kept
  BY <1>7 DEF WaitUser, AfterWaitUser, Answer, AfterAnswer, Cancel, AfterCancel
<1>8. ASSUME NEW role \in Roles, NEW to \in Participants, ReplaceAgent(role, to)
      PROVE  Kept
  BY <1>8 DEF ReplaceAgent, AfterReplace
<1>9. Kept \/ (RecordKept /\ ~RunActive(task) /\ ~RunActive(task)')
  BY <1>1, <1>2, <1>3, <1>4, <1>5, <1>6, <1>7, <1>8
     DEF Report, AgentActs, ForegroundActs, ImplementationDone, Verdict
<1>10. RecordKept /\ RunActive(task)' = RunActive(task)
  BY <1>9 DEF RunActive
<1>11. UNCHANGED <<tick, handle, runDirs, worker, agent, published, exits>>
  BY DEF Report, AgentActs, ForegroundActs, processes
<1>. QED
  BY <1>10, <1>11

---------------------------------------------------------------------------
(* The Runner's ticks are operations of the relay.                         *)

\* Every step of the Supervisor is a step of RelayTask or leaves the record alone:
\* a run is claimed and ended by the tick that holds it.
LEMMA StepRefines ==
  ASSUME SupTypeOK, TickHasLease, [SupNext]_supVars
  PROVE  [Next]_vars
<1>1. ASSUME NEW r \in Runs, ClaimRun(r) PROVE Next
  BY <1>1 DEF ClaimRun, Next
<1>2. ASSUME Abandon PROVE [Next]_vars
  <2>1. tick.run \in Runs
    BY <1>2 DEF Abandon, At, TickHasLease
  <2>. QED
    BY <1>2, <2>1 DEF Abandon, Next
<1>3. ASSUME Finalize PROVE [Next]_vars
  <2>1. /\ tick.run \in Runs /\ tick.code \in {0, 1}
        /\ tick.reason \in {"exit", "timeout", "interrupted"}
    BY <1>3 DEF Finalize, At, TickHasLease, SupTypeOK
  <2>2. EndRun(tick.run, tick.code, tick.reason) => FinishRun(tick.run)
    BY <2>1 DEF FinishRun
  <2>. QED
    BY <1>3, <2>1, <2>2 DEF Finalize, Next
<1>4. ASSUME Report PROVE Next
  BY <1>4 DEF Report, Next
<1>5. ASSUME NEW r \in Runs, AgentActs(r) PROVE Next
  BY <1>5 DEF AgentActs, Next
<1>6. ASSUME ForegroundActs PROVE Next
  BY <1>6 DEF ForegroundActs, Next
<1>7. ASSUME \/ DecideLaunch \/ ClaimRefused \/ OpenRun \/ SpawnWorker
             \/ WorkerIdentified \/ WorkerLost
             \/ CollectResult \/ Interrupted \/ Reconcile
             \/ TimeOut \/ TimeOutTooLate
             \/ BuildFails \/ WorkerSlow \/ StoreBusy \/ RunnerStops
             \/ AgentInterrupted
             \/ \E r \in Runs : WorkerStep(r) \/ AgentExits(r) \/ WorkerKilled(r)
             \/ UNCHANGED supVars
      PROVE  UNCHANGED vars
  BY <1>7 DEF DecideLaunch, ClaimRefused, OpenRun, SpawnWorker, WorkerIdentified,
     WorkerLost, CollectResult, Interrupted, Reconcile, TimeOut, TimeOutTooLate,
     BuildFails, WorkerSlow, StoreBusy, RunnerStops, AgentInterrupted, WorkerStep,
     StartAgent, Publish, WriteExit, AgentExits, WorkerKilled, supVars
<1>. QED
  BY <1>1, <1>2, <1>3, <1>4, <1>5, <1>6, <1>7 DEF SupNext, TickStep

\* The initial states of the Supervisor have the invariant.
LEMMA InitSupervisor == SupInit => SupInvariant
<1>. SUFFICES ASSUME SupInit PROVE SupInvariant
  OBVIOUS
<1>. USE DEF SupInit, Idle
<1>1. RelayInvariant
  BY InitInvariant
<1>2. SupTypeOK
  BY DEF SupTypeOK, Places
<1>3. WokenIsUnleased
  BY StartAssumption DEF Init, AtRest, WokenIsUnleased
<1>4. TickHasLease /\ HandleHasLease /\ HandleIsWatched /\ LaunchIsFresh
  BY DEF TickHasLease, HandleHasLease, HandleIsWatched, LaunchIsFresh, At
<1>5. ProcessLives
  BY DEF ProcessLives, Exited
<1>. QED
  BY <1>1, <1>2, <1>3, <1>4, <1>5 DEF SupInvariant

\* Ticks, processes and files keep their types.
LEMMA StepSupTyping ==
  ASSUME SupInvariant, [SupNext]_supVars
  PROVE  SupTypeOK'
<1>. USE DEF SupInvariant, SupTypeOK, TickHasLease, Places, processes, At,
             Fault, Exited
<1>1. ASSUME DecideLaunch PROVE SupTypeOK'
  <2>1. task.revision \in Nat
    BY FieldTyping DEF RelayInvariant, TypeOK
  <2>. QED
    BY <1>1, <2>1 DEF DecideLaunch, Idle
<1>2. ASSUME NEW r \in Runs, ClaimRun(r) PROVE SupTypeOK'
  BY <1>2 DEF ClaimRun, Claim, AfterClaim, Reach
<1>3. ASSUME ClaimRefused PROVE SupTypeOK'
  BY <1>3 DEF ClaimRefused, Idle
<1>4. ASSUME OpenRun PROVE SupTypeOK'
  BY <1>4 DEF OpenRun, Reach
<1>5. ASSUME BuildFails PROVE SupTypeOK'
  BY <1>5 DEF BuildFails, Reach
<1>6. ASSUME SpawnWorker PROVE SupTypeOK'
  BY <1>6 DEF SpawnWorker, Reach
<1>7. ASSUME WorkerIdentified PROVE SupTypeOK'
  BY <1>7 DEF WorkerIdentified, Idle
<1>8. ASSUME WorkerLost PROVE SupTypeOK'
  BY <1>8 DEF WorkerLost, Reach
<1>9. ASSUME WorkerSlow PROVE SupTypeOK'
  BY <1>9 DEF WorkerSlow, Reach
<1>10. ASSUME Abandon PROVE SupTypeOK'
  BY <1>10 DEF Abandon, AbandonLaunch, AfterFinishRun, Idle
<1>11. ASSUME CollectResult PROVE SupTypeOK'
  BY <1>11 DEF CollectResult, Ending, ExitCode, Idle
<1>12. ASSUME TimeOut PROVE SupTypeOK'
  BY <1>12 DEF TimeOut, Idle
<1>13. ASSUME TimeOutTooLate PROVE SupTypeOK'
  BY <1>13 DEF TimeOutTooLate, Idle
<1>14. ASSUME Interrupted PROVE SupTypeOK'
  BY <1>14 DEF Interrupted, Ending, ExitCode, Idle
<1>15. ASSUME Reconcile PROVE SupTypeOK'
  <2>1. PICK code \in {0, 1}, reason \in {"exit", "interrupted"} :
          tick' = [at |-> "finishing", run |-> task.runId, seen |-> 0,
                   code |-> code, reason |-> reason]
    <3>1. exits[task.runId] \in {0, 1, None}
      BY <1>15 DEF Reconcile, Known
    <3>. QED
      BY <1>15, <3>1 DEF Reconcile, Ending, Idle
  <2>2. task.runId \in Runs
    BY <1>15 DEF Reconcile, Known
  <2>. QED
    BY <1>15, <2>1, <2>2 DEF Reconcile
<1>16. ASSUME Finalize PROVE SupTypeOK'
  BY <1>16 DEF Finalize, EndRun, AfterFinishRun, Idle
<1>17. ASSUME StoreBusy PROVE SupTypeOK'
  BY <1>17 DEF StoreBusy, Idle
<1>18. ASSUME RunnerStops PROVE SupTypeOK'
  BY <1>18 DEF RunnerStops, Idle
<1>19. ASSUME NEW r \in Runs, StartAgent(r) PROVE SupTypeOK'
  BY <1>19 DEF StartAgent
<1>20. ASSUME NEW r \in Runs, Publish(r) PROVE SupTypeOK'
  BY <1>20 DEF Publish
<1>21. ASSUME NEW r \in Runs, AgentExits(r) PROVE SupTypeOK'
  BY <1>21 DEF AgentExits
<1>22. ASSUME NEW r \in Runs, WriteExit(r) PROVE SupTypeOK'
  BY <1>22 DEF WriteExit
<1>23. ASSUME NEW r \in Runs, WorkerKilled(r) PROVE SupTypeOK'
  BY <1>23 DEF WorkerKilled
<1>24. ASSUME AgentInterrupted PROVE SupTypeOK'
  BY <1>24 DEF AgentInterrupted
<1>25. ASSUME \/ Report
              \/ \E r \in Runs : AgentActs(r)
              \/ ForegroundActs
      PROVE  SupTypeOK'
  BY <1>25, OthersKeepLease DEF RecordKept
<1>26. CASE UNCHANGED supVars
  BY <1>26 DEF supVars, vars, processes
<1>. HIDE DEF SupInvariant, SupTypeOK, TickHasLease, Places, processes, At,
              Fault, Exited
<1>. QED
  BY <1>1, <1>2, <1>3, <1>4, <1>5, <1>6, <1>7, <1>8, <1>9, <1>10, <1>11,
     <1>12, <1>13, <1>14, <1>15, <1>16, <1>17, <1>18, <1>19, <1>20, <1>21,
     <1>22, <1>23, <1>24, <1>25, <1>26
     DEF SupNext, TickStep, WorkerStep

\* The run of a tick keeps the lease until the tick ends it, and so does the run of
\* the worker the Supervisor has a handle of.
LEMMA StepTickLease ==
  ASSUME SupInvariant, [SupNext]_supVars
  PROVE  (TickHasLease /\ HandleHasLease /\ HandleIsWatched)'
<1>. DEFINE Goal == (TickHasLease /\ HandleHasLease /\ HandleIsWatched)'
<1>. USE DEF SupInvariant, SupTypeOK, TickHasLease, HandleHasLease,
             HandleIsWatched, At, vars
<1>1. ASSUME DecideLaunch PROVE Goal
  BY <1>1 DEF DecideLaunch, Idle
<1>2. ASSUME NEW r \in Runs, ClaimRun(r) PROVE Goal
  BY <1>2 DEF ClaimRun, Claim, AfterClaim, Reach
<1>3. ASSUME ClaimRefused PROVE Goal
  BY <1>3 DEF ClaimRefused, Idle
<1>4. ASSUME OpenRun PROVE Goal
  BY <1>4 DEF OpenRun, Reach
<1>5. ASSUME BuildFails PROVE Goal
  BY <1>5 DEF BuildFails, Reach
<1>6. ASSUME SpawnWorker PROVE Goal
  BY <1>6 DEF SpawnWorker, Reach
<1>7. ASSUME WorkerIdentified PROVE Goal
  BY <1>7 DEF WorkerIdentified, Idle
<1>8. ASSUME WorkerLost PROVE Goal
  BY <1>8 DEF WorkerLost, Reach
<1>9. ASSUME WorkerSlow PROVE Goal
  BY <1>9 DEF WorkerSlow, Reach
<1>10. ASSUME Abandon PROVE Goal
  BY <1>10 DEF Abandon, AbandonLaunch, AfterFinishRun, Idle
<1>11. ASSUME CollectResult PROVE Goal
  BY <1>11 DEF CollectResult, Ending, ExitCode, Idle
<1>12. ASSUME TimeOut PROVE Goal
  BY <1>12 DEF TimeOut, Idle
<1>13. ASSUME TimeOutTooLate PROVE Goal
  BY <1>13 DEF TimeOutTooLate, Idle
<1>14. ASSUME Interrupted PROVE Goal
  BY <1>14 DEF Interrupted, Ending, ExitCode, Idle
<1>15. ASSUME Reconcile PROVE Goal
  BY <1>15 DEF Reconcile, Ending, Idle, Known, ProcessAlive
<1>16. ASSUME Finalize PROVE Goal
  BY <1>16 DEF Finalize, EndRun, AfterFinishRun, Idle
<1>17. ASSUME StoreBusy PROVE Goal
  BY <1>17 DEF StoreBusy, Idle
<1>18. ASSUME RunnerStops PROVE Goal
  BY <1>18 DEF RunnerStops, Idle
<1>19. ASSUME NEW r \in Runs, StartAgent(r) PROVE Goal
  BY <1>19 DEF StartAgent
<1>20. ASSUME NEW r \in Runs, Publish(r) PROVE Goal
  BY <1>20 DEF Publish
<1>21. ASSUME NEW r \in Runs, AgentExits(r) PROVE Goal
  BY <1>21 DEF AgentExits
<1>22. ASSUME NEW r \in Runs, WriteExit(r) PROVE Goal
  BY <1>22 DEF WriteExit
<1>23. ASSUME NEW r \in Runs, WorkerKilled(r) PROVE Goal
  BY <1>23 DEF WorkerKilled
<1>24. ASSUME AgentInterrupted PROVE Goal
  BY <1>24 DEF AgentInterrupted
<1>25. ASSUME \/ Report
              \/ \E r \in Runs : AgentActs(r)
              \/ ForegroundActs
      PROVE  Goal
  BY <1>25, OthersKeepLease DEF RecordKept
<1>26. CASE UNCHANGED supVars
  BY <1>26 DEF supVars, vars, processes
<1>. HIDE DEF SupInvariant, SupTypeOK, TickHasLease, HandleHasLease,
              HandleIsWatched, At, vars
<1>. QED
  BY <1>1, <1>2, <1>3, <1>4, <1>5, <1>6, <1>7, <1>8, <1>9, <1>10, <1>11,
     <1>12, <1>13, <1>14, <1>15, <1>16, <1>17, <1>18, <1>19, <1>20, <1>21,
     <1>22, <1>23, <1>24, <1>25, <1>26
     DEF SupNext, TickStep, WorkerStep

\* A worker is started once, its agent with it, and its files follow.
LEMMA StepProcesses ==
  ASSUME SupInvariant, [SupNext]_supVars
  PROVE  (ProcessLives /\ LaunchIsFresh)'
<1>. DEFINE Goal == (ProcessLives /\ LaunchIsFresh)'
<1>. USE DEF SupInvariant, SupTypeOK, TickHasLease, HandleHasLease,
             ProcessLives, LaunchIsFresh, Working, Exited, At, vars, processes
<1>1. ASSUME DecideLaunch PROVE Goal
  BY <1>1 DEF DecideLaunch, Idle
<1>2. ASSUME NEW r \in Runs, ClaimRun(r) PROVE Goal
  BY <1>2 DEF ClaimRun, Claim, AfterClaim, Reach
<1>3. ASSUME ClaimRefused PROVE Goal
  BY <1>3 DEF ClaimRefused, Idle
<1>4. ASSUME OpenRun PROVE Goal
  BY <1>4 DEF OpenRun, Reach
<1>5. ASSUME BuildFails PROVE Goal
  BY <1>5 DEF BuildFails, Reach
<1>6. ASSUME SpawnWorker PROVE Goal
  <2>1. tick.run \in Runs /\ task.runId = tick.run
    BY <1>6 DEF SpawnWorker
  <2>2. turn[tick.run] # None
    BY <2>1, NoneAssumption DEF RelayInvariant, LeaseConsistent
  <2>3. /\ worker' = [worker EXCEPT ![tick.run] = "starting"]
        /\ tick'.at = "spawned"
        /\ worker[tick.run] = "none"
        /\ UNCHANGED <<turn, agent, published, exits>>
    BY <1>6 DEF SpawnWorker, Reach
  <2>. QED
    BY <2>1, <2>2, <2>3
<1>7. ASSUME WorkerIdentified PROVE Goal
  BY <1>7 DEF WorkerIdentified, Idle
<1>8. ASSUME WorkerLost PROVE Goal
  BY <1>8 DEF WorkerLost, Reach
<1>9. ASSUME WorkerSlow PROVE Goal
  <2>1. tick.run \in Runs /\ task.runId = tick.run
    BY <1>9 DEF WorkerSlow
  <2>2. turn[tick.run] # None
    BY <2>1, NoneAssumption DEF RelayInvariant, LeaseConsistent
  <2>3. /\ worker' = [worker EXCEPT ![tick.run] = "gone"]
        /\ tick'.at = "abandoning" /\ tick'.run = tick.run
        /\ UNCHANGED <<turn, agent, published, exits>>
    BY <1>9 DEF WorkerSlow, Reach
  <2>. QED
    BY <2>1, <2>2, <2>3
<1>10. ASSUME Abandon PROVE Goal
  BY <1>10 DEF Abandon, AbandonLaunch, AfterFinishRun, Idle
<1>11. ASSUME CollectResult PROVE Goal
  BY <1>11 DEF CollectResult, Ending, ExitCode, Idle
<1>12. ASSUME TimeOut PROVE Goal
  BY <1>12 DEF TimeOut, Idle
<1>13. ASSUME TimeOutTooLate PROVE Goal
  BY <1>13 DEF TimeOutTooLate, Idle
<1>14. ASSUME Interrupted PROVE Goal
  BY <1>14 DEF Interrupted, Ending, ExitCode, Idle
<1>15. ASSUME Reconcile PROVE Goal
  <2>1. tick'.at = "finishing" /\ UNCHANGED <<turn, worker, agent, published, exits>>
    BY <1>15 DEF Reconcile, Ending, Idle
  <2>. QED
    BY <2>1
<1>16. ASSUME Finalize PROVE Goal
  BY <1>16 DEF Finalize, EndRun, AfterFinishRun, Idle
<1>17. ASSUME StoreBusy PROVE Goal
  BY <1>17 DEF StoreBusy, Idle
<1>18. ASSUME RunnerStops PROVE Goal
  BY <1>18 DEF RunnerStops, Idle
<1>19. ASSUME NEW r \in Runs, StartAgent(r) PROVE Goal
  BY <1>19 DEF StartAgent
<1>20. ASSUME NEW r \in Runs, Publish(r) PROVE Goal
  BY <1>20 DEF Publish
<1>21. ASSUME NEW r \in Runs, AgentExits(r) PROVE Goal
  BY <1>21 DEF AgentExits
<1>22. ASSUME NEW r \in Runs, WriteExit(r) PROVE Goal
  BY <1>22 DEF WriteExit
<1>23. ASSUME NEW r \in Runs, WorkerKilled(r) PROVE Goal
  BY <1>23 DEF WorkerKilled
<1>24. ASSUME AgentInterrupted PROVE Goal
  BY <1>24 DEF AgentInterrupted
<1>25. ASSUME \/ Report
              \/ \E r \in Runs : AgentActs(r)
              \/ ForegroundActs
      PROVE  Goal
  BY <1>25, OthersKeepLease DEF RecordKept
<1>26. CASE UNCHANGED supVars
  BY <1>26 DEF supVars, vars, processes
<1>. HIDE DEF SupInvariant, SupTypeOK, TickHasLease, HandleHasLease,
              ProcessLives, LaunchIsFresh, Working, Exited, At, vars,
              processes
<1>. QED
  BY <1>1, <1>2, <1>3, <1>4, <1>5, <1>6, <1>7, <1>8, <1>9, <1>10, <1>11,
     <1>12, <1>13, <1>14, <1>15, <1>16, <1>17, <1>18, <1>19, <1>20, <1>21,
     <1>22, <1>23, <1>24, <1>25, <1>26
     DEF SupNext, TickStep, WorkerStep

---------------------------------------------------------------------------
(* The safety of the Supervisor, whatever the faults.                      *)

\* The invariant is inductive.
LEMMA StepSupervisor == SupInvariant /\ [SupNext]_supVars => SupInvariant'
<1>. SUFFICES ASSUME SupInvariant, [SupNext]_supVars PROVE SupInvariant'
  OBVIOUS
<1>1. [Next]_vars
  BY StepRefines DEF SupInvariant
<1>2. RelayInvariant' /\ WokenIsUnleased'
  BY <1>1, StepInvariant, StepWoken DEF SupInvariant
<1>. QED
  BY <1>2, StepSupTyping, StepTickLease, StepProcesses DEF SupInvariant

\* Ticks, processes, files and record agree in every reachable state, whatever
\* goes wrong (ProjectSupervisor.tick, run_worker.execute).
THEOREM SupervisorSafety == SupSpec => []SupInvariant
BY InitSupervisor, StepSupervisor, PTL DEF SupSpec

\* The Supervisor, with its workers and agents, does nothing to the record that
\* RelayTask does not allow: all its theorems hold of the Runner at work.
THEOREM SupervisorRefines == SupSpec => Spec
<1>1. SupInit => Init
  BY DEF SupInit
<1>2. SupInvariant /\ [SupNext]_supVars => [Next]_vars
  BY StepRefines DEF SupInvariant
<1>. QED
  BY <1>1, <1>2, SupervisorSafety, PTL DEF SupSpec, Spec

\* The worker this Supervisor has a handle of is the worker of the leased run,
\* after any fault, a crash in the middle of a tick included (_active, _finalize).
THEOREM HandleSafety == SupSpec => []HandleHasLease
BY SupervisorSafety, PTL DEF SupInvariant

---------------------------------------------------------------------------
(* What depends on the faults.                                             *)

\* A tick that is not cut short leaves no worker behind that nobody knows.
LEMMA StepWorkers ==
  ASSUME SupInvariant, WorkersAreKnown, "crash" \notin Faults,
         [SupNext]_supVars
  PROVE  WorkersAreKnown'
<1>. USE DEF SupInvariant, SupTypeOK, TickHasLease, HandleHasLease,
             HandleIsWatched, ProcessLives, LaunchIsFresh, WorkersAreKnown,
             Working, Exited, Fault, At, vars, processes
<1>1. ASSUME DecideLaunch PROVE WorkersAreKnown'
  BY <1>1 DEF DecideLaunch, Idle
<1>2. ASSUME NEW r \in Runs, ClaimRun(r) PROVE WorkersAreKnown'
  <2>1. task.runId = None
    BY <1>2 DEF ClaimRun, Claim, CanClaim, RelayInvariant, LeaseConsistent
  <2>2. \A q \in Runs : ~Working(q)
    BY <2>1, NoneAssumption
  <2>3. tick'.at = "claimed" /\ worker' = worker
    BY <1>2 DEF ClaimRun, Reach
  <2>. QED
    BY <2>2, <2>3
<1>3. ASSUME ClaimRefused PROVE WorkersAreKnown'
  BY <1>3 DEF ClaimRefused, Idle
<1>4. ASSUME OpenRun PROVE WorkersAreKnown'
  BY <1>4 DEF OpenRun, Reach
<1>5. ASSUME BuildFails PROVE WorkersAreKnown'
  BY <1>5 DEF BuildFails, Reach
<1>6. ASSUME SpawnWorker PROVE WorkersAreKnown'
  BY <1>6 DEF SpawnWorker, Reach
<1>7. ASSUME WorkerIdentified PROVE WorkersAreKnown'
  BY <1>7 DEF WorkerIdentified, Idle
<1>8. ASSUME WorkerLost PROVE WorkersAreKnown'
  BY <1>8 DEF WorkerLost, Reach
<1>9. ASSUME WorkerSlow PROVE WorkersAreKnown'
  BY <1>9 DEF WorkerSlow, Reach
<1>10. ASSUME Abandon PROVE WorkersAreKnown'
  BY <1>10 DEF Abandon, AbandonLaunch, AfterFinishRun, Idle
<1>11. ASSUME CollectResult PROVE WorkersAreKnown'
  BY <1>11 DEF CollectResult, Ending, ExitCode, Idle
<1>12. ASSUME TimeOut PROVE WorkersAreKnown'
  BY <1>12 DEF TimeOut, Idle
<1>13. ASSUME TimeOutTooLate PROVE WorkersAreKnown'
  BY <1>13 DEF TimeOutTooLate, Idle
<1>14. ASSUME Interrupted PROVE WorkersAreKnown'
  BY <1>14 DEF Interrupted, Ending, ExitCode, Idle
<1>15. ASSUME Reconcile PROVE WorkersAreKnown'
  <2>a. tick.at = "idle" /\ UNCHANGED <<task, worker, published>>
    BY <1>15 DEF Reconcile
  <2>b. task.runId \in Runs
    BY <1>15 DEF Reconcile, Known
  <2>c. \E code, reason : Ending(task.runId, code, reason)
    BY <1>15 DEF Reconcile
  <2>d. tick'.at = "finishing" /\ tick'.run = task.runId
    <3>. HIDE DEF SupInvariant, SupTypeOK, WorkersAreKnown
    <3>. QED
      BY <2>c DEF Ending, Idle
  <2>1. /\ tick.at = "idle" /\ task.runId \in Runs
        /\ tick'.at = "finishing" /\ tick'.run = task.runId
        /\ UNCHANGED <<task, worker, published>>
    BY <2>a, <2>b, <2>d
  <2>2. exits[task.runId] # None \/ ~ProcessAlive(task.runId)
    BY <1>15 DEF Reconcile
  <2>3. ~Working(task.runId)
    BY <2>1, <2>2 DEF ProcessAlive
  <2>4. \A q \in Runs : Working(q) => q \in published
    BY <2>1
  <2>. QED
    BY <2>1, <2>3, <2>4
<1>16. ASSUME Finalize PROVE WorkersAreKnown'
  BY <1>16 DEF Finalize, EndRun, AfterFinishRun, Idle
<1>17. ASSUME StoreBusy PROVE WorkersAreKnown'
  BY <1>17 DEF StoreBusy, Idle
<1>18. ASSUME RunnerStops PROVE WorkersAreKnown'
  BY <1>18 DEF RunnerStops, Idle
<1>19. ASSUME NEW r \in Runs, StartAgent(r) PROVE WorkersAreKnown'
  BY <1>19 DEF StartAgent
<1>20. ASSUME NEW r \in Runs, Publish(r) PROVE WorkersAreKnown'
  BY <1>20 DEF Publish
<1>21. ASSUME NEW r \in Runs, AgentExits(r) PROVE WorkersAreKnown'
  BY <1>21 DEF AgentExits
<1>22. ASSUME NEW r \in Runs, WriteExit(r) PROVE WorkersAreKnown'
  BY <1>22 DEF WriteExit
<1>23. ASSUME NEW r \in Runs, WorkerKilled(r) PROVE WorkersAreKnown'
  BY <1>23 DEF WorkerKilled
<1>24. ASSUME AgentInterrupted PROVE WorkersAreKnown'
  BY <1>24 DEF AgentInterrupted
<1>25. ASSUME \/ Report
              \/ \E r \in Runs : AgentActs(r)
              \/ ForegroundActs
      PROVE  WorkersAreKnown'
  BY <1>25, OthersKeepLease DEF RecordKept
<1>26. CASE UNCHANGED supVars
  BY <1>26 DEF supVars, vars, processes
<1>. HIDE DEF SupInvariant, SupTypeOK, TickHasLease, HandleHasLease,
              HandleIsWatched, ProcessLives, LaunchIsFresh, WorkersAreKnown,
              Working, Exited, Fault, At, vars, processes
<1>. QED
  BY <1>1, <1>2, <1>3, <1>4, <1>5, <1>6, <1>7, <1>8, <1>9, <1>10, <1>11,
     <1>12, <1>13, <1>14, <1>15, <1>16, <1>17, <1>18, <1>19, <1>20, <1>21,
     <1>22, <1>23, <1>24, <1>25, <1>26
     DEF SupNext, TickStep, WorkerStep

\* A worker that is neither killed nor given up outlives its agent.
LEMMA StepAgents ==
  ASSUME SupInvariant, AgentHasWorker, Faults \cap {"kill", "slow"} = {},
         [SupNext]_supVars
  PROVE  AgentHasWorker'
<1>. USE DEF SupInvariant, SupTypeOK, TickHasLease, HandleHasLease,
             ProcessLives, LaunchIsFresh, AgentHasWorker, Working, Exited,
             Fault, At, vars, processes
<1>1. ASSUME DecideLaunch PROVE AgentHasWorker'
  BY <1>1 DEF DecideLaunch, Idle
<1>2. ASSUME NEW r \in Runs, ClaimRun(r) PROVE AgentHasWorker'
  BY <1>2 DEF ClaimRun, Claim, AfterClaim, Reach
<1>3. ASSUME ClaimRefused PROVE AgentHasWorker'
  BY <1>3 DEF ClaimRefused, Idle
<1>4. ASSUME OpenRun PROVE AgentHasWorker'
  BY <1>4 DEF OpenRun, Reach
<1>5. ASSUME BuildFails PROVE AgentHasWorker'
  BY <1>5 DEF BuildFails, Reach
<1>6. ASSUME SpawnWorker PROVE AgentHasWorker'
  BY <1>6 DEF SpawnWorker, Reach
<1>7. ASSUME WorkerIdentified PROVE AgentHasWorker'
  BY <1>7 DEF WorkerIdentified, Idle
<1>8. ASSUME WorkerLost PROVE AgentHasWorker'
  BY <1>8 DEF WorkerLost, Reach
<1>9. ASSUME WorkerSlow PROVE AgentHasWorker'
  BY <1>9 DEF WorkerSlow, Reach
<1>10. ASSUME Abandon PROVE AgentHasWorker'
  BY <1>10 DEF Abandon, AbandonLaunch, AfterFinishRun, Idle
<1>11. ASSUME CollectResult PROVE AgentHasWorker'
  BY <1>11 DEF CollectResult, Ending, ExitCode, Idle
<1>12. ASSUME TimeOut PROVE AgentHasWorker'
  BY <1>12 DEF TimeOut, Idle
<1>13. ASSUME TimeOutTooLate PROVE AgentHasWorker'
  BY <1>13 DEF TimeOutTooLate, Idle
<1>14. ASSUME Interrupted PROVE AgentHasWorker'
  BY <1>14 DEF Interrupted, Ending, ExitCode, Idle
<1>15. ASSUME Reconcile PROVE AgentHasWorker'
  BY <1>15 DEF Reconcile, Ending, Idle, Known, ProcessAlive
<1>16. ASSUME Finalize PROVE AgentHasWorker'
  BY <1>16 DEF Finalize, EndRun, AfterFinishRun, Idle
<1>17. ASSUME StoreBusy PROVE AgentHasWorker'
  BY <1>17 DEF StoreBusy, Idle
<1>18. ASSUME RunnerStops PROVE AgentHasWorker'
  BY <1>18 DEF RunnerStops, Idle
<1>19. ASSUME NEW r \in Runs, StartAgent(r) PROVE AgentHasWorker'
  BY <1>19 DEF StartAgent
<1>20. ASSUME NEW r \in Runs, Publish(r) PROVE AgentHasWorker'
  BY <1>20 DEF Publish
<1>21. ASSUME NEW r \in Runs, AgentExits(r) PROVE AgentHasWorker'
  BY <1>21 DEF AgentExits
<1>22. ASSUME NEW r \in Runs, WriteExit(r) PROVE AgentHasWorker'
  BY <1>22 DEF WriteExit
<1>23. ASSUME NEW r \in Runs, WorkerKilled(r) PROVE AgentHasWorker'
  BY <1>23 DEF WorkerKilled
<1>24. ASSUME AgentInterrupted PROVE AgentHasWorker'
  BY <1>24 DEF AgentInterrupted
<1>25. ASSUME \/ Report
              \/ \E r \in Runs : AgentActs(r)
              \/ ForegroundActs
      PROVE  AgentHasWorker'
  BY <1>25, OthersKeepLease DEF RecordKept
<1>26. CASE UNCHANGED supVars
  BY <1>26 DEF supVars, vars, processes
<1>. HIDE DEF SupInvariant, SupTypeOK, TickHasLease, HandleHasLease,
              ProcessLives, LaunchIsFresh, AgentHasWorker, Working, Exited,
              Fault, At, vars, processes
<1>. QED
  BY <1>1, <1>2, <1>3, <1>4, <1>5, <1>6, <1>7, <1>8, <1>9, <1>10, <1>11,
     <1>12, <1>13, <1>14, <1>15, <1>16, <1>17, <1>18, <1>19, <1>20, <1>21,
     <1>22, <1>23, <1>24, <1>25, <1>26
     DEF SupNext, TickStep, WorkerStep

\* A launch either has its directory or gives the lease back.
LEMMA StepDirectory ==
  ASSUME SupInvariant, LaunchHasDirectory, Faults \cap {"crash", "busy"} = {},
         [SupNext]_supVars
  PROVE  LaunchHasDirectory'
<1>. USE DEF SupInvariant, SupTypeOK, TickHasLease, LaunchHasDirectory,
             LeaseIsRecoverable, Fault, At, vars, processes
<1>1. ASSUME DecideLaunch PROVE LaunchHasDirectory'
  BY <1>1 DEF DecideLaunch, Idle
<1>2. ASSUME NEW r \in Runs, ClaimRun(r) PROVE LaunchHasDirectory'
  BY <1>2 DEF ClaimRun, Claim, AfterClaim, Reach
<1>3. ASSUME ClaimRefused PROVE LaunchHasDirectory'
  BY <1>3 DEF ClaimRefused, Idle
<1>4. ASSUME OpenRun PROVE LaunchHasDirectory'
  BY <1>4 DEF OpenRun, Reach
<1>5. ASSUME BuildFails PROVE LaunchHasDirectory'
  BY <1>5 DEF BuildFails, Reach
<1>6. ASSUME SpawnWorker PROVE LaunchHasDirectory'
  BY <1>6 DEF SpawnWorker, Reach
<1>7. ASSUME WorkerIdentified PROVE LaunchHasDirectory'
  BY <1>7 DEF WorkerIdentified, Idle
<1>8. ASSUME WorkerLost PROVE LaunchHasDirectory'
  BY <1>8 DEF WorkerLost, Reach
<1>9. ASSUME WorkerSlow PROVE LaunchHasDirectory'
  BY <1>9 DEF WorkerSlow, Reach
<1>10. ASSUME Abandon PROVE LaunchHasDirectory'
  <2>1. task.runId = tick.run /\ CanFinishRun(task, tick.run)
    BY <1>10, NoneAssumption
       DEF Abandon, CanFinishRun, RelayInvariant, LeaseConsistent
  <2>. task \in TaskRecords
    BY DEF RelayInvariant, TypeOK
  <2>2. task'.runId = None /\ tick'.at = "idle"
    BY <1>10, <2>1 DEF Abandon, AbandonLaunch, AfterFinishRun, Idle, TaskRecords
  <2>3. ~RunActive(task)'
    BY <2>2, StepRefines, StepInvariant DEF RelayInvariant, LeaseConsistent
  <2>. QED
    BY <2>2, <2>3
<1>11. ASSUME CollectResult PROVE LaunchHasDirectory'
  BY <1>11 DEF CollectResult, Ending, ExitCode, Idle
<1>12. ASSUME TimeOut PROVE LaunchHasDirectory'
  BY <1>12 DEF TimeOut, Idle
<1>13. ASSUME TimeOutTooLate PROVE LaunchHasDirectory'
  BY <1>13 DEF TimeOutTooLate, Idle
<1>14. ASSUME Interrupted PROVE LaunchHasDirectory'
  BY <1>14 DEF Interrupted, Ending, ExitCode, Idle
<1>15. ASSUME Reconcile PROVE LaunchHasDirectory'
  BY <1>15 DEF Reconcile, Ending, Idle, Known, ProcessAlive
<1>16. ASSUME Finalize PROVE LaunchHasDirectory'
  <2>1. task.runId = tick.run /\ CanFinishRun(task, tick.run)
    BY <1>16, NoneAssumption
       DEF Finalize, CanFinishRun, RelayInvariant, LeaseConsistent
  <2>. task \in TaskRecords
    BY DEF RelayInvariant, TypeOK
  <2>2. task'.runId = None /\ tick'.at = "idle"
    BY <1>16, <2>1 DEF Finalize, EndRun, AfterFinishRun, Idle, TaskRecords
  <2>3. ~RunActive(task)'
    BY <2>2, StepRefines, StepInvariant DEF RelayInvariant, LeaseConsistent
  <2>. QED
    BY <2>2, <2>3
<1>17. ASSUME StoreBusy PROVE LaunchHasDirectory'
  BY <1>17 DEF StoreBusy, Idle
<1>18. ASSUME RunnerStops PROVE LaunchHasDirectory'
  BY <1>18 DEF RunnerStops, Idle
<1>19. ASSUME NEW r \in Runs, StartAgent(r) PROVE LaunchHasDirectory'
  BY <1>19 DEF StartAgent
<1>20. ASSUME NEW r \in Runs, Publish(r) PROVE LaunchHasDirectory'
  BY <1>20 DEF Publish
<1>21. ASSUME NEW r \in Runs, AgentExits(r) PROVE LaunchHasDirectory'
  BY <1>21 DEF AgentExits
<1>22. ASSUME NEW r \in Runs, WriteExit(r) PROVE LaunchHasDirectory'
  BY <1>22 DEF WriteExit
<1>23. ASSUME NEW r \in Runs, WorkerKilled(r) PROVE LaunchHasDirectory'
  BY <1>23 DEF WorkerKilled
<1>24. ASSUME AgentInterrupted PROVE LaunchHasDirectory'
  BY <1>24 DEF AgentInterrupted
<1>25. ASSUME \/ Report
              \/ \E r \in Runs : AgentActs(r)
              \/ ForegroundActs
      PROVE  LaunchHasDirectory'
  BY <1>25, OthersKeepLease DEF RecordKept
<1>26. CASE UNCHANGED supVars
  BY <1>26 DEF supVars, vars, processes
<1>. HIDE DEF SupInvariant, SupTypeOK, TickHasLease, LaunchHasDirectory,
              LeaseIsRecoverable, Fault, At, vars, processes
<1>. QED
  BY <1>1, <1>2, <1>3, <1>4, <1>5, <1>6, <1>7, <1>8, <1>9, <1>10, <1>11,
     <1>12, <1>13, <1>14, <1>15, <1>16, <1>17, <1>18, <1>19, <1>20, <1>21,
     <1>22, <1>23, <1>24, <1>25, <1>26
     DEF SupNext, TickStep, WorkerStep

\* A tick may be cut short only by a crash: while none happens, an agent keeps its
\* lease as long as its worker waits for it, through timeouts, killed workers, given
\* up launches, restarts and failing store calls (_finalize, _reconcile_durable).
THEOREM AgentLease ==
  ASSUME "crash" \notin Faults
  PROVE  SupSpec => []AgentKeepsLease
<1>1. SupInit => WorkersAreKnown
  BY DEF SupInit, WorkersAreKnown, Working, At, Idle
<1>2. SupInvariant /\ WorkersAreKnown /\ [SupNext]_supVars => WorkersAreKnown'
  BY StepWorkers
<1>3. WorkersAreKnown => AgentKeepsLease
  BY DEF WorkersAreKnown, Working, AgentKeepsLease
<1>. QED
  BY <1>1, <1>2, <1>3, SupervisorSafety, PTL DEF SupSpec

\* Whoever holds a lease can give it back: the tick that is launching, or the run's
\* directory.  Only a crash between claim and directory and a lock met while a failed
\* launch is undone break this (tick, run_store.create).
THEOREM LeaseRecovery ==
  ASSUME Faults \cap {"crash", "busy"} = {}
  PROVE  SupSpec => []LeaseIsRecoverable
<1>1. SupInit => LaunchHasDirectory
  BY StartAssumption
     DEF SupInit, Init, LaunchHasDirectory, LeaseIsRecoverable, Idle, AtRest
<1>2. SupInvariant /\ LaunchHasDirectory /\ [SupNext]_supVars => LaunchHasDirectory'
  BY StepDirectory
<1>3. LaunchHasDirectory => LeaseIsRecoverable
  BY DEF LaunchHasDirectory
<1>. QED
  BY <1>1, <1>2, <1>3, SupervisorSafety, PTL DEF SupSpec

\* One background agent at a time, as the documentation promises, whatever failing
\* store calls, failing launches and restarts do: what breaks it is a worker killed or
\* given up, or a Runner that dies in the middle of a tick (sup_second_turn).
THEOREM OneTurn ==
  ASSUME Faults \subseteq {"busy", "build", "restart"}
  PROVE  SupSpec => []OneTurnAtATime
<1>1. /\ "crash" \notin Faults
      /\ Faults \cap {"kill", "slow"} = {}
  OBVIOUS
<1>2. SupInit => AgentHasWorker
  BY DEF SupInit, AgentHasWorker
<1>3. SupInvariant /\ AgentHasWorker /\ [SupNext]_supVars => AgentHasWorker'
  BY <1>1, StepAgents
<1>4. AgentHasWorker /\ AgentKeepsLease => OneTurnAtATime
  BY DEF AgentHasWorker, AgentKeepsLease, OneTurnAtATime
<1>5. SupSpec => []AgentKeepsLease
  BY <1>1, AgentLease
<1>. QED
  BY <1>2, <1>3, <1>4, <1>5, SupervisorSafety, PTL DEF SupSpec

================================================================================
