------------------------------ MODULE StateStore ------------------------------
(***************************************************************************)
(* state_store.py as its callers run it.  The Runner and the command-line  *)
(* helpers are processes on one checkout.  A call reads the record without *)
(* the lock to learn its arguments, creates the lock file (or fails at     *)
(* once when it exists), reads and checks the record again, writes one     *)
(* file after the other, and unlinks the lock file.  A process may die     *)
(* between any two of these steps; the lock file then stays until somebody *)
(* releases it.  The checks and the records written are those of           *)
(* TaskRecord, and the whole implements RelayTask.                         *)
(***************************************************************************)
EXTENDS RelayTask

CONSTANTS
  Runners,          \* Runner processes: the service, and a manual --once
  Clients,          \* processes of relay_state.py and workflow_state.py
  Layout,           \* "checkout": .git is a directory; "worktree": it is a file
  MaxCrashes,       \* bound: processes that die holding the lock
  Free, Stale       \* no lock file; a lock file whose process is gone

Callers == Runners \cup Clients

ASSUME LayoutAssumption == Layout \in {"checkout", "worktree"}
ASSUME CallersAssumption ==
  Free \notin Callers /\ Stale \notin Callers /\ Free # Stale
ASSUME CrashesAssumption == MaxCrashes \in Nat
ASSUME RoleEventAssumption == None \notin RoleEvents

VARIABLES
  index,      \* PROJECT_STATUS.md: the task is listed as active or completed
  txn,        \* .agent-relay-auto/transactions: no directory, empty, a report
  lock,       \* lock file -> the process that created it, Free or Stale
  pc,         \* caller -> where it is in its call
  call,       \* caller -> operation, arguments, and the record it read first
  snap,       \* caller -> the files it read under the lock
  crashes

files == <<index, txn>>
process == <<pc, call, snap>>
storeVars == <<vars, index, txn, lock, pc, call, snap, crashes>>

---------------------------------------------------------------------------
(* The lock files.  state_store._lock_path takes <repo>/.git only when it  *)
(* is a directory; workflow_state.lock_paths also follows a .git file.     *)

LockFiles == {"git_dir", "repo_root"}

StoreLock == IF Layout = "checkout" THEN "git_dir" ELSE "repo_root"
HelperLock == "git_dir"

\* Mutant: the helper locks a file of its own in every layout.
LockOfHelperApart(q) ==
  IF q.op = "replace_agent" THEN "repo_root" ELSE "git_dir"

LockOf(q) == IF q.op = "replace_agent" THEN HelperLock ELSE StoreLock

---------------------------------------------------------------------------
(* Requests.                                                               *)

RunnerOps == {"claim", "finish_run", "abandon_launch", "prepare_wake",
              "set_phase", "recover"}
ClientOps == {"complete_stage", "wait_user", "answer", "cancel",
              "complete_report", "replace_agent"}
Ops == RunnerOps \cup ClientOps

\* How a run ended: its exit code, or the reason it was ended for.
Endings == {"exit0", "exit1", "timeout", "interrupted"}

Requests ==
  [op   : Ops,
   seen : TaskRecords,
   who  : Participants \cup {None},
   run  : Runs \cup {None},
   rule : RoleEvents \cup {None},
   arg  : Roles \cup Conversations \cup Phases \cup Endings \cup {None}]

Request(op, who, run, arg) ==
  [op |-> op, seen |-> task, who |-> who, run |-> run, rule |-> None, arg |-> arg]

HandoverRequest(e, who, run) ==
  [Request("complete_stage", who, run, None) EXCEPT !.rule = e]

PlannerRequests ==
  {HandoverRequest(e, p, None) :
     p \in Planners, e \in {x \in RoleEvents : x.role = "planner"}}
  \cup {Request("complete_report", p, None, None) : p \in Planners}

AgentRequests(r) ==
  {HandoverRequest(e, turn[r].who, r) :
     e \in {x \in RoleEvents : turn[r] # None /\ x.role = turn[r].role}}

UserRequests ==
  {Request(op, None, None, None) : op \in {"wait_user", "answer", "cancel"}}
  \cup {Request("replace_agent", p, None, role) : p \in Participants, role \in Roles}

\* What the Planner, the agent of a run or the user may ask for.
ClientRequests ==
  PlannerRequests \cup UserRequests \cup UNION {AgentRequests(r) : r \in Runs}

\* What Supervisor.tick decides on the record it read.
RunnerRequests ==
  {Request("claim", task.participant, r, None) :
     r \in {x \in Runs : /\ turn[x] = None
                         /\ ~RunActive(task)
                         /\ task.status \in {"IMPLEMENTING", "REVIEWING"}}}
  \cup {Request("finish_run", None, r, how) :
          r \in {x \in Runs : x = task.runId},
          how \in Endings}
  \cup {Request("abandon_launch", None, r, None) : r \in {x \in Runs : x = task.runId}}
  \cup {Request("prepare_wake", task.participant, None, conv) :
          conv \in {x \in Conversations : /\ task.status = "REPORTING"
                                          /\ ~RunActive(task)
                                          /\ task.participant \in Planners}}
  \cup {Request("set_phase", None, None, phase) :
          phase \in {x \in {"submitted", "active"} : /\ task.status = "REPORTING"
                                                     /\ ~RunActive(task)
                                                     /\ task.wakeKey # None}}
  \cup {Request("recover", None, None, None) : x \in {y \in {txn} : y # "no_dir"}}

ResultOf(q, s) ==
  LET start  == IF q.op = "abandon_launch" THEN None ELSE turn[q.run].from
      code   == IF q.arg = "exit0" THEN 0 ELSE 1
      reason == IF q.arg \in {"timeout", "interrupted"} THEN q.arg ELSE "exit"
  IN RunResult(start, s.status, code, reason)

\* Mutant: no compare-and-set.
SameRevisionUnchecked(q, s) == s.revision >= q.seen.revision

\* The expected_revision check; finish_run and the recovery have none.
SameRevision(q, s) ==
  q.op \in {"finish_run", "abandon_launch", "recover"} \/ s.revision = q.seen.revision

Accepts(q, s) ==
  /\ SameRevision(q, s)
  /\ q.op # "recover" => Bounded
  /\ CASE q.op = "complete_stage"  -> CanCompleteStage(s, q.rule, q.who, q.run)
       [] q.op = "complete_report" -> CanCompleteReport(s, q.who, q.seen.wakeKey,
                                                        q.seen.delivery, q.seen.review)
       [] q.op = "wait_user"       -> CanWaitUser(s)
       [] q.op = "answer"          -> CanAnswer(s, q.seen.question)
       [] q.op = "cancel"          -> CanCancel(s)
       [] q.op = "replace_agent"   -> \E stopped \in BOOLEAN :
                                        CanReplace(s, q.arg, q.seen.assignments[q.arg],
                                                   q.who, stopped)
       [] q.op = "claim"           -> CanClaim(s)
       [] q.op = "finish_run"      -> CanFinishRun(s, q.run)
       [] q.op = "abandon_launch"  -> CanFinishRun(s, q.run)
       [] q.op = "prepare_wake"    -> CanPrepareWake(s, q.who)
       [] q.op = "set_phase"       -> CanSetPhase(s, q.seen.wakeKey)
       [] q.op = "recover"         -> txn = "report"

Outcome(q, s) ==
  CASE q.op = "complete_stage"  -> AfterCompleteStage(s, q.rule)
    [] q.op = "complete_report" -> AfterCompleteReport(s)
    [] q.op = "wait_user"       -> AfterWaitUser(s)
    [] q.op = "answer"          -> AfterAnswer(s)
    [] q.op = "cancel"          -> AfterCancel(s)
    [] q.op = "replace_agent"   -> AfterReplace(s, q.arg, q.who)
    [] q.op = "claim"           -> AfterClaim(s, q.run)
    [] q.op = "finish_run"      -> AfterFinishRun(s, q.run, ResultOf(q, s))
    [] q.op = "abandon_launch"  -> AfterFinishRun(s, q.run, ResultOf(q, s))
    [] q.op = "prepare_wake"    -> AfterPrepareWake(s, q.who, q.arg)
    [] q.op = "set_phase"       -> AfterSetPhase(s, q.arg)

---------------------------------------------------------------------------

Locations == {"idle", "locking", "checking", "journaling", "writing",
              "indexing", "unlinking", "releasing"}
Inside == Locations \ {"idle", "locking"}

StoreInit ==
  /\ Init
  /\ index = "active"
  /\ txn = "no_dir"
  /\ lock = [f \in LockFiles |-> Free]
  /\ pc = [p \in Callers |-> "idle"]
  /\ call = [p \in Callers |-> None]
  /\ snap = [p \in Callers |-> None]
  /\ crashes = 0

Goto(p, from, to) == pc[p] = from /\ pc' = [pc EXCEPT ![p] = to]

\* The caller reads STATE.md, no lock held, and decides what to ask for.
Call(p) ==
  /\ Goto(p, "idle", "locking")
  /\ \E q \in IF p \in Runners THEN RunnerRequests ELSE ClientRequests :
       call' = [call EXCEPT ![p] = q]
  /\ UNCHANGED <<vars, files, lock, snap, crashes>>

\* Mutant: the lock file is opened without O_EXCL.
AcquireShared(p) ==
  /\ Goto(p, "locking", "checking")
  /\ lock' = [lock EXCEPT ![LockOf(call[p])] = p]
  /\ UNCHANGED <<vars, files, call, snap, crashes>>

\* os.open(O_CREAT | O_EXCL).
Acquire(p) ==
  /\ Goto(p, "locking", "checking")
  /\ lock[LockOf(call[p])] = Free
  /\ lock' = [lock EXCEPT ![LockOf(call[p])] = p]
  /\ UNCHANGED <<vars, files, call, snap, crashes>>

\* Mutant: the finally clause also runs when the lock was not obtained.
LockExistsUnlinks(p) ==
  /\ pc[p] = "locking"
  /\ lock[LockOf(call[p])] # Free
  /\ lock' = [lock EXCEPT ![LockOf(call[p])] = Free]
  /\ pc' = [pc EXCEPT ![p] = "idle"]
  /\ call' = [call EXCEPT ![p] = None]
  /\ UNCHANGED <<vars, files, snap, crashes>>

\* StateLockError: the call fails without waiting.
LockExists(p) ==
  /\ pc[p] = "locking"
  /\ lock[LockOf(call[p])] # Free
  /\ pc' = [pc EXCEPT ![p] = "idle"]
  /\ call' = [call EXCEPT ![p] = None]
  /\ UNCHANGED <<vars, files, lock, snap, crashes>>

\* Mutant: the recovery completes the index whatever STATE.md says.
FirstWriteTrusting(q, s) ==
  CASE q.op = "complete_report" -> "journaling"
    [] q.op = "recover" -> "indexing"
    [] q.op \notin {"complete_report", "recover"} -> "writing"

\* Mutant: the recovery discards the transaction.
FirstWriteForgetful(q, s) ==
  CASE q.op = "complete_report" -> "journaling"
    [] q.op = "recover" -> "unlinking"
    [] q.op \notin {"complete_report", "recover"} -> "writing"

\* What an accepted call does first.
FirstWrite(q, s) ==
  CASE q.op = "complete_report" -> "journaling"
    [] q.op = "recover" -> IF s.status = "DONE" THEN "indexing" ELSE "unlinking"
    [] q.op \notin {"complete_report", "recover"} -> "writing"

\* Read under the lock, compare the revision, apply the guards.
Check(p) ==
  /\ pc[p] = "checking"
  /\ Accepts(call[p], task)
  /\ Goto(p, "checking", FirstWrite(call[p], task))
  /\ snap' = [snap EXCEPT ![p] = [task |-> task, index |-> index]]
  /\ UNCHANGED <<vars, files, lock, call, crashes>>

Refuse(p) ==
  /\ Goto(p, "checking", "releasing")
  /\ ~Accepts(call[p], task)
  /\ UNCHANGED <<vars, files, lock, call, snap, crashes>>

\* Mutant: complete_report writes no transaction file.
JournalSkipped(p) ==
  /\ Goto(p, "journaling", "writing")
  /\ UNCHANGED <<vars, files, lock, call, snap, crashes>>

\* complete_report leaves its intent before it touches STATE.md.
Journal(p) ==
  /\ Goto(p, "journaling", "writing")
  /\ txn' = "report"
  /\ UNCHANGED <<vars, index, lock, call, snap, crashes>>

\* os.replace of STATE.md: the text read under the lock, with the new values.
Write(p) ==
  LET q == call[p]
  IN /\ pc[p] = "writing"
     /\ Goto(p, "writing",
             IF q.op \in {"complete_report", "replace_agent"}
             THEN "indexing" ELSE "releasing")
     /\ task' = Outcome(q, snap[p].task)
     /\ turn' = IF q.op = "claim"
                THEN [turn EXCEPT ![q.run] = [role |-> RoleOf(snap[p].task.status),
                                              who  |-> q.who,
                                              from |-> snap[p].task.status]]
                ELSE turn
     /\ handoffs' = IF q.op = "complete_stage" /\ q.run # None
                    THEN [handoffs EXCEPT ![q.run] = @ + 1] ELSE handoffs
     /\ failed' = IF q.op = "finish_run" /\ ResultOf(q, snap[p].task) # "completed"
                  THEN failed \cup {q.run} ELSE failed
     /\ UNCHANGED <<files, lock, call, snap, crashes>>

\* PROJECT_STATUS.md: _complete_project_index reads it afresh; replace_agent
\* refreshes the task's row in the text it read at the start.
WriteIndex(p) ==
  /\ pc[p] = "indexing"
  /\ index' = IF call[p].op = "replace_agent" THEN snap[p].index ELSE "completed"
  /\ Goto(p, "indexing",
          IF call[p].op = "replace_agent" THEN "releasing" ELSE "unlinking")
  /\ UNCHANGED <<vars, txn, lock, call, snap, crashes>>

UnlinkTransaction(p) ==
  /\ Goto(p, "unlinking", "releasing")
  /\ txn' = "empty"
  /\ UNCHANGED <<vars, index, lock, call, snap, crashes>>

\* finally: path.unlink(), whoever created the file.
Release(p) ==
  /\ Goto(p, "releasing", "idle")
  /\ lock' = [lock EXCEPT ![LockOf(call[p])] = Free]
  /\ call' = [call EXCEPT ![p] = None]
  /\ snap' = [snap EXCEPT ![p] = None]
  /\ UNCHANGED <<vars, files, crashes>>

---------------------------------------------------------------------------
(* Crashes, and workflow_state.py release-stale-lock.                      *)

Crash(p) ==
  /\ crashes < MaxCrashes
  /\ pc[p] \in Inside
  /\ lock' = [lock EXCEPT ![LockOf(call[p])] = Stale]
  /\ pc' = [pc EXCEPT ![p] = "idle"]
  /\ call' = [call EXCEPT ![p] = None]
  /\ snap' = [snap EXCEPT ![p] = None]
  /\ crashes' = crashes + 1
  /\ UNCHANGED <<vars, files>>

\* The user authorizes the release after confirming that the process is gone.
ReleaseStaleLock ==
  /\ lock[HelperLock] = Stale
  /\ lock' = [lock EXCEPT ![HelperLock] = Free]
  /\ UNCHANGED <<vars, files, process, crashes>>

---------------------------------------------------------------------------

Step(p) ==
  \/ Acquire(p) \/ LockExists(p) \/ Check(p) \/ Refuse(p) \/ Journal(p)
  \/ Write(p) \/ WriteIndex(p) \/ UnlinkTransaction(p) \/ Release(p)

StoreNext ==
  \/ \E p \in Callers : Call(p) \/ Step(p) \/ Crash(p)
  \/ ReleaseStaleLock

StoreSpec == StoreInit /\ [][StoreNext]_storeVars

---------------------------------------------------------------------------
(* Fairness.  A process that does not die finishes its call; the Runner's  *)
(* tick starts with the recovery again and again and does not find the     *)
(* lock held at every one of its attempts, forty-five seconds apart; the   *)
(* user releases a stale lock the helper shows.                            *)

CallRecover(p) ==
  lock[StoreLock] = Free /\ Call(p) /\ call'[p].op = "recover"
AcquireForRecovery(p) == call[p] # None /\ call[p].op = "recover" /\ Acquire(p)

Fairness ==
  /\ \A p \in Callers : WF_storeVars(Step(p))
  /\ \A p \in Runners : /\ SF_storeVars(CallRecover(p))
                        /\ SF_storeVars(AcquireForRecovery(p))
  /\ WF_storeVars(ReleaseStaleLock)

FairStoreSpec == StoreSpec /\ Fairness

---------------------------------------------------------------------------
(* Properties.                                                             *)

StoreTypeOK ==
  /\ TypeOK
  /\ index \in {"active", "completed"}
  /\ txn \in {"no_dir", "empty", "report"}
  /\ lock \in [LockFiles -> Callers \cup {Free, Stale}]
  /\ pc \in [Callers -> Locations]
  /\ call \in [Callers -> Requests \cup {None}]
  /\ snap \in [Callers -> [task : TaskRecords, index : {"active", "completed"}]
                            \cup {None}]
  /\ crashes \in 0 .. MaxCrashes

\* A process inside holds its lock file: nobody's release, crash or stale-lock
\* removal takes it away (finally: path.unlink() does not check whose it is).
InsideHoldsLock ==
  \A p \in Callers : pc[p] \in Inside => lock[LockOf(call[p])] = p

\* What a process is about to write was computed from the files as they are: no
\* update of another process is lost (_write_state, update_project_cache).
NoLostUpdate ==
  \A p \in Callers :
    /\ pc[p] \in {"journaling", "writing"} => snap[p].task = task
    /\ pc[p] \in {"writing", "indexing"} /\ call[p].op = "replace_agent"
         => snap[p].index = index

\* A task closed in STATE.md and still listed as active has a report transaction
\* that says so, whatever died when (complete_report, recover_pending_transactions).
ClosedIsIndexedOrJournaled ==
  task.status = "DONE" /\ index = "active" => txn = "report"

\* The project index never runs ahead of the task (_complete_project_index).
IndexedIsClosed == index = "completed" => task.status = "DONE"

\* An operation accepted under the lock acts on the very record its caller decided
\* on, the reporting phase aside (the revision compare-and-set).
ActsOnWhatWasSeen ==
  \A p \in Callers :
    pc[p] = "writing" /\ call[p].op \notin {"finish_run", "abandon_launch"} =>
      snap[p].task = [call[p].seen EXCEPT !.phase = snap[p].task.phase]

\* Every step of the store is an operation of RelayTask, or none (the store as a
\* whole against its promise).
ImplementsRelayTask == Spec

\* A crash between STATE.md and PROJECT_STATUS.md is repaired: a closed task gets
\* its completed entry (recover_pending_transactions, called by every tick).
ClosedGetsIndexed == task.status = "DONE" ~> index = "completed"

---------------------------------------------------------------------------
(* What the proofs need besides.  But for the first part they are about a  *)
(* checkout, where every caller locks the same file.                       *)

LockTyping ==
  /\ lock \in [LockFiles -> Callers \cup {Free, Stale}]
  /\ pc \in [Callers -> Locations]
  /\ call = [p \in Callers |-> call[p]]

\* What a request asks for, by operation, given the record its caller read.
WellFormed(q) ==
  /\ q.op = "complete_stage" =>
       /\ q.rule # None
       /\ q.rule.role = "planner" => q.who \in Planners /\ q.run = None
       /\ q.rule.role # "planner" =>
            /\ q.run # None /\ turn[q.run] # None
            /\ turn[q.run].role = q.rule.role /\ turn[q.run].who = q.who
  /\ q.op = "complete_report" => q.who \in Planners
  /\ q.op = "replace_agent" => q.arg \in Roles /\ q.who \in Participants
  /\ q.op = "claim" =>
       /\ q.run # None /\ q.who = q.seen.participant
       /\ q.seen.status \in {"IMPLEMENTING", "REVIEWING"}
  /\ q.op \in {"finish_run", "abandon_launch"} => q.run # None
  /\ q.op = "abandon_launch" => q.arg = None
  /\ q.op = "finish_run" => q.arg \in Endings
  /\ q.op = "prepare_wake" =>
       /\ q.arg \in Conversations
       /\ q.who = q.seen.participant /\ q.who \in Planners /\ ~RunActive(q.seen)
  /\ q.op = "set_phase" =>
       /\ q.arg \in {"submitted", "active"}
       /\ q.seen.status = "REPORTING" /\ ~RunActive(q.seen) /\ q.seen.wakeKey # None

\* What a caller read is the record of some earlier revision, and the record of
\* this one, the phase aside, when the revision is the same.
Past(q) ==
  /\ q \in Requests /\ WellFormed(q)
  /\ q.seen.revision <= task.revision
  /\ q.seen.revision = task.revision =>
       /\ task = [q.seen EXCEPT !.phase = task.phase]
       /\ q.op = "claim" => turn[q.run] = None

SeenIsPast == \A p \in Callers : pc[p] # "idle" => Past(call[p])

\* Under the lock the files stay as the process read them until it writes them.
FilesStay(p) ==
  /\ pc[p] \in {"journaling", "writing"} =>
       snap[p].task = task /\ Accepts(call[p], task) /\ call[p].op # "recover"
  /\ pc[p] = "journaling" => call[p].op = "complete_report"
  /\ pc[p] = "writing" /\ call[p].op = "complete_report" => txn = "report"
  /\ pc[p] \in {"writing", "indexing"} /\ call[p].op = "replace_agent"
       => snap[p].index = index
  /\ pc[p] = "indexing" /\ call[p].op # "replace_agent" => task.status = "DONE"
  /\ pc[p] = "unlinking" => index = "completed" \/ task.status # "DONE"

UnderTheLock == \A p \in Callers : FilesStay(p)

SuspendedIsOpen == task.suspended \notin Terminal

StoreInvariant ==
  /\ StoreTypeOK /\ RelayInvariant /\ SuspendedIsOpen
  /\ InsideHoldsLock /\ SeenIsPast /\ UnderTheLock
  /\ ClosedIsIndexedOrJournaled /\ IndexedIsClosed

=============================================================================
