------------------------------- MODULE Reporting -------------------------------
(***************************************************************************)
(* ReportingCoordinator.tick: the Runner wakes the registered Planner      *)
(* conversation, so that it reports a reviewed task.  A tick is a sequence *)
(* of steps over three files, the task record, the wake journal and the    *)
(* Planner channel, and of calls to the Planner's tool, which runs the     *)
(* turn.  A submitted turn lives outside the relay: it outlives the tick   *)
(* and the Runner, and it reports whenever it likes.  The record moves by  *)
(* the operations of RelayTask, each a single step.                        *)
(*                                                                         *)
(* The tick reads the record and then the channel; the model reads both at *)
(* once.  A replacement in between shows as a channel of another Planner,  *)
(* which the tick refuses, as it refuses a half-done replacement.          *)
(***************************************************************************)
EXTENDS RelayTask, Sequences

CONSTANTS
  Coordinators,            \* Runner processes that serve the project
  ToolOf,                  \* Planner -> "codex" or "cli", see below
  ModelRetryLimit,         \* policy.model_retry_limit
  PresentationRetryLimit,  \* policy.presentation_retry_limit
  Faults,                  \* what may go wrong
  MaxFaults                \* bound: how often

\* "codex" starts a turn and asks after it later; the other tools, "cli", run
\* the turn to its end inside submit_report.
Tools == {"codex", "cli"}

FaultKinds ==
  {"abort",    \* the Runner dies in a tick, or a step of it raises
   "refuse",   \* the tool does not take the submission
   "lost",     \* the tool takes it and its answer is lost
   "ui",       \* the window cannot be opened
   "lag",      \* a turn shows in its conversation only later
   "helper"}   \* replace-agent dies before it rebinds the channel

ASSUME ReportingAssumption ==
  /\ ToolOf \in [Planners -> Tools]
  /\ ModelRetryLimit \in Nat /\ PresentationRetryLimit \in Nat \ {0}
  /\ Faults \subseteq FaultKinds /\ MaxFaults \in Nat

Channels == [who : Planners, tool : Tools, conv : Conversations]
EventStatuses == {"submitting", "submitted", "model_failed", "model_completed",
                  "presented", "presentation_failed"}
Events == [key : WakeKeys, status : EventStatuses, attempt : Nat, turn : Nat]
TurnStates == {"hidden", "running", "completed", "failed"}
RemoteTurns == [state : TurnStates, key : WakeKeys, who : Planners, conv : Conversations]
\* The places of a tick, in the order it may come to them.
Places == {"idle", "reading", "preparing", "prepared", "submitting", "calling",
           "waiting", "called", "checking", "phasing", "reconciling", "rephasing",
           "observing", "activating", "settling", "presenting"}
Ticks == [at : Places, seen : Nat, chan : Channels \cup {None},
          key : WakeKeys \cup {None}, attempt : Nat, turn : Nat]

ASSUME NoEventAssumption == None \notin Events /\ None \notin Phases

VARIABLES
  channel,    \* planner-channel.json
  rebinding,  \* the channel replace-agent has yet to save, or None
  journal,    \* wake-events.jsonl
  remote,     \* the turns the tools have started, in their order
  coord,      \* coordinator -> where its tick is, and what it holds
  faults

outside == <<channel, rebinding>>
reportingVars == <<vars, outside, journal, remote, coord, faults>>

ChannelOf(p, conv) == [who |-> p, tool |-> ToolOf[p], conv |-> conv]

\* seen: the revision the next compare-and-set names; chan: the channel loaded.
Idle == [at |-> "idle", seen |-> 0, chan |-> None, key |-> None,
         attempt |-> 0, turn |-> 0]

ReportingTypeOK ==
  /\ TypeOK
  /\ channel \in Channels
  /\ rebinding \in Channels \cup {None}
  /\ journal \in Seq(Events)
  /\ remote \in Seq(RemoteTurns)
  /\ coord \in [Coordinators -> Ticks]
  /\ faults \in 0..MaxFaults

ReportingInit ==
  /\ Init
  /\ \E conv \in Conversations : channel = ChannelOf(task.assignments["planner"], conv)
  /\ rebinding = None
  /\ journal = <<>>
  /\ remote = <<>>
  /\ coord = [c \in Coordinators |-> Idle]
  /\ faults = 0

\* The bound for the user, with room for a wake and a report.
Open == task.revision + 2 < MaxRevision

Fault(kind) == kind \in Faults /\ faults < MaxFaults /\ faults' = faults + 1

At(c, place) == coord[c].at = place
Move(c, place) == coord' = [coord EXCEPT ![c].at = place]
EndTick(c) == coord' = [coord EXCEPT ![c] = Idle]

---------------------------------------------------------------------------
(* The wake journal.                                                       *)

LastOf(places) == CHOOSE i \in places : \A j \in places : j <= i

EventsOf(key) == {i \in DOMAIN journal : journal[i].key = key}

Latest(key) ==
  IF EventsOf(key) = {} THEN None ELSE journal[LastOf(EventsOf(key))]

\* Of the statuses find_submission looks for, only "submitted" is ever written.
Submissions(key) == {i \in EventsOf(key) : journal[i].status = "submitted"}

FindSubmission(key) ==
  IF Submissions(key) = {} THEN None ELSE journal[LastOf(Submissions(key))]

Record(c, status, attempt, t) ==
  journal' = Append(journal, [key |-> coord[c].key, status |-> status,
                              attempt |-> attempt, turn |-> t])

\* What is left to do for a wake whose last event is latest.
Do(place, attempt, t) == [at |-> place, attempt |-> attempt, turn |-> t]

Submit(attempt) == Do("submitting", attempt, 0)

\* Mutant: the limit is compared with the attempt to come.
RetryOnceMore(attempt) ==
  IF attempt > ModelRetryLimit + 1 THEN Do("idle", 0, 0) ELSE Submit(attempt + 1)

Retry(attempt) ==
  IF attempt > ModelRetryLimit THEN Do("idle", 0, 0) ELSE Submit(attempt + 1)

\* Mutant: a submission without a receipt is made again.
WhatNextBlind(latest) ==
  IF latest = None \/ latest.status = "submitting" THEN Submit(1)
  ELSE CASE latest.status = "model_failed" -> Retry(latest.attempt)
         [] OTHER -> Do("observing", latest.attempt, latest.turn)

WhatNext(latest) ==
  IF latest = None THEN Submit(1)
  ELSE CASE latest.status = "submitting" -> Do("reconciling", latest.attempt, 0)
         [] latest.status = "model_failed" -> Retry(latest.attempt)
         [] OTHER -> LET submitted == FindSubmission(latest.key)
                     IN Do("observing", submitted.attempt, submitted.turn)

---------------------------------------------------------------------------
(* The tick up to the journal.                                             *)

\* Supervisor.tick finds the task in the index, REPORTING and without a run.
Notice(c) ==
  /\ At(c, "idle")
  /\ task.status = "REPORTING" /\ ~RunActive(task)
  /\ Move(c, "reading")
  /\ UNCHANGED <<vars, outside, journal, remote, faults>>

\* What _tick_done still has to present, or None.
Unpresented(key) ==
  LET latest == Latest(key)
  IN IF key = None \/ latest = None THEN None
     ELSE CASE latest.status = "presented" -> None
            [] latest.status = "presentation_failed" ->
                 IF latest.attempt >= PresentationRetryLimit THEN None
                 ELSE latest.attempt + 1
            [] OTHER -> IF FindSubmission(key) = None THEN None ELSE 1

Accountable ==
  /\ task.role = "planner"
  /\ task.review # 0 /\ task.delivery # 0
  /\ channel.who = task.participant

ReadTask(c) ==
  /\ At(c, "reading")
  /\ \/ /\ task.status = "REPORTING" /\ Accountable
        /\ coord' = [coord EXCEPT ![c] = [Idle EXCEPT !.at = "preparing",
                                                      !.seen = task.revision,
                                                      !.chan = channel]]
     \/ /\ task.status = "DONE" /\ Accountable
        /\ LET attempt == Unpresented(task.wakeKey)
           IN coord' = [coord EXCEPT ![c] =
                IF attempt = None THEN Idle
                ELSE [Idle EXCEPT !.at = "presenting", !.chan = channel,
                                  !.key = task.wakeKey, !.attempt = attempt]]
     \/ /\ task.status \notin {"REPORTING", "DONE"} \/ ~Accountable
        /\ EndTick(c)
  /\ UNCHANGED <<vars, outside, journal, remote, faults>>

Prepare(c) ==
  LET chan == coord[c].chan
  IN /\ At(c, "preparing")
     /\ Bounded
     /\ task.revision = coord[c].seen
     /\ CanPrepareWake(task, chan.who)
     /\ task' = AfterPrepareWake(task, chan.who, chan.conv)
     /\ coord' = [coord EXCEPT ![c].at = "prepared",
                               ![c].seen = task'.revision,
                               ![c].key = task'.wakeKey]
     /\ UNCHANGED <<turn, history, outside, journal, remote, faults>>

\* RevisionConflict: somebody moved the record.
PrepareRefused(c) ==
  /\ At(c, "preparing")
  /\ task.revision # coord[c].seen
  /\ EndTick(c)
  /\ UNCHANGED <<vars, outside, journal, remote, faults>>

ReadJournal(c) ==
  LET next == WhatNext(Latest(coord[c].key))
  IN /\ At(c, "prepared")
     /\ coord' = [coord EXCEPT ![c] =
          IF next.at = "idle" THEN Idle
          ELSE [@ EXCEPT !.at = next.at, !.attempt = next.attempt, !.turn = next.turn]]
     /\ UNCHANGED <<vars, outside, journal, remote, faults>>

---------------------------------------------------------------------------
(* Submission: _submit and what follows it.                                *)

Announce(c) ==
  /\ At(c, "submitting")
  /\ Record(c, "submitting", coord[c].attempt, 0)
  /\ Move(c, "calling")
  /\ UNCHANGED <<vars, outside, remote, faults>>

NewTurn(c, state) ==
  remote' = Append(remote, [state |-> state, key |-> coord[c].key,
                            who |-> coord[c].chan.who, conv |-> coord[c].chan.conv])

\* The tool starts a turn in the Planner's conversation: Codex answers at once,
\* the others when the turn is over.
StartTurn(c) ==
  /\ At(c, "calling")
  /\ NewTurn(c, "running")
  /\ coord' = [coord EXCEPT
       ![c].at = IF coord[c].chan.tool = "codex" THEN "called" ELSE "waiting",
       ![c].turn = Len(remote) + 1]
  /\ UNCHANGED <<vars, outside, journal, faults>>

StartLateTurn(c) ==
  /\ At(c, "calling")
  /\ coord[c].chan.tool = "codex"
  /\ Fault("lag")
  /\ NewTurn(c, "hidden")
  /\ coord' = [coord EXCEPT ![c].at = "called", ![c].turn = Len(remote) + 1]
  /\ UNCHANGED <<vars, outside, journal>>

SubmitRefused(c) ==
  /\ At(c, "calling")
  /\ Fault("refuse")
  /\ EndTick(c)
  /\ UNCHANGED <<vars, outside, journal, remote>>

\* The call raises although the turn runs: a broken connection, a timeout, an
\* answer that cannot be read.
AnswerLost(c) ==
  /\ At(c, "waiting") \/ At(c, "called")
  /\ Fault("lost")
  /\ EndTick(c)
  /\ UNCHANGED <<vars, outside, journal, remote>>

TurnReturns(c) ==
  /\ At(c, "waiting")
  /\ \/ remote[coord[c].turn].state = "completed" /\ Move(c, "called")
     \/ remote[coord[c].turn].state = "failed" /\ EndTick(c)
  /\ UNCHANGED <<vars, outside, journal, remote, faults>>

\* After a first submission the record is looked at again, after a retry not.
RecordReceipt(c) ==
  /\ At(c, "called")
  /\ Record(c, "submitted", coord[c].attempt, coord[c].turn)
  /\ Move(c, IF coord[c].attempt = 1 THEN "checking" ELSE "phasing")
  /\ UNCHANGED <<vars, outside, remote, faults>>

CheckDone(c) ==
  /\ At(c, "checking")
  /\ coord' = [coord EXCEPT
       ![c].at = IF task.status = "DONE" THEN "presenting" ELSE "phasing",
       ![c].attempt = 1]
  /\ UNCHANGED <<vars, outside, journal, remote, faults>>

\* Mutant: the phase is written whatever became of the record.
MaySetPhaseAnyway(c) == coord[c].key # None

MaySetPhase(c) ==
  task.revision = coord[c].seen /\ CanSetPhase(task, coord[c].key)

\* set_reporting_phase; a conflict raises and ends the tick.
SetPhase(c, place, phase, next) ==
  /\ At(c, place)
  /\ IF MaySetPhase(c)
     THEN /\ task' = AfterSetPhase(task, phase)
          /\ IF next = "idle" THEN EndTick(c) ELSE Move(c, next)
     ELSE UNCHANGED task /\ EndTick(c)
  /\ UNCHANGED <<turn, history, outside, journal, remote, faults>>

PhaseSubmitted(c) == SetPhase(c, "phasing", "submitted", "idle")
PhaseReconciled(c) == SetPhase(c, "rephasing", "submitted", "observing")
PhaseActive(c) == SetPhase(c, "activating", "active", "idle")

---------------------------------------------------------------------------
(* Reconciliation, observation and presentation.                           *)

\* The turns of the registered conversation that mention the key.  Only Codex
\* can be asked.
TurnsFound(c) ==
  {t \in DOMAIN remote :
     /\ coord[c].chan.tool = "codex"
     /\ remote[t].state # "hidden"
     /\ remote[t].conv = coord[c].chan.conv
     /\ remote[t].key = coord[c].key}

\* Mutant: no tool can be asked.
ReconcileNever(c) ==
  /\ At(c, "reconciling")
  /\ EndTick(c)
  /\ UNCHANGED <<vars, outside, journal, remote, faults>>

\* Mutant: the turn is found and the receipt not recorded.
ReconcileUnrecorded(c) ==
  /\ At(c, "reconciling")
  /\ IF TurnsFound(c) = {}
     THEN EndTick(c)
     ELSE coord' = [coord EXCEPT ![c].at = "rephasing", ![c].turn = LastOf(TurnsFound(c))]
  /\ UNCHANGED <<vars, outside, journal, remote, faults>>

\* The youngest of them is taken for the turn of the submission, whichever
\* attempt it was started for.  Without one the tick ends: "ambiguous".
Reconcile(c) ==
  /\ At(c, "reconciling")
  /\ IF TurnsFound(c) = {}
     THEN EndTick(c) /\ UNCHANGED journal
     ELSE LET t == LastOf(TurnsFound(c))
          IN /\ Record(c, "submitted", coord[c].attempt, t)
             /\ coord' = [coord EXCEPT ![c].at = "rephasing", ![c].turn = t]
  /\ UNCHANGED <<vars, outside, remote, faults>>

\* What observe answers.  The other tools are done when they answer; Codex is
\* asked for the turn in the conversation registered now.
Observed(c) ==
  LET t == remote[coord[c].turn]
  IN IF coord[c].chan.tool # "codex" THEN "completed"
     ELSE IF t.conv # coord[c].chan.conv \/ t.state = "hidden" THEN "submitted"
     ELSE IF t.state = "running" THEN "active"
     ELSE t.state

Observe(c) ==
  /\ At(c, "observing")
  /\ \/ /\ Observed(c) = "completed"
        /\ Move(c, "settling")
        /\ UNCHANGED journal
     \/ /\ Observed(c) = "failed"
        /\ Record(c, "model_failed", coord[c].attempt, coord[c].turn)
        /\ EndTick(c)
     \/ /\ Observed(c) = "active"
        /\ Move(c, "activating")
        /\ UNCHANGED journal
     \/ /\ Observed(c) = "submitted"
        /\ EndTick(c)
        /\ UNCHANGED journal
  /\ UNCHANGED <<vars, outside, remote, faults>>

\* Mutant: a finished turn is taken for a finished report.
SettleTrusting(c) ==
  /\ At(c, "settling")
  /\ Record(c, "model_completed", coord[c].attempt, coord[c].turn)
  /\ coord' = [coord EXCEPT ![c].at = "presenting", ![c].attempt = 1]
  /\ UNCHANGED <<vars, outside, remote, faults>>

\* A finished turn is not a finished report: the record decides.
Settle(c) ==
  /\ At(c, "settling")
  /\ IF task.status = "DONE"
     THEN /\ Record(c, "model_completed", coord[c].attempt, coord[c].turn)
          /\ coord' = [coord EXCEPT ![c].at = "presenting", ![c].attempt = 1]
     ELSE /\ Record(c, "model_failed", coord[c].attempt, coord[c].turn)
          /\ EndTick(c)
  /\ UNCHANGED <<vars, outside, remote, faults>>

Present(c) ==
  /\ At(c, "presenting")
  /\ Record(c, "presented", coord[c].attempt, 0)
  /\ EndTick(c)
  /\ UNCHANGED <<vars, outside, remote, faults>>

PresentFails(c) ==
  /\ At(c, "presenting")
  /\ Fault("ui")
  /\ Record(c, "presentation_failed", coord[c].attempt, 0)
  /\ EndTick(c)
  /\ UNCHANGED <<vars, outside, remote>>

TickAborts(c) ==
  /\ ~At(c, "idle")
  /\ Fault("abort")
  /\ EndTick(c)
  /\ UNCHANGED <<vars, outside, journal, remote>>

---------------------------------------------------------------------------
(* The turns, the foreground Planner and the user.                         *)

Live(t) == remote[t].state \in {"hidden", "running"}

\* The turn runs report-done with the key of its prompt.
TurnReports(t) ==
  /\ Bounded
  /\ Live(t)
  /\ CanCompleteReport(task, remote[t].who, remote[t].key, task.delivery, task.review)
  /\ task' = AfterCompleteReport(task)
  /\ UNCHANGED <<turn, history, outside, journal, remote, coord, faults>>

TurnEnds(t) ==
  /\ Live(t)
  /\ \E state \in {"completed", "failed"} :
       remote' = [remote EXCEPT ![t].state = state]
  /\ UNCHANGED <<vars, outside, journal, coord, faults>>

TurnAppears(t) ==
  /\ remote[t].state = "hidden"
  /\ remote' = [remote EXCEPT ![t].state = "running"]
  /\ UNCHANGED <<vars, outside, journal, coord, faults>>

\* The person in front of the conversation has the Planner report.
ForegroundReports ==
  /\ \E p \in Planners : ReportDone(p)
  /\ UNCHANGED <<outside, journal, remote, coord, faults>>

UserActs ==
  /\ Open
  /\ WaitUser \/ Answer \/ Cancel
  /\ UNCHANGED <<outside, journal, remote, coord, faults>>

\* replace-agent of the Planner: the record first, the channel last.
ReplacePlanner(to, conv) ==
  /\ Open
  /\ rebinding = None
  /\ ReplaceAgent("planner", to)
  /\ rebinding' = ChannelOf(to, conv)
  /\ UNCHANGED <<channel, journal, remote, coord, faults>>

RebindChannel ==
  /\ rebinding # None
  /\ channel' = rebinding
  /\ rebinding' = None
  /\ UNCHANGED <<vars, journal, remote, coord, faults>>

HelperDies ==
  /\ rebinding # None
  /\ Fault("helper")
  /\ rebinding' = None
  /\ UNCHANGED <<vars, channel, journal, remote, coord>>

---------------------------------------------------------------------------

TickStep(c) ==
  \/ Notice(c) \/ ReadTask(c) \/ Prepare(c) \/ PrepareRefused(c) \/ ReadJournal(c)
  \/ Announce(c) \/ StartTurn(c) \/ TurnReturns(c) \/ RecordReceipt(c) \/ CheckDone(c)
  \/ PhaseSubmitted(c) \/ PhaseReconciled(c) \/ PhaseActive(c)
  \/ Reconcile(c) \/ Observe(c) \/ Settle(c) \/ Present(c)

TickFault(c) ==
  StartLateTurn(c) \/ SubmitRefused(c) \/ AnswerLost(c) \/ PresentFails(c) \/ TickAborts(c)

ReportingNext ==
  \/ \E c \in Coordinators : TickStep(c) \/ TickFault(c)
  \/ \E t \in DOMAIN remote : TurnReports(t) \/ TurnEnds(t) \/ TurnAppears(t)
  \/ ForegroundReports
  \/ UserActs
  \/ \E to \in Planners, conv \in Conversations : ReplacePlanner(to, conv)
  \/ RebindChannel
  \/ HelperDies

ReportingSpec == ReportingInit /\ [][ReportingNext]_reportingVars

\* The service ticks for ever, a turn ends some time and shows before it does,
\* and replace-agent, unless it dies, finishes.
FairReportingSpec ==
  /\ ReportingSpec
  /\ \A c \in Coordinators : WF_reportingVars(TickStep(c))
  /\ \A t \in 1..(ModelRetryLimit + 1) :
       WF_reportingVars(t \in DOMAIN remote /\ TurnEnds(t))
  /\ WF_reportingVars(RebindChannel)

---------------------------------------------------------------------------
(* Properties.                                                             *)

\* The coordinator, with every race and retry, moves the record only by steps
\* of RelayTask: what is proved of those holds here (reporting.py).
ImplementsRelayTask == Spec

\* The turns under way that could still report.
Reporters ==
  {t \in DOMAIN remote : /\ Live(t)
                         /\ remote[t].key = task.wakeKey
                         /\ remote[t].who = task.participant}

\* The journal says that the turn has failed.
WrittenOff(t) ==
  \E i \in DOMAIN journal : journal[i].status = "model_failed" /\ journal[i].turn = t

\* Neither a retry nor the recovery of an unanswered submission wakes the Planner a
\* second time while the first turn lives and nobody has called it failed, over
\* crashes, lost answers and replacements (_submit, reconcile, observe).  A living
\* turn is called failed where the adapter of another tool is asked after it: a
\* Planner replaced by one on such a tool and replaced back is woken beside it.
OneLiveTurn ==
  \A s, t \in Reporters : s # t => WrittenOff(s) \/ WrittenOff(t)

\* Where all Planners use one tool no living turn is called failed.
OneReporter == \A s, t \in Reporters : s = t

\* A wake costs at most one turn and the retries of the policy, however often
\* the Runner restarts (wake_store.py, model_retry_limit).
AttemptsWithinLimit ==
  \A key \in {remote[t].key : t \in DOMAIN remote} :
    Cardinality({t \in DOMAIN remote : remote[t].key = key}) <= ModelRetryLimit + 1

\* Until the report is done every turn ever started carries the key the record
\* holds, so that a turn from before a crash can still report
\* (prepare_reporting_wake keeps a key it finds).
TurnsCarryTheKey ==
  task.status \notin Terminal => \A t \in DOMAIN remote : remote[t].key = task.wakeKey

\* The phase that protects the Planner from replacement is never ahead of the
\* journal: submitted and active wakes have a receipt (set_reporting_phase after
\* the append).
PhaseHasReceipt ==
  task.phase \in {"submitted", "active"} => FindSubmission(task.wakeKey) # None

\* The journal calls a wake completed or presented only when the record is DONE,
\* whatever the tool says of its turn (tick, _present).
CompletedIsDone ==
  \A i \in DOMAIN journal :
    journal[i].status \in {"model_completed", "presented", "presentation_failed"}
      => task.status = "DONE"

\* No wake is forgotten.  In the end the task is not reporting any more, or the
\* retries are used up, or the submission cannot be resolved from the
\* conversation, or the channel was rebound under the wake, be it for a while: the
\* turn is in another conversation then, where Codex does not look for it.
Exhausted ==
  LET latest == Latest(task.wakeKey)
  IN latest # None /\ latest.status = "model_failed" /\ latest.attempt > ModelRetryLimit

Unresolvable ==
  LET latest == Latest(task.wakeKey)
  IN /\ latest # None /\ latest.status = "submitting"
     /\ \/ channel.tool # "codex"
        \/ \A t \in DOMAIN remote : remote[t].conv # channel.conv

Rebound ==
  \/ channel.who # task.participant
  \/ /\ task.wakeKey # None
     /\ <<task.wakeKey.who, task.wakeKey.conv>> # <<channel.who, channel.conv>>

OutOfReach ==
  LET submitted == FindSubmission(task.wakeKey)
  IN /\ submitted # None /\ channel.tool = "codex"
     /\ remote[submitted.turn].conv # channel.conv

WakeGetsSettled ==
  <>[](task.status # "REPORTING" \/ Exhausted \/ Unresolvable \/ Rebound \/ OutOfReach)

---------------------------------------------------------------------------
(* What the proofs need besides.                                           *)

\* The places of a tick that has prepared the wake, and those it comes to with
\* a receipt in the journal.
Woken == Places \ {"idle", "reading", "preparing", "presenting"}
Receipted == {"checking", "phasing", "rephasing", "observing", "activating",
              "settling", "presenting"}

\* What a tick knows of the record it left a while ago.
Knows(c) ==
  /\ coord[c].at = "preparing" => coord[c].chan \in Channels
  /\ coord[c].at \in Woken =>
       /\ coord[c].chan \in Channels
       /\ coord[c].key \in WakeKeys
       /\ coord[c].seen <= task.revision
       /\ task.revision = coord[c].seen => task.status = "REPORTING"
       /\ task.status \notin Terminal => task.wakeKey = coord[c].key
  /\ coord[c].at \in Receipted =>
       coord[c].key \in WakeKeys /\ Submissions(coord[c].key) # {}
  /\ coord[c].at = "presenting" => task.status = "DONE"

\* Whatever the journal says of a wake comes after its receipt.
ReceiptComesFirst ==
  \A i \in DOMAIN journal :
    \/ journal[i].status = "submitting"
    \/ Submissions(journal[i].key) # {}

\* The inductive invariant of the service.
ServiceInvariant ==
  /\ ReportingTypeOK
  /\ ~RunActive(task)
  /\ \A c \in Coordinators : Knows(c)
  /\ ReceiptComesFirst
  /\ TurnsCarryTheKey /\ PhaseHasReceipt /\ CompletedIsDone

\* With one Runner the last event says how many attempts were announced, and no
\* turn starts without one.
Unsettled ==
  \A i \in DOMAIN journal :
    journal[i].status \notin {"model_completed", "presented", "presentation_failed"}
Spent == IF journal = <<>> THEN 0 ELSE journal[Len(journal)].attempt

CountsAttempts(c) ==
  /\ coord[c].at \in Woken =>
       Unsettled /\ \A i \in DOMAIN journal : journal[i].key = coord[c].key
  /\ coord[c].at \in Woken \ {"prepared", "submitting"} => coord[c].attempt = Spent
  /\ coord[c].at = "submitting" =>
       coord[c].attempt = Spent + 1 /\ coord[c].attempt <= ModelRetryLimit + 1
  /\ coord[c].at = "calling" => Len(remote) < Spent
  /\ coord[c].at = "checking" => coord[c].attempt = 1

AttemptsInvariant ==
  /\ ServiceInvariant
  /\ task.status \notin Terminal => \A i \in DOMAIN journal : journal[i].key = task.wakeKey
  /\ Unsettled => Len(remote) <= Spent /\ Spent <= ModelRetryLimit + 1
  /\ Len(remote) <= ModelRetryLimit + 1
  /\ \A c \in Coordinators : CountsAttempts(c)

\* With at most one retry a second attempt means that the first turn was called
\* failed; if all Planners use one tool it is over then.
SameTool == \A p, q \in Planners : ToolOf[p] = ToolOf[q]
IsOver(t) == SameTool => ~Live(t)
FailedOnce == \E i \in DOMAIN journal : journal[i].status = "model_failed"

\* What a receipt says: the turn is there, and over unless it is one of Codex.
IsReceipted(t) ==
  t \in DOMAIN remote /\ (ToolOf[remote[t].who] = "cli" => IsOver(t))

\* What a tick knows of its turn.
KnowsTurn(c) ==
  /\ coord[c].at \in Woken \cup {"preparing"} =>
       coord[c].chan.tool = ToolOf[coord[c].chan.who]
  /\ coord[c].at \in {"waiting", "called"} =>
       coord[c].turn \in DOMAIN remote
  /\ coord[c].at \in {"called", "rephasing", "observing", "activating", "settling"} =>
       IsReceipted(coord[c].turn)
  /\ coord[c].at = "settling" => IsOver(coord[c].turn)
  /\ coord[c].at = "submitting" /\ coord[c].attempt > 1 => FailedOnce

OneTurnInvariant ==
  /\ AttemptsInvariant
  /\ channel.tool = ToolOf[channel.who]
  /\ rebinding # None => rebinding.tool = ToolOf[rebinding.who]
  /\ \A i \in DOMAIN journal : journal[i].status = "submitted" => IsReceipted(journal[i].turn)
  /\ \A c \in Coordinators : KnowsTurn(c)
  /\ (Unsettled /\ Spent > 1) \/ Len(remote) > 1 => FailedOnce
  /\ FailedOnce => remote # <<>> /\ WrittenOff(1) /\ IsOver(1)

=============================================================================
