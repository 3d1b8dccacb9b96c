---------------------------- MODULE ReportingProofs ----------------------------
(***************************************************************************)
(* Theorems of Reporting, for every set of participants and conversations  *)
(* and all faults: what holds for any number of Runners, tools and         *)
(* retries, and then what needs one Runner, one tool or one retry.         *)
(***************************************************************************)
EXTENDS Reporting, RelayTaskProofs, SequenceTheorems, WellFoundedInduction

---------------------------------------------------------------------------
(* The last of some places in a journal.                                   *)

\* A nonempty set of places in a sequence has a last one.
LEMMA LastOfPlaces ==
  ASSUME NEW n \in Nat, NEW places \in SUBSET (1..n), places # {}
  PROVE  LastOf(places) \in places
<1>. DEFINE fromEnd == {n - i : i \in places}
<1>1. fromEnd \subseteq Nat /\ fromEnd # {}
  <2>1. PICK i \in places : TRUE
    OBVIOUS
  <2>2. n - i \in fromEnd
    OBVIOUS
  <2>3. \A j \in places : n - j \in Nat
    OBVIOUS
  <2>. QED
    BY <2>2, <2>3
<1>2. PICK x \in fromEnd : \A y \in fromEnd : ~ (<<y, x>> \in OpToRel(<, Nat))
  BY <1>1, NatLessThanWellFounded, WFMin
<1>3. PICK i \in places : x = n - i
  OBVIOUS
<1>4. \A j \in places : j <= i
  <2>. SUFFICES ASSUME NEW j \in places PROVE j <= i
    OBVIOUS
  <2>1. n - j \in fromEnd /\ n - j \in Nat /\ n - i \in Nat
    OBVIOUS
  <2>2. ~ (n - j < n - i)
    BY <2>1, <1>2, <1>3 DEF OpToRel
  <2>. QED
    BY <2>2
<1>. QED
  BY <1>4 DEF LastOf

---------------------------------------------------------------------------
(* The wake journal.                                                       *)

\* find_submission finds an event of the wake, and a receipt, if there is one.
LEMMA FoundSubmission ==
  ASSUME journal \in Seq(Events), NEW key
  PROVE  /\ FindSubmission(key) = None <=> Submissions(key) = {}
         /\ FindSubmission(key) # None => FindSubmission(key) \in Events
<1>1. Submissions(key) \in SUBSET (1..Len(journal)) /\ Len(journal) \in Nat
  BY DEF Submissions, EventsOf
<1>2. CASE Submissions(key) = {}
  BY <1>2 DEF FindSubmission
<1>3. CASE Submissions(key) # {}
  <2>1. LastOf(Submissions(key)) \in 1..Len(journal)
    BY <1>1, <1>3, LastOfPlaces
  <2>2. FindSubmission(key) \in Events
    BY <1>3, <2>1, ElementOfSeq DEF FindSubmission
  <2>. QED
    BY <1>3, <2>2, NoEventAssumption
<1>. QED
  BY <1>2, <1>3

\* latest finds an event of the wake, if there is one.
LEMMA FoundLatest ==
  ASSUME journal \in Seq(Events), NEW key, Latest(key) # None
  PROVE  /\ Latest(key) \in Events
         /\ \E i \in DOMAIN journal : journal[i].key = key /\ Latest(key) = journal[i]
<1>1. EventsOf(key) \in SUBSET (1..Len(journal)) /\ Len(journal) \in Nat
  BY DEF EventsOf
<1>2. EventsOf(key) # {}
  BY DEF Latest
<1>3. LastOf(EventsOf(key)) \in EventsOf(key)
  BY <1>1, <1>2, LastOfPlaces
<1>4. Latest(key) = journal[LastOf(EventsOf(key))]
  BY <1>2 DEF Latest
<1>5. Latest(key) \in Events
  BY <1>1, <1>3, <1>4, ElementOfSeq
<1>. QED
  BY <1>3, <1>4, <1>5 DEF EventsOf

\* An event appended to the journal leaves the events before it.
LEMMA AppendedEvent ==
  ASSUME journal \in Seq(Events), NEW e \in Events, journal' = Append(journal, e)
  PROVE  /\ journal' \in Seq(Events)
         /\ DOMAIN journal \subseteq DOMAIN journal'
         /\ \A i \in DOMAIN journal : journal'[i] = journal[i]
         /\ \A i \in DOMAIN journal' : i \in DOMAIN journal \/ journal'[i] = e
         /\ \E i \in DOMAIN journal' : journal'[i] = e
<1>1. /\ journal' \in Seq(Events) /\ Len(journal') = Len(journal) + 1
      /\ \A i \in 1..Len(journal) : journal'[i] = journal[i]
      /\ journal'[Len(journal) + 1] = e
  BY AppendProperties
<1>2. /\ DOMAIN journal = 1..Len(journal) /\ Len(journal) \in Nat
      /\ DOMAIN journal' = 1..(Len(journal) + 1)
  BY <1>1
<1>. QED
  BY <1>1, <1>2

\* The journal forgets nothing: what was found is found again.
JournalGrows ==
  /\ DOMAIN journal \subseteq DOMAIN journal'
  /\ \A i \in DOMAIN journal : journal'[i] = journal[i]

\* Receipts stay.
LEMMA ReceiptsStay ==
  ASSUME JournalGrows, NEW key
  PROVE  Submissions(key) \subseteq Submissions(key)'
BY DEF JournalGrows, Submissions, EventsOf

---------------------------------------------------------------------------
(* Every step of the service is a step of RelayTask, or changes nothing    *)
(* that RelayTask speaks of.                                               *)

\* What the invariant says of the tick of one Runner.
LEMMA TickTyping ==
  ASSUME ReportingTypeOK, NEW c \in Coordinators
  PROVE  /\ coord[c] \in Ticks
         /\ coord[c].at \in Places
         /\ coord[c].seen \in Nat
         /\ coord[c].chan \in Channels \cup {None}
         /\ coord[c].key \in WakeKeys \cup {None}
         /\ coord[c].attempt \in Nat
         /\ coord[c].turn \in Nat
BY DEF ReportingTypeOK, Ticks

\* prepare_reporting_wake, from the channel the tick has loaded.
LEMMA PrepareIsPrepareWake ==
  ASSUME ServiceInvariant, NEW c \in Coordinators, Prepare(c)
  PROVE  \E conv \in Conversations : PrepareWake(conv)
<1>1. coord[c].chan \in Channels
  BY DEF ServiceInvariant, Knows, Prepare, At
<1>2. coord[c].chan.who \in Planners /\ coord[c].chan.conv \in Conversations
  BY <1>1 DEF Channels
<1>3. coord[c].chan.who = task.participant
  BY DEF Prepare, CanPrepareWake
<1>4. PrepareWake(coord[c].chan.conv)
  BY <1>2, <1>3 DEF Prepare, PrepareWake, ServiceInvariant
<1>. QED
  BY <1>2, <1>4

\* set_reporting_phase, on the revision the tick has prepared.
LEMMA PhaseIsSetReportingPhase ==
  ASSUME ServiceInvariant, NEW c \in Coordinators,
         NEW place \in {"phasing", "rephasing", "activating"},
         NEW phase \in {"submitted", "active"}, NEW next,
         SetPhase(c, place, phase, next)
  PROVE  SetReportingPhase \/ UNCHANGED vars
<1>1. CASE MaySetPhase(c)
  <2>1. coord[c].at = place /\ place \in Woken
    BY DEF SetPhase, At, Woken, Places
  <2>2. /\ coord[c].key \in WakeKeys
        /\ task.status = "REPORTING"
    BY <1>1, <2>1 DEF ServiceInvariant, Knows, MaySetPhase
  <2>3. task.wakeKey = coord[c].key /\ coord[c].key # None
    BY <1>1, <2>2, NoneAssumption DEF MaySetPhase, CanSetPhase
  <2>4. /\ task' = AfterSetPhase(task, phase)
        /\ UNCHANGED <<turn, history>>
    BY <1>1 DEF SetPhase
  <2>. QED
    BY <2>2, <2>3, <2>4 DEF SetReportingPhase, ServiceInvariant, CanSetPhase
<1>2. CASE ~MaySetPhase(c)
  BY <1>2 DEF SetPhase, vars, history
<1>. QED
  BY <1>1, <1>2

\* report-done of a turn is the Planner's whose conversation it runs in.
LEMMA TurnReportsIsReportDone ==
  ASSUME ServiceInvariant, NEW t \in DOMAIN remote, TurnReports(t)
  PROVE  \E p \in Planners : ReportDone(p)
<1>1. remote[t] \in RemoteTurns
  BY ElementOfSeq DEF ServiceInvariant, ReportingTypeOK
<1>2. remote[t].who \in Planners /\ remote[t].key = task.wakeKey
  BY <1>1 DEF RemoteTurns, TurnReports, CanCompleteReport
<1>3. ReportDone(remote[t].who)
  BY <1>2 DEF TurnReports, ReportDone
<1>. QED
  BY <1>2, <1>3

\* Every step of the service is a step of RelayTask or leaves its variables alone.
LEMMA ReportingStep ==
  ServiceInvariant /\ [ReportingNext]_reportingVars => [Next]_vars
<1>. SUFFICES ASSUME ServiceInvariant, [ReportingNext]_reportingVars PROVE [Next]_vars
  OBVIOUS
<1>1. ASSUME NEW c \in Coordinators, TickStep(c) PROVE [Next]_vars
  <2>1. CASE Prepare(c)
    BY <2>1, PrepareIsPrepareWake DEF Next
  <2>2. CASE PhaseSubmitted(c)
    BY <2>2, PhaseIsSetReportingPhase DEF Next, PhaseSubmitted
  <2>3. CASE PhaseReconciled(c)
    BY <2>3, PhaseIsSetReportingPhase DEF Next, PhaseReconciled
  <2>4. CASE PhaseActive(c)
    BY <2>4, PhaseIsSetReportingPhase DEF Next, PhaseActive
  <2>5. CASE ~ (Prepare(c) \/ PhaseSubmitted(c) \/ PhaseReconciled(c) \/ PhaseActive(c))
    BY <1>1, <2>5 DEF TickStep, Notice, ReadTask, PrepareRefused, ReadJournal,
       Announce, StartTurn, TurnReturns, RecordReceipt, CheckDone, Reconcile,
       Observe, Settle, Present
  <2>. QED
    BY <2>1, <2>2, <2>3, <2>4, <2>5
<1>2. ASSUME NEW c \in Coordinators, TickFault(c) PROVE UNCHANGED vars
  BY <1>2 DEF TickFault, StartLateTurn, SubmitRefused, AnswerLost, PresentFails,
     TickAborts
<1>3. ASSUME NEW t \in DOMAIN remote, TurnReports(t) \/ TurnEnds(t) \/ TurnAppears(t)
      PROVE  [Next]_vars
  BY <1>3, TurnReportsIsReportDone DEF Next, TurnEnds, TurnAppears
<1>4. CASE ForegroundReports
  BY <1>4 DEF ForegroundReports, Next
<1>5. CASE UserActs
  BY <1>5 DEF UserActs, Next
<1>6. ASSUME NEW to \in Planners, NEW conv \in Conversations, ReplacePlanner(to, conv)
      PROVE  [Next]_vars
  BY <1>6 DEF ReplacePlanner, Next, Roles, Participants
<1>7. CASE RebindChannel \/ HelperDies
  BY <1>7 DEF RebindChannel, HelperDies
<1>8. CASE UNCHANGED reportingVars
  BY <1>8 DEF reportingVars
<1>. QED
  BY <1>1, <1>2, <1>3, <1>4, <1>5, <1>6, <1>7, <1>8 DEF ReportingNext

---------------------------------------------------------------------------
(* What the steps of RelayTask leave to a tick that knows an old record.   *)

\* The status changes with the revision only, and the revision never goes back.
LEMMA StatusMovesRevision ==
  ASSUME TypeOK, [Next]_vars
  PROVE  /\ task.revision \in Nat /\ task'.revision \in Nat
         /\ task.revision <= task'.revision
         /\ task'.revision = task.revision => task'.status = task.status
<1>1. task \in TaskRecords /\ task' \in TaskRecords
  BY StepTyping DEF TypeOK
<1>2. task.revision \in Nat /\ task'.revision \in Nat
  BY <1>1, FieldTyping
<1>3. task' = [task EXCEPT !.phase = task'.phase] => task'.status = task.status
  BY <1>1 DEF TaskRecords
<1>. QED
  BY <1>2, <1>3, RevisionStep

\* The wake key and the phase come with the wake and go with the report.
LEMMA WakeKeyStep ==
  ASSUME TypeOK, [Next]_vars
  PROVE  \/ task'.wakeKey = task.wakeKey /\ task'.phase = task.phase
         \/ task.wakeKey = None /\ task'.phase = "pending"
         \/ task'.status = "DONE" /\ task'.phase = "completed"
         \/ SetReportingPhase /\ task'.wakeKey = task.wakeKey
<1>. DEFINE Goal == \/ task'.wakeKey = task.wakeKey /\ task'.phase = task.phase
                    \/ task.wakeKey = None /\ task'.phase = "pending"
                    \/ task'.status = "DONE" /\ task'.phase = "completed"
                    \/ SetReportingPhase /\ task'.wakeKey = task.wakeKey
<1>. task \in TaskRecords
  BY DEF TypeOK
<1>. USE DEF TaskRecords
<1>1. ASSUME NEW p \in Planners, PlanDone(p) PROVE Goal
  BY <1>1 DEF PlanDone, AfterCompleteStage
<1>2. ASSUME NEW p \in Planners, ReportDone(p) PROVE Goal
  BY <1>2 DEF ReportDone, AfterCompleteReport
<1>3. ASSUME NEW r \in Runs, NEW e \in RoleEvents, Handover(r, e) PROVE Goal
  BY <1>3 DEF Handover, AfterCompleteStage
<1>4. ASSUME NEW r \in Runs, AgentWaitUser(r) PROVE Goal
  BY <1>4 DEF AgentWaitUser, AfterWaitUser
<1>5. ASSUME NEW r \in Runs, Claim(r) PROVE Goal
  BY <1>5 DEF Claim, AfterClaim
<1>6. ASSUME NEW r \in Runs, FinishRun(r) PROVE Goal
  BY <1>6 DEF FinishRun, EndRun, AfterFinishRun
<1>7. ASSUME NEW r \in Runs, AbandonLaunch(r) PROVE Goal
  BY <1>7 DEF AbandonLaunch, AfterFinishRun
<1>8. ASSUME NEW conv \in Conversations, PrepareWake(conv) PROVE Goal
  BY <1>8 DEF PrepareWake, AfterPrepareWake
<1>9. ASSUME SetReportingPhase PROVE Goal
  BY <1>9 DEF SetReportingPhase, AfterSetPhase
<1>10. ASSUME WaitUser PROVE Goal
  BY <1>10 DEF WaitUser, AfterWaitUser
<1>11. ASSUME Answer PROVE Goal
  BY <1>11 DEF Answer, AfterAnswer
<1>12. ASSUME Cancel PROVE Goal
  BY <1>12 DEF Cancel, AfterCancel
<1>13. ASSUME NEW role \in Roles, NEW to \in Participants, ReplaceAgent(role, to)
       PROVE  Goal
  BY <1>13 DEF ReplaceAgent, AfterReplace
<1>14. CASE UNCHANGED vars
  BY <1>14 DEF vars
<1>. QED
  BY <1>1, <1>2, <1>3, <1>4, <1>5, <1>6, <1>7, <1>8, <1>9, <1>10, <1>11,
     <1>12, <1>13, <1>14 DEF Next, ImplementationDone, Verdict

\* An open task keeps the wake key it has.
LEMMA OpenTaskKeepsKey ==
  ASSUME TypeOK, [Next]_vars, task.wakeKey # None, task'.status \notin Terminal
  PROVE  task.status \notin Terminal /\ task'.wakeKey = task.wakeKey
BY WakeKeyStep, TerminalStep DEF Terminal

\* Nothing the service does leases the task to a run.
LEMMA StepNoRun ==
  ServiceInvariant /\ [ReportingNext]_reportingVars => ~RunActive(task)'
<1>. SUFFICES ASSUME ServiceInvariant, [ReportingNext]_reportingVars
             PROVE  ~RunActive(task')
  BY DEF RunActive
<1>. /\ task \in TaskRecords
     /\ ~RunActive(task)
  BY DEF ServiceInvariant, ReportingTypeOK, TypeOK
<1>. USE DEF TaskRecords, RunActive
<1>1. ASSUME NEW c \in Coordinators, TickStep(c) PROVE ~RunActive(task')
  <2>1. CASE Prepare(c)
    BY <2>1 DEF Prepare, AfterPrepareWake
  <2>2. CASE PhaseSubmitted(c)
    BY <2>2 DEF PhaseSubmitted, SetPhase, AfterSetPhase
  <2>3. CASE PhaseReconciled(c)
    BY <2>3 DEF PhaseReconciled, SetPhase, AfterSetPhase
  <2>4. CASE PhaseActive(c)
    BY <2>4 DEF PhaseActive, SetPhase, AfterSetPhase
  <2>5. CASE ~ (Prepare(c) \/ PhaseSubmitted(c) \/ PhaseReconciled(c) \/ PhaseActive(c))
    BY <1>1, <2>5 DEF TickStep, Notice, ReadTask, PrepareRefused, ReadJournal,
       Announce, StartTurn, TurnReturns, RecordReceipt, CheckDone, Reconcile,
       Observe, Settle, Present, vars
  <2>. QED
    BY <2>1, <2>2, <2>3, <2>4, <2>5
<1>2. ASSUME NEW c \in Coordinators, TickFault(c) PROVE ~RunActive(task')
  BY <1>2 DEF TickFault, StartLateTurn, SubmitRefused, AnswerLost, PresentFails,
     TickAborts, vars
<1>3. ASSUME NEW t \in DOMAIN remote, TurnReports(t) \/ TurnEnds(t) \/ TurnAppears(t)
      PROVE  ~RunActive(task')
  BY <1>3 DEF TurnReports, TurnEnds, TurnAppears, AfterCompleteReport, vars
<1>4. CASE ForegroundReports
  BY <1>4 DEF ForegroundReports, ReportDone, AfterCompleteReport
<1>5. CASE UserActs
  BY <1>5 DEF UserActs, WaitUser, AfterWaitUser, Answer, AfterAnswer, Cancel, AfterCancel
<1>6. ASSUME NEW to \in Planners, NEW conv \in Conversations, ReplacePlanner(to, conv)
      PROVE  ~RunActive(task')
  BY <1>6 DEF ReplacePlanner, ReplaceAgent, AfterReplace
<1>7. CASE RebindChannel \/ HelperDies
  BY <1>7 DEF RebindChannel, HelperDies, vars
<1>8. CASE UNCHANGED reportingVars
  BY <1>8 DEF reportingVars, vars
<1>. QED
  BY <1>1, <1>2, <1>3, <1>4, <1>5, <1>6, <1>7, <1>8 DEF ReportingNext

---------------------------------------------------------------------------
(* The journal from one step to the next.                                  *)

\* What may be written next: a submission, a receipt, or something about a wake
\* that has a receipt; and of a finished wake, when the task is DONE.
Writable(e) ==
  /\ e \in Events
  /\ \/ e.status \in {"submitting", "submitted"}
     \/ Submissions(e.key) # {}
  /\ e.status \in {"model_completed", "presented", "presentation_failed"}
       => task.status = "DONE"
  /\ task.status \notin Terminal => e.key = task.wakeKey

\* A tick writes what it may.
LEMMA RecordedEvent ==
  ASSUME ServiceInvariant, NEW c \in Coordinators,
         NEW status \in EventStatuses, NEW attempt \in Nat, NEW t \in Nat,
         coord[c].at \in Woken \cup {"presenting"}, coord[c].key \in WakeKeys,
         status \in {"submitting", "submitted"} \/ Submissions(coord[c].key) # {},
         status \in {"model_completed", "presented", "presentation_failed"}
           => task.status = "DONE",
         Record(c, status, attempt, t)
  PROVE  \E e : /\ Writable(e) /\ journal' = Append(journal, e)
                /\ e.key = coord[c].key /\ e.status = status
<1>. DEFINE e == [key |-> coord[c].key, status |-> status, attempt |-> attempt, turn |-> t]
<1>1. e \in Events
  BY DEF Events
<1>2. journal' = Append(journal, e)
  BY DEF Record
<1>3. task.status \notin Terminal => coord[c].key = task.wakeKey
  BY DEF ServiceInvariant, Knows, Terminal
<1>4. Writable(e)
  BY <1>1, <1>3 DEF Writable
<1>. QED
  BY <1>2, <1>4

\* What a tick knows at the places where it writes.
LEMMA KnownReceipt ==
  ASSUME ServiceInvariant, NEW c \in Coordinators
  PROVE  /\ coord[c].at \in Woken \cup {"presenting"} => coord[c].key \in WakeKeys
         /\ coord[c].at \in Receipted => Submissions(coord[c].key) # {}
         /\ coord[c].at = "presenting" => task.status = "DONE"
         /\ coord[c].attempt \in Nat /\ coord[c].turn \in Nat
BY TickTyping DEF ServiceInvariant, Knows, Receipted

\* The turn that reconcile takes is one of those the tools have started.
LEMMA FoundTurn ==
  ASSUME ReportingTypeOK, NEW c \in Coordinators, TurnsFound(c) # {}
  PROVE  LastOf(TurnsFound(c)) \in TurnsFound(c) /\ LastOf(TurnsFound(c)) \in Nat
<1>1. TurnsFound(c) \in SUBSET (1..Len(remote)) /\ Len(remote) \in Nat
  BY DEF TurnsFound, ReportingTypeOK
<1>2. LastOf(TurnsFound(c)) \in TurnsFound(c)
  BY <1>1, LastOfPlaces
<1>. QED
  BY <1>1, <1>2

\* Every step leaves the journal alone or appends an event it may write.
LEMMA StepJournal ==
  ASSUME ServiceInvariant, [ReportingNext]_reportingVars
  PROVE  \/ journal' = journal
         \/ \E e : Writable(e) /\ journal' = Append(journal, e)
<1>. DEFINE Goal == \/ journal' = journal
                    \/ \E e : Writable(e) /\ journal' = Append(journal, e)
<1>1. ASSUME NEW c \in Coordinators, TickStep(c) PROVE Goal
  <2>1. CASE Announce(c)
    <3>1. Record(c, "submitting", coord[c].attempt, 0) /\ coord[c].at \in Woken
      BY <2>1 DEF Announce, At, Woken, Places
    <3>. QED
      BY <3>1, KnownReceipt, RecordedEvent DEF EventStatuses
  <2>2. CASE RecordReceipt(c)
    <3>1. /\ Record(c, "submitted", coord[c].attempt, coord[c].turn)
          /\ coord[c].at \in Woken
      BY <2>2 DEF RecordReceipt, At, Woken, Places
    <3>. QED
      BY <3>1, KnownReceipt, RecordedEvent DEF EventStatuses
  <2>3. CASE Reconcile(c)
    <3>1. coord[c].at \in Woken
      BY <2>3 DEF Reconcile, At, Woken, Places
    <3>2. CASE TurnsFound(c) = {}
      BY <2>3, <3>2 DEF Reconcile
    <3>3. CASE TurnsFound(c) # {}
      <4>1. Record(c, "submitted", coord[c].attempt, LastOf(TurnsFound(c)))
        BY <2>3, <3>3 DEF Reconcile
      <4>. QED
        BY <3>1, <3>3, <4>1, FoundTurn, KnownReceipt, RecordedEvent
           DEF EventStatuses, ServiceInvariant
    <3>. QED
      BY <3>2, <3>3
  <2>4. CASE Observe(c)
    <3>1. coord[c].at \in Woken /\ coord[c].at \in Receipted
      BY <2>4 DEF Observe, At, Woken, Places, Receipted
    <3>2. \/ UNCHANGED journal
          \/ Record(c, "model_failed", coord[c].attempt, coord[c].turn)
      BY <2>4 DEF Observe
    <3>. QED
      BY <3>1, <3>2, KnownReceipt, RecordedEvent DEF EventStatuses
  <2>5. CASE Settle(c)
    <3>1. coord[c].at \in Woken /\ coord[c].at \in Receipted
      BY <2>5 DEF Settle, At, Woken, Places, Receipted
    <3>2. \/ /\ task.status = "DONE"
             /\ Record(c, "model_completed", coord[c].attempt, coord[c].turn)
          \/ Record(c, "model_failed", coord[c].attempt, coord[c].turn)
      BY <2>5 DEF Settle
    <3>. QED
      BY <3>1, <3>2, KnownReceipt, RecordedEvent DEF EventStatuses
  <2>6. CASE Present(c)
    <3>1. coord[c].at = "presenting" /\ coord[c].at \in Receipted
      BY <2>6 DEF Present, At, Receipted
    <3>2. Record(c, "presented", coord[c].attempt, 0)
      BY <2>6 DEF Present
    <3>. QED
      BY <3>1, <3>2, KnownReceipt, RecordedEvent DEF EventStatuses
  <2>7. CASE ~ (Announce(c) \/ RecordReceipt(c) \/ Reconcile(c) \/ Observe(c)
                \/ Settle(c) \/ Present(c))
    BY <1>1, <2>7 DEF TickStep, Notice, ReadTask, Prepare, PrepareRefused, ReadJournal,
       StartTurn, TurnReturns, CheckDone, PhaseSubmitted, PhaseReconciled, PhaseActive,
       SetPhase
  <2>. QED
    BY <2>1, <2>2, <2>3, <2>4, <2>5, <2>6, <2>7
<1>2. ASSUME NEW c \in Coordinators, TickFault(c) PROVE Goal
  <2>1. CASE PresentFails(c)
    <3>1. coord[c].at = "presenting" /\ coord[c].at \in Receipted
      BY <2>1 DEF PresentFails, At, Receipted
    <3>2. Record(c, "presentation_failed", coord[c].attempt, 0)
      BY <2>1 DEF PresentFails
    <3>. QED
      BY <3>1, <3>2, KnownReceipt, RecordedEvent DEF EventStatuses
  <2>2. CASE ~ PresentFails(c)
    BY <1>2, <2>2 DEF TickFault, StartLateTurn, SubmitRefused, AnswerLost, TickAborts
  <2>. QED
    BY <2>1, <2>2
<1>3. ASSUME NEW t \in DOMAIN remote, TurnReports(t) \/ TurnEnds(t) \/ TurnAppears(t)
      PROVE  Goal
  BY <1>3 DEF TurnReports, TurnEnds, TurnAppears
<1>4. CASE ForegroundReports \/ UserActs \/ RebindChannel \/ HelperDies
  BY <1>4 DEF ForegroundReports, UserActs, RebindChannel, HelperDies
<1>5. ASSUME NEW to \in Planners, NEW conv \in Conversations, ReplacePlanner(to, conv)
      PROVE  Goal
  BY <1>5 DEF ReplacePlanner
<1>6. CASE UNCHANGED reportingVars
  BY <1>6 DEF reportingVars
<1>. QED
  BY <1>1, <1>2, <1>3, <1>4, <1>5, <1>6 DEF ReportingNext

\* The journal keeps its type and forgets nothing.
LEMMA StepJournalTyping ==
  ASSUME ServiceInvariant, [ReportingNext]_reportingVars
  PROVE  journal' \in Seq(Events) /\ JournalGrows
<1>1. journal \in Seq(Events)
  BY DEF ServiceInvariant, ReportingTypeOK
<1>2. CASE journal' = journal
  BY <1>1, <1>2 DEF JournalGrows
<1>3. ASSUME NEW e, Writable(e), journal' = Append(journal, e)
      PROVE  journal' \in Seq(Events) /\ JournalGrows
  BY <1>1, <1>3, AppendedEvent DEF Writable, JournalGrows
<1>. QED
  BY <1>2, <1>3, StepJournal

\* Whatever is appended about a wake comes after its receipt.
LEMMA StepReceipts ==
  ServiceInvariant /\ [ReportingNext]_reportingVars => ReceiptComesFirst'
<1>. SUFFICES ASSUME ServiceInvariant, [ReportingNext]_reportingVars,
                     NEW i \in DOMAIN journal', journal'[i].status # "submitting",
                     NEW key, key = journal'[i].key
             PROVE  Submissions(key)' # {}
  BY DEF ReceiptComesFirst, Submissions, EventsOf
<1>1. JournalGrows /\ journal \in Seq(Events)
  BY StepJournalTyping DEF ServiceInvariant, ReportingTypeOK
<1>2. CASE Submissions(key) # {}
  BY <1>1, <1>2, ReceiptsStay
<1>3. CASE i \in DOMAIN journal /\ journal'[i] = journal[i]
  BY <1>2, <1>3 DEF ServiceInvariant, ReceiptComesFirst
<1>4. ASSUME NEW e, Writable(e), journal'[i] = e
      PROVE  Submissions(key)' # {}
  <2>1. CASE e.status = "submitted"
    BY <1>4, <2>1 DEF Submissions, EventsOf
  <2>. QED
    BY <1>2, <1>4, <2>1 DEF Writable
<1>. QED
  BY <1>1, <1>3, <1>4, StepJournal, AppendedEvent DEF Writable, JournalGrows

\* What is appended as completed or presented is so of a DONE task, and DONE stays.
LEMMA StepCompleted ==
  ServiceInvariant /\ [ReportingNext]_reportingVars => CompletedIsDone'
<1>. SUFFICES ASSUME ServiceInvariant, [ReportingNext]_reportingVars,
                     NEW i \in DOMAIN journal',
                     journal'[i].status
                       \in {"model_completed", "presented", "presentation_failed"}
             PROVE  task'.status = "DONE"
  BY DEF CompletedIsDone
<1>1. task.status = "DONE" => task'.status = "DONE"
  BY ReportingStep, TerminalStep DEF ServiceInvariant, ReportingTypeOK, Terminal
<1>2. CASE i \in DOMAIN journal /\ journal'[i] = journal[i]
  BY <1>1, <1>2 DEF ServiceInvariant, CompletedIsDone
<1>3. ASSUME NEW e, Writable(e), journal'[i] = e
      PROVE  task'.status = "DONE"
  BY <1>1, <1>3 DEF Writable
<1>4. journal \in Seq(Events)
  BY DEF ServiceInvariant, ReportingTypeOK
<1>. QED
  BY <1>2, <1>3, <1>4, StepJournal, AppendedEvent DEF Writable

---------------------------------------------------------------------------
(* What a tick knows, from one step to the next.                           *)

\* What was found in the journal and what is known of the record stays so.
LEMMA KnowledgeLasts ==
  ASSUME ServiceInvariant, [ReportingNext]_reportingVars, NEW key \in WakeKeys
  PROVE  /\ Submissions(key) # {} => Submissions(key)' # {}
         /\ task.status = "DONE" => task'.status = "DONE"
         /\ task.status \notin Terminal /\ task.wakeKey = key /\ task'.status \notin Terminal
              => task'.wakeKey = key
         /\ task'.status \notin Terminal => task.status \notin Terminal
         /\ task.revision \in Nat /\ task'.revision \in Nat
         /\ task.revision <= task'.revision
         /\ task'.revision = task.revision => task'.status = task.status
<1>1. TypeOK /\ [Next]_vars
  BY ReportingStep DEF ServiceInvariant, ReportingTypeOK
<1>2. JournalGrows
  BY StepJournalTyping
<1>3. key # None
  BY NoneAssumption
<1>. QED
  BY <1>1, <1>2, <1>3, ReceiptsStay, TerminalStep, OpenTaskKeepsKey, StatusMovesRevision
     DEF Terminal

\* A tick that goes on with what it holds, or that does not move.
LEMMA KnowsOn ==
  ASSUME ServiceInvariant, [ReportingNext]_reportingVars, NEW c \in Coordinators,
         coord[c].at \in Woken, coord'[c].at \in Woken,
         coord'[c].chan = coord[c].chan, coord'[c].key = coord[c].key,
         coord'[c].seen = coord[c].seen,
         coord'[c].at \in Receipted =>
           coord[c].at \in Receipted \/ \A key : key = coord[c].key => Submissions(key)' # {}
  PROVE  Knows(c)'
<1>. DEFINE key == coord[c].key
            seen == coord[c].seen
<1>1. /\ coord[c].chan \in Channels /\ key \in WakeKeys
      /\ seen \in Nat /\ seen <= task.revision
      /\ task.revision = seen => task.status = "REPORTING"
      /\ task.status \notin Terminal => task.wakeKey = key
      /\ coord[c].at \in Receipted => Submissions(key) # {}
  BY TickTyping DEF ServiceInvariant, Knows
<1>2. coord'[c].at \notin {"preparing", "presenting"}
  BY DEF Woken
<1>3. ASSUME NEW k, k = coord[c].key, coord'[c].at \in Receipted
      PROVE  Submissions(k)' # {}
  BY <1>1, <1>3, KnowledgeLasts
<1>4. seen <= task'.revision
  BY <1>1, KnowledgeLasts
<1>5. task'.revision = seen => task'.status = "REPORTING"
  BY <1>1, KnowledgeLasts
<1>6. task'.status \notin Terminal => task'.wakeKey = key
  BY <1>1, KnowledgeLasts
<1>7. coord'[c].at \in Receipted => Submissions(coord[c].key)' # {}
  BY <1>3 DEF Submissions, EventsOf
<1>. QED
  BY <1>1, <1>2, <1>4, <1>5, <1>6, <1>7 DEF Knows, Submissions, EventsOf

\* A tick at its end or its beginning knows nothing.
LEMMA KnowsNothing ==
  ASSUME NEW c \in Coordinators, coord'[c].at \in {"idle", "reading"}
  PROVE  Knows(c)'
BY DEF Knows, Woken, Receipted

\* A tick that presents has a receipt and has seen DONE.
LEMMA KnowsDone ==
  ASSUME ServiceInvariant, [ReportingNext]_reportingVars, NEW c \in Coordinators,
         NEW key \in WakeKeys, Submissions(key) # {}, task.status = "DONE",
         coord'[c].at = "presenting", coord'[c].key = key
  PROVE  Knows(c)'
<1>1. Submissions(key)' # {} /\ task'.status = "DONE"
  BY KnowledgeLasts
<1>. QED
  BY <1>1 DEF Knows, Woken, Submissions, EventsOf

\* A tick that does not move keeps what it knows.
LEMMA KnowsStill ==
  ASSUME ServiceInvariant, [ReportingNext]_reportingVars, NEW c \in Coordinators,
         coord'[c] = coord[c]
  PROVE  Knows(c)'
<1>1. CASE coord[c].at \in Woken
  BY <1>1, KnowsOn
<1>2. CASE coord[c].at = "presenting"
  <2>1. coord[c].key \in WakeKeys /\ Submissions(coord[c].key) # {} /\ task.status = "DONE"
    BY <1>2 DEF ServiceInvariant, Knows, Receipted
  <2>. QED
    BY <1>2, <2>1, KnowsDone
<1>3. CASE coord[c].at = "preparing"
  BY <1>3 DEF ServiceInvariant, Knows, Woken, Receipted
<1>4. CASE coord[c].at \in {"idle", "reading"}
  BY <1>4, KnowsNothing
<1>. QED
  BY <1>1, <1>2, <1>3, <1>4, TickTyping DEF Woken, ServiceInvariant

---------------------------------------------------------------------------
(* Each step of a tick leaves it well typed and knowing what it relies on. *)

Moves(c) ==
  /\ coord' = [coord EXCEPT ![c] = coord'[c]]
  /\ coord'[c] \in Ticks
  /\ Knows(c)'

\* A tick that ends.
LEMMA EndMoves ==
  ASSUME ServiceInvariant, NEW c \in Coordinators, EndTick(c)
  PROVE  Moves(c)
<1>1. coord' = [coord EXCEPT ![c] = Idle] /\ coord'[c] = Idle
  BY DEF EndTick, ServiceInvariant, ReportingTypeOK
<1>2. Idle \in Ticks /\ Idle.at = "idle"
  BY DEF Idle, Ticks, Places
<1>. QED
  BY <1>1, <1>2, KnowsNothing DEF Moves

\* Two ticks hold the same channel, key and revision.
SameHold(r, q) == r.chan = q.chan /\ r.key = q.key /\ r.seen = q.seen

\* Writing a place, an attempt or a turn leaves the rest of what a tick holds.
LEMMA TickUpdate ==
  ASSUME NEW r \in Ticks
  PROVE  /\ \A x \in Places : /\ [r EXCEPT !.at = x] \in Ticks
                              /\ [r EXCEPT !.at = x].at = x
                              /\ SameHold([r EXCEPT !.at = x], r)
         /\ \A x \in Nat : /\ [r EXCEPT !.attempt = x] \in Ticks
                           /\ [r EXCEPT !.attempt = x].at = r.at
                           /\ SameHold([r EXCEPT !.attempt = x], r)
         /\ \A x \in Nat : /\ [r EXCEPT !.turn = x] \in Ticks
                           /\ [r EXCEPT !.turn = x].at = r.at
                           /\ SameHold([r EXCEPT !.turn = x], r)
<1>1. \A x \in Places : /\ [r EXCEPT !.at = x] \in Ticks
                        /\ [r EXCEPT !.at = x].at = x
                        /\ SameHold([r EXCEPT !.at = x], r)
  BY DEF Ticks, SameHold
<1>2. \A x \in Nat : /\ [r EXCEPT !.attempt = x] \in Ticks
                     /\ [r EXCEPT !.attempt = x].at = r.at
                     /\ SameHold([r EXCEPT !.attempt = x], r)
  BY DEF Ticks, SameHold
<1>3. \A x \in Nat : /\ [r EXCEPT !.turn = x] \in Ticks
                     /\ [r EXCEPT !.turn = x].at = r.at
                     /\ SameHold([r EXCEPT !.turn = x], r)
  BY DEF Ticks, SameHold
<1>. QED
  BY <1>1, <1>2, <1>3

\* A tick that goes to a next place and holds what it held.
LEMMA HoldMoves ==
  ASSUME ServiceInvariant, [ReportingNext]_reportingVars, NEW c \in Coordinators,
         NEW r \in Ticks, coord' = [coord EXCEPT ![c] = r],
         SameHold(r, coord[c]), coord[c].at \in Woken, r.at \in Woken,
         r.at \in Receipted =>
           coord[c].at \in Receipted \/ \A key : key = coord[c].key => Submissions(key)' # {}
  PROVE  Moves(c)
<1>1. coord'[c] = r /\ coord' = [coord EXCEPT ![c] = coord'[c]]
  BY DEF ServiceInvariant, ReportingTypeOK
<1>. QED
  BY <1>1, KnowsOn DEF Moves, SameHold

\* The same, for Move.
LEMMA MoveMoves ==
  ASSUME ServiceInvariant, [ReportingNext]_reportingVars, NEW c \in Coordinators,
         NEW place \in Woken, coord[c].at \in Woken, Move(c, place),
         place \in Receipted =>
           coord[c].at \in Receipted \/ \A key : key = coord[c].key => Submissions(key)' # {}
  PROVE  Moves(c)
<1>. DEFINE r == [coord[c] EXCEPT !.at = place]
<1>1. coord[c] \in Ticks /\ place \in Places
  BY TickTyping DEF ServiceInvariant, Woken
<1>2. r \in Ticks /\ r.at = place /\ SameHold(r, coord[c])
  BY <1>1, TickUpdate
<1>3. coord' = [coord EXCEPT ![c] = r]
  BY DEF Move
<1>. HIDE DEF r
<1>. QED
  BY <1>2, <1>3, HoldMoves

\* A tick that comes to present.
LEMMA PresentingMoves ==
  ASSUME ServiceInvariant, [ReportingNext]_reportingVars, NEW c \in Coordinators,
         coord[c].at \in Receipted, task.status = "DONE",
         coord' = [coord EXCEPT ![c].at = "presenting", ![c].attempt = 1]
  PROVE  Moves(c)
<1>. DEFINE q == [coord[c] EXCEPT !.at = "presenting"]
            r == [q EXCEPT !.attempt = 1]
<1>1. coord[c] \in Ticks /\ coord \in [Coordinators -> Ticks] /\ "presenting" \in Places
  BY TickTyping DEF ServiceInvariant, ReportingTypeOK, Places
<1>2. q \in Ticks /\ q.at = "presenting" /\ q.key = coord[c].key
  BY <1>1, TickUpdate DEF SameHold
<1>3. coord' = [coord EXCEPT ![c] = r]
  BY <1>1
<1>. HIDE DEF q
<1>4. r \in Ticks /\ r.at = "presenting" /\ r.key = coord[c].key
  BY <1>2, TickUpdate DEF SameHold
<1>. HIDE DEF r
<1>5. coord'[c] = r
  BY <1>1, <1>3
<1>6. coord[c].key \in WakeKeys /\ Submissions(coord[c].key) # {}
  BY DEF ServiceInvariant, Knows
<1>7. Knows(c)'
  BY <1>4, <1>5, <1>6, KnowsDone
<1>. QED
  BY <1>3, <1>4, <1>5, <1>7 DEF Moves

\* What is presented of a DONE task has a receipt.
LEMMA UnpresentedTyping ==
  ASSUME ServiceInvariant, Unpresented(task.wakeKey) # None
  PROVE  /\ task.wakeKey \in WakeKeys
         /\ Submissions(task.wakeKey) # {}
         /\ Unpresented(task.wakeKey) \in Nat
<1>1. task.wakeKey # None /\ Latest(task.wakeKey) # None
  BY DEF Unpresented
<1>2. task.wakeKey \in WakeKeys
  BY <1>1, FieldTyping DEF ServiceInvariant, ReportingTypeOK, TypeOK
<1>. DEFINE latest == Latest(task.wakeKey)
<1>3. journal \in Seq(Events)
  BY DEF ServiceInvariant, ReportingTypeOK
<1>4. PICK i \in DOMAIN journal : journal[i].key = task.wakeKey /\ latest = journal[i]
  BY <1>1, <1>3, FoundLatest
<1>5. latest \in Events
  BY <1>1, <1>3, FoundLatest
<1>. HIDE DEF latest
<1>6. CASE latest.status = "presentation_failed"
  <2>1. Submissions(task.wakeKey) # {}
    BY <1>4, <1>6 DEF ServiceInvariant, ReceiptComesFirst
  <2>2. Unpresented(task.wakeKey) = latest.attempt + 1
    BY <1>1, <1>6 DEF Unpresented, latest
  <2>. QED
    BY <1>2, <1>5, <2>1, <2>2 DEF Events
<1>7. CASE latest.status # "presentation_failed"
  <2>1. latest.status # "presented"
    BY <1>1 DEF Unpresented, latest
  <2>2. Unpresented(task.wakeKey) =
          IF FindSubmission(task.wakeKey) = None THEN None ELSE 1
    BY <1>1, <1>7, <2>1 DEF Unpresented, latest
  <2>. QED
    BY <1>2, <1>3, <2>2, FoundSubmission
<1>. QED
  BY <1>6, <1>7

\* A tick that has read the record and the channel.
LEMMA ReadTaskMoves ==
  ASSUME ServiceInvariant, [ReportingNext]_reportingVars, NEW c \in Coordinators,
         ReadTask(c)
  PROVE  Moves(c)
<1>. DEFINE attempt == Unpresented(task.wakeKey)
            toPrepare == [Idle EXCEPT !.at = "preparing", !.seen = task.revision,
                                      !.chan = channel]
            toPresent == [Idle EXCEPT !.at = "presenting", !.chan = channel,
                                      !.key = task.wakeKey, !.attempt = attempt]
<1>1. coord \in [Coordinators -> Ticks] /\ channel \in Channels /\ task.revision \in Nat
  BY FieldTyping DEF ServiceInvariant, ReportingTypeOK, TypeOK
<1>2. CASE EndTick(c)
  BY <1>2, EndMoves
<1>3. CASE coord' = [coord EXCEPT ![c] = toPrepare]
  <2>1. toPrepare \in Ticks /\ toPrepare.at = "preparing" /\ toPrepare.chan = channel
    BY <1>1 DEF Idle, Ticks, Places
  <2>2. coord'[c] = toPrepare
    BY <1>1, <1>3
  <2>3. Knows(c)'
    BY <1>1, <2>1, <2>2 DEF Knows, Woken, Receipted
  <2>. QED
    BY <1>3, <2>1, <2>2, <2>3 DEF Moves
<1>4. CASE attempt # None /\ task.status = "DONE" /\ coord' = [coord EXCEPT ![c] = toPresent]
  <2>1. /\ task.wakeKey \in WakeKeys /\ Submissions(task.wakeKey) # {}
        /\ attempt \in Nat
    BY <1>4, UnpresentedTyping
  <2>. HIDE DEF attempt
  <2>2. toPresent \in Ticks /\ toPresent.at = "presenting" /\ toPresent.key = task.wakeKey
    BY <1>1, <2>1 DEF Idle, Ticks, Places
  <2>3. coord'[c] = toPresent
    BY <1>1, <1>4
  <2>4. Knows(c)'
    BY <1>4, <2>1, <2>2, <2>3, KnowsDone
  <2>. QED
    BY <1>4, <2>2, <2>3, <2>4 DEF Moves
<1>. QED
  BY <1>2, <1>3, <1>4 DEF ReadTask, EndTick

\* A tick that has prepared the wake knows the record it wrote.
LEMMA PrepareMoves ==
  ASSUME ServiceInvariant, [ReportingNext]_reportingVars, NEW c \in Coordinators,
         Prepare(c)
  PROVE  Moves(c)
<1>. DEFINE r == [coord[c] EXCEPT !.at = "prepared", !.seen = task'.revision,
                                  !.key = task'.wakeKey]
<1>1. /\ coord[c] \in Ticks /\ coord \in [Coordinators -> Ticks]
      /\ task \in TaskRecords /\ task' \in TaskRecords
  BY ReportingStep, StepTyping, TickTyping DEF ServiceInvariant, ReportingTypeOK, TypeOK
<1>2. coord' = [coord EXCEPT ![c] = r]
  BY <1>1 DEF Prepare
<1>3. coord[c].chan \in Channels
  BY DEF ServiceInvariant, Knows, Prepare, At
<1>4. task'.status = "REPORTING" /\ task'.wakeKey \in WakeKeys
  <2>1. coord[c].chan.who \in Planners /\ coord[c].chan.conv \in Conversations
    BY <1>3 DEF Channels
  <2>2. task.status = "REPORTING" /\ task.wakeKey \in WakeKeys \cup {None}
        /\ task.revision + 1 \in Nat
    BY <1>1, FieldTyping DEF Prepare, CanPrepareWake
  <2>3. CASE task.wakeKey # None
    BY <2>2, <2>3 DEF Prepare, AfterPrepareWake
  <2>4. CASE task.wakeKey = None
    <3>. DEFINE key == [rev |-> task.revision + 1, who |-> coord[c].chan.who,
                        conv |-> coord[c].chan.conv]
    <3>1. key \in WakeKeys
      BY <2>1, <2>2 DEF WakeKeys
    <3>2. task' = [task EXCEPT !.phase = "pending", !.wakeKey = key,
                               !.revision = task.revision + 1]
      BY <2>4 DEF Prepare, AfterPrepareWake
    <3>. HIDE DEF key
    <3>. QED
      BY <1>1, <2>2, <3>1, <3>2 DEF TaskRecords
  <2>. QED
    BY <2>3, <2>4
<1>5. task'.revision \in Nat
  BY <1>1, FieldTyping
<1>6. /\ r \in Ticks /\ r.at = "prepared" /\ r.chan = coord[c].chan
      /\ r.seen = task'.revision /\ r.key = task'.wakeKey
  BY <1>1, <1>4, <1>5 DEF Ticks, Places
<1>. HIDE DEF r
<1>7. coord'[c] = r
  BY <1>1, <1>2
<1>8. Knows(c)'
  BY <1>3, <1>4, <1>5, <1>6, <1>7 DEF Knows, Woken, Receipted
<1>. QED
  BY <1>2, <1>6, <1>7, <1>8 DEF Moves

\* What the tick reads in the journal tells it where to go.
LEMMA WhatNextTyping ==
  ASSUME ServiceInvariant, NEW key, WhatNext(Latest(key)).at # "idle"
  PROVE  /\ WhatNext(Latest(key)).at \in {"submitting", "reconciling", "observing"}
         /\ WhatNext(Latest(key)).attempt \in Nat /\ WhatNext(Latest(key)).turn \in Nat
         /\ WhatNext(Latest(key)).at = "observing" => Submissions(key) # {}
<1>. DEFINE latest == Latest(key)
<1>1. journal \in Seq(Events)
  BY DEF ServiceInvariant, ReportingTypeOK
<1>2. CASE latest = None
  BY <1>2 DEF WhatNext, Submit, Do
<1>3. CASE latest # None
  <2>1. PICK i \in DOMAIN journal : journal[i].key = key /\ latest = journal[i]
    BY <1>1, <1>3, FoundLatest
  <2>2. latest \in Events
    BY <1>1, <1>3, FoundLatest
  <2>3. latest.attempt \in Nat /\ latest.key = key
    BY <2>1, <2>2 DEF Events
  <2>. HIDE DEF latest
  <2>4. CASE latest.status = "submitting"
    BY <1>3, <2>3, <2>4 DEF WhatNext, Do, latest
  <2>5. CASE latest.status = "model_failed"
    <3>1. WhatNext(latest) = Retry(latest.attempt)
      BY <1>3, <2>5 DEF WhatNext
    <3>2. Retry(latest.attempt).at # "idle"
      BY <3>1 DEF latest
    <3>3. Retry(latest.attempt) = Submit(latest.attempt + 1)
      BY <3>2 DEF Retry, Do
    <3>. QED
      BY <2>3, <3>1, <3>3 DEF Submit, Do, latest
  <2>6. CASE latest.status \notin {"submitting", "model_failed"}
    <3>1. Submissions(key) # {}
      BY <2>1, <2>6 DEF ServiceInvariant, ReceiptComesFirst
    <3>. DEFINE found == FindSubmission(key)
    <3>2. found \in Events
      BY <1>1, <3>1, FoundSubmission
    <3>3. found.attempt \in Nat /\ found.turn \in Nat
      BY <3>2 DEF Events
    <3>4. WhatNext(latest) = Do("observing", found.attempt, found.turn)
      BY <1>3, <2>3, <2>6 DEF WhatNext
    <3>. QED
      BY <3>1, <3>3, <3>4 DEF Do, latest
  <2>. QED
    BY <2>4, <2>5, <2>6
<1>. QED
  BY <1>2, <1>3

\* A tick that has read the journal.
LEMMA ReadJournalMoves ==
  ASSUME ServiceInvariant, [ReportingNext]_reportingVars, NEW c \in Coordinators,
         ReadJournal(c)
  PROVE  Moves(c)
<1>. DEFINE next == WhatNext(Latest(coord[c].key))
            p == [coord[c] EXCEPT !.at = next.at]
            q == [p EXCEPT !.attempt = next.attempt]
            r == [q EXCEPT !.turn = next.turn]
<1>1. CASE next.at = "idle"
  BY <1>1, EndMoves DEF ReadJournal, EndTick
<1>2. CASE next.at # "idle"
  <2>1. /\ next.at \in {"submitting", "reconciling", "observing"}
        /\ next.attempt \in Nat /\ next.turn \in Nat
        /\ next.at = "observing" => Submissions(coord[c].key) # {}
    BY <1>2, WhatNextTyping
  <2>2. coord' = [coord EXCEPT ![c] = r]
    BY <1>2 DEF ReadJournal
  <2>3. coord[c] \in Ticks /\ coord[c].at \in Woken /\ coord[c].key \in WakeKeys
    BY TickTyping DEF ServiceInvariant, ReadJournal, At, Woken, Places, Knows
  <2>4. next.at \in Woken /\ next.at \in Places
    BY <2>1 DEF Woken, Places
  <2>. HIDE DEF next
  <2>5. p \in Ticks /\ p.at = next.at /\ SameHold(p, coord[c])
    BY <2>3, <2>4, TickUpdate
  <2>. HIDE DEF p
  <2>6. q \in Ticks /\ q.at = next.at /\ SameHold(q, p)
    BY <2>1, <2>5, TickUpdate
  <2>. HIDE DEF q
  <2>7. r \in Ticks /\ r.at = next.at /\ SameHold(r, q)
    BY <2>1, <2>6, TickUpdate
  <2>. HIDE DEF r
  <2>8. SameHold(r, coord[c])
    BY <2>5, <2>6, <2>7 DEF SameHold
  <2>9. r.at \in Receipted => \A key : key = coord[c].key => Submissions(key)' # {}
    BY <2>1, <2>3, <2>7, KnowledgeLasts DEF Receipted
  <2>. QED
    BY <2>2, <2>3, <2>4, <2>7, <2>8, <2>9, HoldMoves
<1>. QED
  BY <1>1, <1>2

\* The tool has started a turn; the tick holds its number.
LEMMA StartMoves ==
  ASSUME ServiceInvariant, [ReportingNext]_reportingVars, NEW c \in Coordinators,
         StartTurn(c) \/ StartLateTurn(c)
  PROVE  Moves(c)
<1>1. PICK place \in {"called", "waiting"} :
        coord' = [coord EXCEPT ![c].at = place, ![c].turn = Len(remote) + 1]
  BY DEF StartTurn, StartLateTurn
<1>. DEFINE p == [coord[c] EXCEPT !.at = place]
            r == [p EXCEPT !.turn = Len(remote) + 1]
<1>2. coord[c] \in Ticks /\ coord[c].at \in Woken /\ Len(remote) + 1 \in Nat
  BY TickTyping DEF ServiceInvariant, ReportingTypeOK, StartTurn, StartLateTurn, At,
     Woken, Places
<1>3. place \in Woken /\ place \in Places /\ place \notin Receipted
  BY DEF Woken, Places, Receipted
<1>4. coord' = [coord EXCEPT ![c] = r]
  BY <1>1
<1>5. p \in Ticks /\ p.at = place /\ SameHold(p, coord[c])
  BY <1>2, <1>3, TickUpdate
<1>. HIDE DEF p
<1>6. r \in Ticks /\ r.at = place /\ SameHold(r, p)
  BY <1>2, <1>5, TickUpdate
<1>. HIDE DEF r
<1>7. SameHold(r, coord[c])
  BY <1>5, <1>6 DEF SameHold
<1>. QED
  BY <1>2, <1>3, <1>4, <1>6, <1>7, HoldMoves

\* A receipt written in a step is there after it.
LEMMA ReceiptWritten ==
  ASSUME ServiceInvariant, NEW c \in Coordinators,
         coord[c].at \in Woken, coord[c].key \in WakeKeys, NEW t \in Nat,
         Record(c, "submitted", coord[c].attempt, t)
  PROVE  \A key : key = coord[c].key => Submissions(key)' # {}
<1>1. coord[c].attempt \in Nat /\ journal \in Seq(Events)
  BY TickTyping DEF ServiceInvariant, ReportingTypeOK
<1>2. PICK e : /\ Writable(e) /\ journal' = Append(journal, e)
               /\ e.key = coord[c].key /\ e.status = "submitted"
  BY <1>1, RecordedEvent DEF EventStatuses
<1>3. PICK i \in DOMAIN journal' : journal'[i] = e
  BY <1>1, <1>2, AppendedEvent DEF Writable
<1>. QED
  BY <1>2, <1>3 DEF Submissions, EventsOf

\* A tick that has written the receipt.
LEMMA RecordReceiptMoves ==
  ASSUME ServiceInvariant, [ReportingNext]_reportingVars, NEW c \in Coordinators,
         RecordReceipt(c)
  PROVE  Moves(c)
<1>1. coord[c].at \in Woken
  BY DEF RecordReceipt, At, Woken, Places
<1>2. coord[c].key \in WakeKeys /\ coord[c].turn \in Nat
  BY <1>1, KnownReceipt
<1>3. \A key : key = coord[c].key => Submissions(key)' # {}
  BY <1>1, <1>2, ReceiptWritten DEF RecordReceipt
<1>4. PICK place \in {"checking", "phasing"} : Move(c, place)
  BY DEF RecordReceipt
<1>5. place \in Woken
  BY DEF Woken, Places
<1>. QED
  BY <1>1, <1>3, <1>4, <1>5, MoveMoves

\* A tick that has looked at the record after the submission.
LEMMA CheckDoneMoves ==
  ASSUME ServiceInvariant, [ReportingNext]_reportingVars, NEW c \in Coordinators,
         CheckDone(c)
  PROVE  Moves(c)
<1>1. coord[c].at \in Woken /\ coord[c].at \in Receipted
  BY DEF CheckDone, At, Woken, Places, Receipted
<1>2. CASE task.status = "DONE"
  BY <1>1, <1>2, PresentingMoves DEF CheckDone
<1>3. CASE task.status # "DONE"
  <2>. DEFINE p == [coord[c] EXCEPT !.at = "phasing"]
              r == [p EXCEPT !.attempt = 1]
  <2>1. coord[c] \in Ticks /\ "phasing" \in Woken /\ "phasing" \in Places
    BY TickTyping DEF ServiceInvariant, Woken, Places
  <2>2. coord' = [coord EXCEPT ![c] = r]
    BY <1>3 DEF CheckDone
  <2>3. p \in Ticks /\ p.at = "phasing" /\ SameHold(p, coord[c])
    BY <2>1, TickUpdate
  <2>. HIDE DEF p
  <2>4. r \in Ticks /\ r.at = "phasing" /\ SameHold(r, p)
    BY <2>3, TickUpdate
  <2>. HIDE DEF r
  <2>5. SameHold(r, coord[c])
    BY <2>3, <2>4 DEF SameHold
  <2>. QED
    BY <1>1, <2>1, <2>2, <2>4, <2>5, HoldMoves
<1>. QED
  BY <1>2, <1>3

\* A tick that has set the phase, or was refused.
LEMMA SetPhaseMoves ==
  ASSUME ServiceInvariant, [ReportingNext]_reportingVars, NEW c \in Coordinators,
         PhaseSubmitted(c) \/ PhaseReconciled(c) \/ PhaseActive(c)
  PROVE  Moves(c)
<1>1. \/ EndTick(c)
      \/ coord[c].at = "rephasing" /\ Move(c, "observing")
  BY DEF PhaseSubmitted, PhaseReconciled, PhaseActive, SetPhase, At
<1>2. "rephasing" \in Woken /\ "rephasing" \in Receipted /\ "observing" \in Woken
  BY DEF Woken, Receipted, Places
<1>. QED
  BY <1>1, <1>2, EndMoves, MoveMoves

\* A tick that has asked for the turn of an unanswered submission.
LEMMA ReconcileMoves ==
  ASSUME ServiceInvariant, [ReportingNext]_reportingVars, NEW c \in Coordinators,
         Reconcile(c)
  PROVE  Moves(c)
<1>1. CASE TurnsFound(c) = {}
  BY <1>1, EndMoves DEF Reconcile
<1>2. CASE TurnsFound(c) # {}
  <2>. DEFINE t == LastOf(TurnsFound(c))
              p == [coord[c] EXCEPT !.at = "rephasing"]
              r == [p EXCEPT !.turn = t]
  <2>1. coord[c] \in Ticks /\ coord[c].at \in Woken /\ coord[c].key \in WakeKeys
    BY TickTyping, KnownReceipt DEF ServiceInvariant, Reconcile, At, Woken, Places
  <2>2. t \in Nat
    BY <1>2, FoundTurn DEF ServiceInvariant
  <2>3. /\ Record(c, "submitted", coord[c].attempt, t)
        /\ coord' = [coord EXCEPT ![c] = r]
    BY <1>2 DEF Reconcile
  <2>. HIDE DEF t
  <2>4. \A key : key = coord[c].key => Submissions(key)' # {}
    BY <2>1, <2>2, <2>3, ReceiptWritten
  <2>5. "rephasing" \in Woken /\ "rephasing" \in Places
    BY DEF Woken, Places
  <2>6. p \in Ticks /\ p.at = "rephasing" /\ SameHold(p, coord[c])
    BY <2>1, <2>5, TickUpdate
  <2>. HIDE DEF p
  <2>7. r \in Ticks /\ r.at = "rephasing" /\ SameHold(r, p)
    BY <2>2, <2>6, TickUpdate
  <2>. HIDE DEF r
  <2>8. SameHold(r, coord[c])
    BY <2>6, <2>7 DEF SameHold
  <2>. QED
    BY <2>1, <2>3, <2>4, <2>5, <2>7, <2>8, HoldMoves
<1>. QED
  BY <1>1, <1>2

\* A tick that has asked after its turn.
LEMMA ObserveMoves ==
  ASSUME ServiceInvariant, [ReportingNext]_reportingVars, NEW c \in Coordinators,
         Observe(c)
  PROVE  Moves(c)
<1>1. coord[c].at \in Woken /\ coord[c].at \in Receipted
  BY DEF Observe, At, Woken, Places, Receipted
<1>2. "settling" \in Woken /\ "activating" \in Woken
  BY DEF Woken, Places
<1>3. EndTick(c) \/ Move(c, "settling") \/ Move(c, "activating")
  BY DEF Observe
<1>. QED
  BY <1>1, <1>2, <1>3, EndMoves, MoveMoves

\* A tick whose turn is over.
LEMMA SettleMoves ==
  ASSUME ServiceInvariant, [ReportingNext]_reportingVars, NEW c \in Coordinators,
         Settle(c)
  PROVE  Moves(c)
<1>1. coord[c].at \in Receipted
  BY DEF Settle, At, Receipted
<1>. QED
  BY <1>1, EndMoves, PresentingMoves DEF Settle

\* Every step of a tick.
LEMMA StepMoves ==
  ASSUME ServiceInvariant, [ReportingNext]_reportingVars, NEW c \in Coordinators,
         TickStep(c) \/ TickFault(c)
  PROVE  Moves(c)
<1>1. CASE Notice(c)
  <2>. DEFINE r == [coord[c] EXCEPT !.at = "reading"]
  <2>1. /\ coord[c] \in Ticks /\ coord \in [Coordinators -> Ticks]
        /\ "reading" \in Places
    BY TickTyping DEF ServiceInvariant, ReportingTypeOK, Places
  <2>2. r \in Ticks /\ r.at = "reading"
    BY <2>1, TickUpdate
  <2>3. coord' = [coord EXCEPT ![c] = r]
    BY <1>1 DEF Notice, Move
  <2>. HIDE DEF r
  <2>4. coord'[c] = r
    BY <2>1, <2>3
  <2>. QED
    BY <2>2, <2>3, <2>4, KnowsNothing DEF Moves
<1>2. CASE ReadTask(c)
  BY <1>2, ReadTaskMoves
<1>3. CASE Prepare(c)
  BY <1>3, PrepareMoves
<1>4. CASE PrepareRefused(c)
  BY <1>4, EndMoves DEF PrepareRefused
<1>5. CASE ReadJournal(c)
  BY <1>5, ReadJournalMoves
<1>6. CASE Announce(c)
  <2>1. coord[c].at \in Woken /\ "calling" \in Woken /\ "calling" \notin Receipted
    BY <1>6 DEF Announce, At, Woken, Places, Receipted
  <2>. QED
    BY <1>6, <2>1, MoveMoves DEF Announce
<1>7. CASE StartTurn(c) \/ StartLateTurn(c)
  BY <1>7, StartMoves
<1>8. CASE TurnReturns(c)
  <2>1. coord[c].at \in Woken /\ "called" \in Woken /\ "called" \notin Receipted
    BY <1>8 DEF TurnReturns, At, Woken, Places, Receipted
  <2>. QED
    BY <1>8, <2>1, MoveMoves, EndMoves DEF TurnReturns
<1>9. CASE RecordReceipt(c)
  BY <1>9, RecordReceiptMoves
<1>10. CASE CheckDone(c)
  BY <1>10, CheckDoneMoves
<1>11. CASE PhaseSubmitted(c) \/ PhaseReconciled(c) \/ PhaseActive(c)
  BY <1>11, SetPhaseMoves
<1>12. CASE Reconcile(c)
  BY <1>12, ReconcileMoves
<1>13. CASE Observe(c)
  BY <1>13, ObserveMoves
<1>14. CASE Settle(c)
  BY <1>14, SettleMoves
<1>15. CASE Present(c) \/ PresentFails(c)
  BY <1>15, EndMoves DEF Present, PresentFails
<1>16. CASE SubmitRefused(c) \/ AnswerLost(c) \/ TickAborts(c)
  BY <1>16, EndMoves DEF SubmitRefused, AnswerLost, TickAborts
<1>. QED
  BY <1>1, <1>2, <1>3, <1>4, <1>5, <1>6, <1>7, <1>8, <1>9, <1>10, <1>11,
     <1>12, <1>13, <1>14, <1>15, <1>16 DEF TickStep, TickFault

\* Steps of others leave a tick alone, and it keeps what it knows.
LEMMA StepTicks ==
  ASSUME ServiceInvariant, [ReportingNext]_reportingVars
  PROVE  coord' \in [Coordinators -> Ticks] /\ \A c \in Coordinators : Knows(c)'
<1>. coord \in [Coordinators -> Ticks]
  BY DEF ServiceInvariant, ReportingTypeOK
<1>1. ASSUME NEW c \in Coordinators, TickStep(c) \/ TickFault(c)
      PROVE  coord' \in [Coordinators -> Ticks] /\ \A d \in Coordinators : Knows(d)'
  <2>1. Moves(c)
    BY <1>1, StepMoves
  <2>2. \A d \in Coordinators : d # c => coord'[d] = coord[d]
    BY <2>1 DEF Moves
  <2>3. \A d \in Coordinators : Knows(d)'
    BY <2>1, <2>2, KnowsStill DEF Moves
  <2>. QED
    BY <2>1, <2>3 DEF Moves
<1>2. CASE UNCHANGED coord
  BY <1>2, KnowsStill
<1>3. ASSUME NEW t \in DOMAIN remote, TurnReports(t) \/ TurnEnds(t) \/ TurnAppears(t)
      PROVE  UNCHANGED coord
  BY <1>3 DEF TurnReports, TurnEnds, TurnAppears
<1>4. CASE ForegroundReports \/ UserActs \/ RebindChannel \/ HelperDies
  BY <1>2, <1>4 DEF ForegroundReports, UserActs, RebindChannel, HelperDies
<1>5. ASSUME NEW to \in Planners, NEW conv \in Conversations, ReplacePlanner(to, conv)
      PROVE  UNCHANGED coord
  BY <1>5 DEF ReplacePlanner
<1>. QED
  BY <1>1, <1>2, <1>3, <1>4, <1>5 DEF ReportingNext, reportingVars

---------------------------------------------------------------------------
(* The turns and the channel.                                              *)

\* A turn appended to those there are.
LEMMA StartedTurn ==
  ASSUME ServiceInvariant, NEW c \in Coordinators, coord[c].at \in Woken,
         NEW state \in TurnStates, NewTurn(c, state)
  PROVE  /\ remote' \in Seq(RemoteTurns)
         /\ \A t \in DOMAIN remote' :
              \/ t \in DOMAIN remote /\ remote'[t].key = remote[t].key
              \/ remote'[t].key = coord[c].key
<1>. DEFINE new == [state |-> state, key |-> coord[c].key,
                    who |-> coord[c].chan.who, conv |-> coord[c].chan.conv]
<1>1. coord[c].chan \in Channels /\ coord[c].key \in WakeKeys
  BY DEF ServiceInvariant, Knows
<1>2. new \in RemoteTurns /\ new.key = coord[c].key
  BY <1>1 DEF RemoteTurns, Channels
<1>3. remote' = Append(remote, new) /\ remote \in Seq(RemoteTurns)
  BY DEF NewTurn, ServiceInvariant, ReportingTypeOK
<1>. HIDE DEF new
<1>4. /\ remote' \in Seq(RemoteTurns) /\ Len(remote') = Len(remote) + 1
      /\ \A t \in 1..Len(remote) : remote'[t] = remote[t]
      /\ remote'[Len(remote) + 1] = new
  BY <1>2, <1>3, AppendProperties
<1>5. /\ DOMAIN remote = 1..Len(remote) /\ Len(remote) \in Nat
      /\ DOMAIN remote' = 1..(Len(remote) + 1)
  BY <1>3, <1>4
<1>. QED
  BY <1>2, <1>4, <1>5

\* A turn that ends or appears is the turn it was.
LEMMA ChangedTurn ==
  ASSUME ReportingTypeOK, NEW t \in DOMAIN remote, NEW state \in TurnStates,
         remote' = [remote EXCEPT ![t].state = state]
  PROVE  /\ remote' \in Seq(RemoteTurns)
         /\ \A u \in DOMAIN remote' : u \in DOMAIN remote /\ remote'[u].key = remote[u].key
<1>. DEFINE new == [remote[t] EXCEPT !.state = state]
<1>1. remote \in Seq(RemoteTurns) /\ t \in 1..Len(remote)
  BY DEF ReportingTypeOK
<1>2. remote[t] \in RemoteTurns
  BY <1>1, ElementOfSeq
<1>3. new \in RemoteTurns /\ new.key = remote[t].key
  BY <1>2 DEF RemoteTurns
<1>4. remote' = [remote EXCEPT ![t] = new]
  OBVIOUS
<1>. HIDE DEF new
<1>5. /\ remote' \in Seq(RemoteTurns) /\ Len(remote') = Len(remote)
      /\ \A u \in 1..Len(remote) : remote'[u] = IF u = t THEN new ELSE remote[u]
  BY <1>1, <1>3, <1>4, ExceptSeq
<1>. QED
  BY <1>1, <1>3, <1>5

\* Turns keep their key, and a new one is started by a tick that has prepared the
\* wake, with the key it holds.
LEMMA StepRemote ==
  ASSUME ServiceInvariant, [ReportingNext]_reportingVars
  PROVE  /\ remote' \in Seq(RemoteTurns)
         /\ \A t \in DOMAIN remote' :
              \/ t \in DOMAIN remote /\ remote'[t].key = remote[t].key
              \/ /\ task' = task
                 /\ \E c \in Coordinators : coord[c].at \in Woken
                                            /\ remote'[t].key = coord[c].key
<1>. DEFINE Goal == /\ remote' \in Seq(RemoteTurns)
                    /\ \A t \in DOMAIN remote' :
                         \/ t \in DOMAIN remote /\ remote'[t].key = remote[t].key
                         \/ /\ task' = task
                            /\ \E c \in Coordinators : coord[c].at \in Woken
                                                       /\ remote'[t].key = coord[c].key
<1>1. CASE UNCHANGED remote
  BY <1>1 DEF ServiceInvariant, ReportingTypeOK
<1>2. ASSUME NEW c \in Coordinators, StartTurn(c) \/ StartLateTurn(c) PROVE Goal
  <2>1. /\ coord[c].at \in Woken /\ task' = task
        /\ NewTurn(c, "running") \/ NewTurn(c, "hidden")
    BY <1>2 DEF StartTurn, StartLateTurn, At, Woken, Places, vars
  <2>2. "running" \in TurnStates /\ "hidden" \in TurnStates
    BY DEF TurnStates
  <2>. QED
    BY <2>1, <2>2, StartedTurn
<1>3. ASSUME NEW c \in Coordinators, TickStep(c) \/ TickFault(c),
             ~ (StartTurn(c) \/ StartLateTurn(c))
      PROVE  UNCHANGED remote
  BY <1>3 DEF TickStep, TickFault, Notice, ReadTask, Prepare, PrepareRefused,
     ReadJournal, Announce, TurnReturns, RecordReceipt, CheckDone, PhaseSubmitted,
     PhaseReconciled, PhaseActive, SetPhase, Reconcile, Observe, Settle, Present,
     SubmitRefused, AnswerLost, PresentFails, TickAborts
<1>4. ASSUME NEW t \in DOMAIN remote, TurnReports(t) PROVE UNCHANGED remote
  BY <1>4 DEF TurnReports
<1>5. ASSUME NEW t \in DOMAIN remote, TurnEnds(t) \/ TurnAppears(t) PROVE Goal
  <2>1. PICK state \in TurnStates : remote' = [remote EXCEPT ![t].state = state]
    BY <1>5 DEF TurnEnds, TurnAppears, TurnStates
  <2>. QED
    BY <2>1, ChangedTurn DEF ServiceInvariant
<1>6. CASE ForegroundReports \/ UserActs \/ RebindChannel \/ HelperDies
  BY <1>1, <1>6 DEF ForegroundReports, UserActs, RebindChannel, HelperDies
<1>7. ASSUME NEW to \in Planners, NEW conv \in Conversations, ReplacePlanner(to, conv)
      PROVE  UNCHANGED remote
  BY <1>7 DEF ReplacePlanner
<1>. QED
  BY <1>1, <1>2, <1>3, <1>4, <1>5, <1>6, <1>7 DEF ReportingNext, reportingVars

\* The channel names a Planner and his tool, and the faults stay in their bound.
LEMMA StepChannel ==
  ASSUME ServiceInvariant, [ReportingNext]_reportingVars
  PROVE  /\ channel' \in Channels
         /\ rebinding' \in Channels \cup {None}
         /\ faults' \in 0..MaxFaults
<1>. DEFINE Goal == /\ channel' \in Channels
                    /\ rebinding' \in Channels \cup {None}
                    /\ faults' \in 0..MaxFaults
<1>. /\ channel \in Channels /\ rebinding \in Channels \cup {None}
     /\ faults \in 0..MaxFaults /\ MaxFaults \in Nat
  BY ReportingAssumption DEF ServiceInvariant, ReportingTypeOK
<1>1. ASSUME NEW c \in Coordinators, TickStep(c) PROVE Goal
  BY <1>1 DEF TickStep, Notice, ReadTask, Prepare, PrepareRefused,
     ReadJournal, Announce, StartTurn, TurnReturns, RecordReceipt, CheckDone,
     PhaseSubmitted, PhaseReconciled, PhaseActive, SetPhase, Reconcile, Observe,
     Settle, Present, outside
<1>2. ASSUME NEW c \in Coordinators, TickFault(c) PROVE Goal
  BY <1>2 DEF TickFault, StartLateTurn, SubmitRefused, AnswerLost, PresentFails,
     TickAborts, outside, Fault
<1>3. ASSUME NEW t \in DOMAIN remote, TurnReports(t) \/ TurnEnds(t) \/ TurnAppears(t)
      PROVE  Goal
  BY <1>3 DEF TurnReports, TurnEnds, TurnAppears, outside
<1>4. CASE ForegroundReports \/ UserActs
  BY <1>4 DEF ForegroundReports, UserActs, outside
<1>5. CASE RebindChannel \/ HelperDies
  BY <1>5 DEF RebindChannel, HelperDies, Fault
<1>6. ASSUME NEW to \in Planners, NEW conv \in Conversations, ReplacePlanner(to, conv)
      PROVE  Goal
  <2>1. ChannelOf(to, conv) \in Channels
    BY ReportingAssumption DEF ChannelOf, Channels
  <2>. QED
    BY <1>6, <2>1 DEF ReplacePlanner
<1>7. CASE UNCHANGED reportingVars
  BY <1>7 DEF reportingVars, outside
<1>. QED
  BY <1>1, <1>2, <1>3, <1>4, <1>5, <1>6, <1>7 DEF ReportingNext

---------------------------------------------------------------------------
(* The properties from one step to the next.                               *)

\* Turns started before carry the key still, and new ones are given it.
LEMMA StepCarry ==
  ServiceInvariant /\ [ReportingNext]_reportingVars => TurnsCarryTheKey'
<1>. SUFFICES ASSUME ServiceInvariant, [ReportingNext]_reportingVars,
                     task'.status \notin Terminal, NEW t \in DOMAIN remote'
             PROVE  remote'[t].key = task'.wakeKey
  BY DEF TurnsCarryTheKey
<1>1. TypeOK /\ [Next]_vars
  BY ReportingStep DEF ServiceInvariant, ReportingTypeOK
<1>2. task.status \notin Terminal
  BY <1>1, TerminalStep
<1>3. CASE t \in DOMAIN remote /\ remote'[t].key = remote[t].key
  <2>1. remote[t] \in RemoteTurns
    BY <1>3, ElementOfSeq DEF ServiceInvariant, ReportingTypeOK
  <2>2. remote[t].key = task.wakeKey /\ remote[t].key \in WakeKeys
    BY <1>2, <1>3, <2>1 DEF ServiceInvariant, TurnsCarryTheKey, RemoteTurns
  <2>. QED
    BY <1>1, <1>3, <2>2, OpenTaskKeepsKey, NoneAssumption
<1>4. ASSUME task' = task, NEW c \in Coordinators, coord[c].at \in Woken,
             remote'[t].key = coord[c].key
      PROVE  remote'[t].key = task'.wakeKey
  BY <1>2, <1>4 DEF ServiceInvariant, Knows
<1>. QED
  BY <1>3, <1>4, StepRemote

\* A phase that blocks a replacement is the phase there was, or a tick with a
\* receipt has set it.
LEMMA PhaseFromTick ==
  ASSUME ServiceInvariant, [ReportingNext]_reportingVars,
         task'.phase \in {"submitted", "active"}
  PROVE  /\ task'.wakeKey = task.wakeKey
         /\ task'.phase = task.phase \/ Submissions(task.wakeKey) # {}
<1>. DEFINE Goal == /\ task'.wakeKey = task.wakeKey
                    /\ task'.phase = task.phase \/ Submissions(task.wakeKey) # {}
<1>. task \in TaskRecords
  BY DEF ServiceInvariant, ReportingTypeOK, TypeOK
<1>. USE DEF TaskRecords
<1>1. ASSUME NEW c \in Coordinators, TickStep(c) PROVE Goal
  <2>1. CASE Prepare(c)
    BY <2>1 DEF Prepare, AfterPrepareWake
  <2>2. ASSUME NEW place \in {"phasing", "rephasing", "activating"},
               NEW phase, NEW next, SetPhase(c, place, phase, next)
        PROVE  Goal
    <3>1. CASE MaySetPhase(c)
      <4>1. coord[c].at \in Receipted
        BY <2>2 DEF SetPhase, At, Receipted
      <4>2. task.wakeKey = coord[c].key /\ Submissions(coord[c].key) # {}
        BY <3>1, <4>1, KnownReceipt DEF MaySetPhase, CanSetPhase
      <4>3. task' = AfterSetPhase(task, phase)
        BY <2>2, <3>1 DEF SetPhase
      <4>. QED
        BY <4>2, <4>3 DEF AfterSetPhase
    <3>2. CASE ~MaySetPhase(c)
      BY <2>2, <3>2 DEF SetPhase
    <3>. QED
      BY <3>1, <3>2
  <2>3. CASE PhaseSubmitted(c) \/ PhaseReconciled(c) \/ PhaseActive(c)
    BY <2>2, <2>3 DEF PhaseSubmitted, PhaseReconciled, PhaseActive
  <2>4. CASE ~ (Prepare(c) \/ PhaseSubmitted(c) \/ PhaseReconciled(c) \/ PhaseActive(c))
    BY <1>1, <2>4 DEF TickStep, Notice, ReadTask, PrepareRefused, ReadJournal,
       Announce, StartTurn, TurnReturns, RecordReceipt, CheckDone, Reconcile,
       Observe, Settle, Present, vars
  <2>. QED
    BY <2>1, <2>3, <2>4
<1>2. ASSUME NEW c \in Coordinators, TickFault(c) PROVE Goal
  BY <1>2 DEF TickFault, StartLateTurn, SubmitRefused, AnswerLost, PresentFails,
     TickAborts, vars
<1>3. ASSUME NEW t \in DOMAIN remote, TurnReports(t) \/ TurnEnds(t) \/ TurnAppears(t)
      PROVE  Goal
  BY <1>3 DEF TurnReports, TurnEnds, TurnAppears, AfterCompleteReport, vars
<1>4. CASE ForegroundReports
  BY <1>4 DEF ForegroundReports, ReportDone, AfterCompleteReport
<1>5. CASE UserActs
  BY <1>5 DEF UserActs, WaitUser, AfterWaitUser, Answer, AfterAnswer, Cancel, AfterCancel
<1>6. ASSUME NEW to \in Planners, NEW conv \in Conversations, ReplacePlanner(to, conv)
      PROVE  Goal
  BY <1>6 DEF ReplacePlanner, ReplaceAgent, AfterReplace
<1>7. CASE RebindChannel \/ HelperDies
  BY <1>7 DEF RebindChannel, HelperDies, vars
<1>8. CASE UNCHANGED reportingVars
  BY <1>8 DEF reportingVars, vars
<1>. QED
  BY <1>1, <1>2, <1>3, <1>4, <1>5, <1>6, <1>7, <1>8 DEF ReportingNext

\* What FoundSubmission says, of the journal after a step.
LEMMA FoundAfterwards ==
  ASSUME journal' \in Seq(Events), NEW key, Submissions(key)' # {}
  PROVE  FindSubmission(key)' # None
<1>. DEFINE found == Submissions(key)'
<1>1. found \in SUBSET (1..Len(journal')) /\ Len(journal') \in Nat
  BY DEF Submissions, EventsOf
<1>2. found # {} /\ FindSubmission(key)' = journal'[LastOf(found)]
  BY DEF FindSubmission
<1>. HIDE DEF found
<1>3. LastOf(found) \in 1..Len(journal')
  BY <1>1, <1>2, LastOfPlaces
<1>4. journal'[LastOf(found)] \in Events
  BY <1>3, ElementOfSeq
<1>. QED
  BY <1>2, <1>4, NoEventAssumption

\* A phase is set after the receipt, and the receipt stays.
LEMMA StepPhase ==
  ServiceInvariant /\ [ReportingNext]_reportingVars => PhaseHasReceipt'
<1>. SUFFICES ASSUME ServiceInvariant, [ReportingNext]_reportingVars,
                     task'.phase \in {"submitted", "active"},
                     NEW key, key = task'.wakeKey
             PROVE  FindSubmission(key)' # None
  BY DEF PhaseHasReceipt, FindSubmission, Submissions, EventsOf
<1>1. journal \in Seq(Events) /\ journal' \in Seq(Events) /\ JournalGrows
  BY StepJournalTyping DEF ServiceInvariant, ReportingTypeOK
<1>2. Submissions(key) # {}
  <2>1. CASE task'.phase = task.phase /\ task'.wakeKey = task.wakeKey
    BY <1>1, <2>1, FoundSubmission DEF ServiceInvariant, PhaseHasReceipt
  <2>2. CASE task'.wakeKey = task.wakeKey /\ Submissions(task.wakeKey) # {}
    BY <2>2
  <2>. QED
    BY <2>1, <2>2, PhaseFromTick
<1>3. Submissions(key)' # {}
  BY <1>1, <1>2, ReceiptsStay
<1>. QED
  BY <1>1, <1>3, FoundAfterwards

---------------------------------------------------------------------------
(* The theorems.                                                           *)

\* The invariant holds when the service starts.
LEMMA InitService == ReportingInit => ServiceInvariant
<1>. SUFFICES ASSUME ReportingInit PROVE ServiceInvariant
  OBVIOUS
<1>1. task \in TaskRecords /\ AtRest(task) /\ TypeOK
  BY StartAssumption DEF ReportingInit, Init, TypeOK
<1>2. channel \in Channels
  <2>1. task.assignments["planner"] \in Planners
    BY <1>1 DEF AtRest, ParticipantsOf, Roles
  <2>. QED
    BY <2>1, ReportingAssumption DEF ReportingInit, ChannelOf, Channels
<1>3. coord \in [Coordinators -> Ticks] /\ \A c \in Coordinators : coord[c].at = "idle"
  BY DEF ReportingInit, Idle, Ticks, Places
<1>4. /\ journal \in Seq(Events) /\ DOMAIN journal = {}
      /\ remote \in Seq(RemoteTurns) /\ DOMAIN remote = {}
  BY EmptySeq DEF ReportingInit
<1>5. ReportingTypeOK
  BY <1>1, <1>2, <1>3, <1>4, ReportingAssumption DEF ReportingInit, ReportingTypeOK
<1>6. ~RunActive(task) /\ task.phase = None
  BY <1>1 DEF AtRest
<1>7. \A c \in Coordinators : Knows(c)
  BY <1>3 DEF Knows, Woken, Receipted
<1>8. ReceiptComesFirst /\ TurnsCarryTheKey /\ CompletedIsDone
  BY <1>4 DEF ReceiptComesFirst, TurnsCarryTheKey, CompletedIsDone
<1>. QED
  BY <1>5, <1>6, <1>7, <1>8, NoEventAssumption DEF ServiceInvariant, PhaseHasReceipt, Phases

\* Every step keeps the invariant.
LEMMA StepService ==
  ServiceInvariant /\ [ReportingNext]_reportingVars => ServiceInvariant'
<1>. SUFFICES ASSUME ServiceInvariant, [ReportingNext]_reportingVars
             PROVE  ServiceInvariant'
  OBVIOUS
<1>1. TypeOK'
  BY ReportingStep, StepTyping DEF ServiceInvariant, ReportingTypeOK
<1>2. ReportingTypeOK'
  BY <1>1, StepChannel, StepJournalTyping, StepRemote, StepTicks DEF ReportingTypeOK
<1>. QED
  BY <1>2, StepNoRun, StepTicks, StepReceipts, StepCarry, StepPhase, StepCompleted
     DEF ServiceInvariant

\* The service, its files and its ticks keep their types, and a tick's knowledge
\* of the record is right wherever it is used (reporting.py).
THEOREM ServiceSafety == ReportingSpec => []ServiceInvariant
BY InitService, StepService, PTL DEF ReportingSpec

\* Whatever the Runners do, with all their races, retries and crashes, the task
\* record moves by operations of RelayTask (reporting.py).
THEOREM ReportingRefines == ReportingSpec => ImplementsRelayTask
<1>1. ReportingInit => Init
  BY DEF ReportingInit
<1>. QED
  BY <1>1, ReportingStep, ServiceSafety, PTL
     DEF ReportingSpec, ImplementsRelayTask, Spec

\* Every turn ever started can still report as long as the task is open: it has
\* the key of the record (prepare_reporting_wake, _submit).
THEOREM WakeKeySafety == ReportingSpec => []TurnsCarryTheKey
BY ServiceSafety, PTL DEF ServiceInvariant

\* The phase that protects the Planner from replacement has a receipt in the
\* journal (_submit, set_reporting_phase).
THEOREM ReceiptSafety == ReportingSpec => []PhaseHasReceipt
BY ServiceSafety, PTL DEF ServiceInvariant

\* A wake is called completed or presented of a DONE task only, for any number of
\* Runners (tick, _present).
THEOREM CompletionSafety == ReportingSpec => []CompletedIsDone
BY ServiceSafety, PTL DEF ServiceInvariant

\* What is proved of RelayTask holds of the service: while it runs, the Planner the
\* record waits for is the one assigned, and only reviewed deliveries are reported.
THEOREM ServiceKeepsRelay == ReportingSpec => []RelayInvariant
BY ReportingRefines, Safety DEF ImplementsRelayTask

---------------------------------------------------------------------------
(* One Runner: attempts.                                                   *)

\* Before the report every event is about the wake of the task.
LEMMA StepJournalKeys ==
  ASSUME ServiceInvariant, [ReportingNext]_reportingVars,
         task.status \notin Terminal => \A i \in DOMAIN journal : journal[i].key = task.wakeKey,
         task'.status \notin Terminal, NEW i \in DOMAIN journal'
  PROVE  journal'[i].key = task'.wakeKey
<1>1. journal \in Seq(Events) /\ TypeOK /\ [Next]_vars
  BY ReportingStep DEF ServiceInvariant, ReportingTypeOK
<1>2. task.status \notin Terminal
  BY <1>1, TerminalStep DEF Terminal
<1>3. ASSUME task.wakeKey \in WakeKeys
      PROVE  task'.wakeKey = task.wakeKey
  BY <1>1, <1>3, NoneAssumption, OpenTaskKeepsKey
<1>4. ASSUME NEW j \in DOMAIN journal
      PROVE  journal[j].key = task'.wakeKey
  <2>1. journal[j] \in Events /\ journal[j].key = task.wakeKey
    BY <1>1, <1>2, ElementOfSeq
  <2>. QED
    BY <2>1, <1>3 DEF Events
<1>5. ASSUME NEW e, Writable(e), journal' = Append(journal, e)
      PROVE  journal'[i].key = task'.wakeKey
  <2>1. e.key = task'.wakeKey
    BY <1>2, <1>3, <1>5 DEF Writable, Events
  <2>. QED
    BY <1>1, <1>4, <1>5, <2>1, AppendedEvent DEF Writable
<1>. QED
  BY <1>4, <1>5, StepJournal

\* The last event after an event has been appended.
LEMMA SpentAfter ==
  ASSUME journal \in Seq(Events), NEW e \in Events, journal' = Append(journal, e)
  PROVE  /\ Spent' = e.attempt /\ Spent' \in Nat
         /\ Unsettled' <=>
              /\ Unsettled
              /\ e.status \notin {"model_completed", "presented", "presentation_failed"}
<1>1. /\ journal' \in Seq(Events) /\ Len(journal') = Len(journal) + 1
      /\ journal'[Len(journal) + 1] = e
      /\ Len(journal) \in Nat
  BY AppendProperties
<1>2. journal' # <<>> /\ journal'[Len(journal')] = e
  BY <1>1
<1>3. Spent' = e.attempt
  BY <1>2 DEF Spent
<1>4. \A x : x \in DOMAIN journal => x \in DOMAIN journal' /\ journal'[x] = journal[x]
  BY AppendedEvent
<1>5. \A x \in DOMAIN journal' : x \in DOMAIN journal \/ journal'[x] = e
  BY AppendedEvent
<1>6. \E x \in DOMAIN journal' : journal'[x] = e
  BY AppendedEvent
<1>. QED
  BY <1>3, <1>4, <1>5, <1>6 DEF Unsettled, Events

LEMMA SpentTyping ==
  ASSUME journal \in Seq(Events)
  PROVE  Spent \in Nat /\ Len(journal) \in Nat /\ (journal # <<>> => Len(journal) \in DOMAIN journal)
<1>1. Len(journal) \in Nat /\ (journal # <<>> => Len(journal) \in DOMAIN journal)
  OBVIOUS
<1>2. CASE journal # <<>>
  <2>1. journal[Len(journal)] \in Events
    BY <1>1, <1>2
  <2>. QED
    BY <1>1, <1>2, <2>1 DEF Spent, Events
<1>. QED
  BY <1>1, <1>2 DEF Spent

\* The part of AttemptsInvariant that speaks of a tick and of numbers.
Counted(c) ==
  /\ Unsettled => Len(remote) <= Spent /\ Spent <= ModelRetryLimit + 1
  /\ Len(remote) <= ModelRetryLimit + 1
  /\ CountsAttempts(c)

\* The tick ends, or stays or goes on with what it holds, and nothing is written.
LEMMA CountsOn ==
  ASSUME AttemptsInvariant, NEW c \in Coordinators, journal' = journal,
         Len(remote') = Len(remote),
         coord'[c].at \in Woken =>
           coord[c].at \in Woken /\ coord'[c].key = coord[c].key,
         coord'[c].at \in Woken \ {"prepared", "submitting"} => coord'[c].attempt = Spent,
         coord'[c].at = "submitting" =>
           coord'[c].attempt = Spent + 1 /\ coord'[c].attempt <= ModelRetryLimit + 1,
         coord'[c].at = "calling" => Len(remote) < Spent,
         coord'[c].at = "checking" => coord'[c].attempt = 1
  PROVE  Counted(c)'
<1>1. Spent' = Spent /\ (Unsettled' <=> Unsettled) /\ DOMAIN journal' = DOMAIN journal
  BY DEF Spent, Unsettled
<1>2. CountsAttempts(c)
  BY DEF AttemptsInvariant
<1>. QED
  BY <1>1, <1>2 DEF Counted, AttemptsInvariant, CountsAttempts

LEMMA CountsStill ==
  ASSUME AttemptsInvariant, NEW c \in Coordinators, journal' = journal,
         Len(remote') = Len(remote),
         coord'[c] = coord[c] \/ coord'[c].at \notin Woken
  PROVE  Counted(c)'
<1>1. CountsAttempts(c) /\ {"submitting", "calling", "checking"} \subseteq Woken
  BY DEF AttemptsInvariant, Woken, Places
<1>. QED
  BY <1>1, CountsOn DEF CountsAttempts

\* A tick that writes an event and goes on.
LEMMA CountsEvent ==
  ASSUME AttemptsInvariant, NEW c \in Coordinators, remote' = remote,
         NEW e \in Events, journal' = Append(journal, e),
         coord[c].at \in Woken, e.key = coord[c].key,
         Spent <= e.attempt, e.attempt <= ModelRetryLimit + 1,
         coord'[c].at \notin {"prepared", "submitting"},
         coord'[c].at \in Woken =>
           /\ coord'[c].key = coord[c].key /\ coord'[c].attempt = e.attempt
           /\ e.status \notin {"model_completed", "presented", "presentation_failed"},
         coord'[c].at = "calling" => Spent < e.attempt,
         coord'[c].at = "checking" => coord'[c].attempt = 1
  PROVE  Counted(c)'
<1>1. journal \in Seq(Events) /\ remote \in Seq(RemoteTurns)
  BY DEF AttemptsInvariant, ServiceInvariant, ReportingTypeOK
<1>2. /\ Spent' = e.attempt /\ Spent' \in Nat /\ Spent \in Nat
      /\ Len(remote) \in Nat /\ ModelRetryLimit \in Nat
      /\ Unsettled' <=>
           /\ Unsettled
           /\ e.status \notin {"model_completed", "presented", "presentation_failed"}
  BY <1>1, SpentAfter, SpentTyping, ReportingAssumption
<1>3. /\ Unsettled /\ \A i \in DOMAIN journal : journal[i].key = coord[c].key
      /\ Len(remote) <= Spent /\ Len(remote) <= ModelRetryLimit + 1
  BY DEF AttemptsInvariant, CountsAttempts
<1>4. Len(remote') = Len(remote)
  OBVIOUS
<1>5. \A i \in DOMAIN journal' : journal'[i].key = coord[c].key
  BY <1>1, <1>3, AppendedEvent
<1>6. Unsettled' => Len(remote') <= Spent' /\ Spent' <= ModelRetryLimit + 1
  BY <1>2, <1>3, <1>4
<1>7. Len(remote') <= ModelRetryLimit + 1
  BY <1>3, <1>4
<1>8. CountsAttempts(c)'
  <2>1. coord'[c].at = "calling" => Len(remote') < Spent'
    BY <1>2, <1>3, <1>4
  <2>2. coord'[c].at \in Woken =>
          Unsettled' /\ \A i \in DOMAIN journal' : journal'[i].key = coord'[c].key
    BY <1>2, <1>3, <1>5
  <2>. QED
    BY <1>2, <2>1, <2>2 DEF CountsAttempts
<1>. QED
  BY <1>6, <1>7, <1>8 DEF Counted

\* A tick that presents writes what settles the wake, and ends.
LEMMA CountsSettled ==
  ASSUME AttemptsInvariant, NEW c \in Coordinators, remote' = remote,
         NEW e \in Events, journal' = Append(journal, e),
         e.status \in {"model_completed", "presented", "presentation_failed"},
         coord'[c].at \notin Woken
  PROVE  Counted(c)'
<1>1. journal \in Seq(Events)
  BY DEF AttemptsInvariant, ServiceInvariant, ReportingTypeOK
<1>2. ~Unsettled'
  BY <1>1, SpentAfter
<1>3. coord'[c].at \notin {"submitting", "calling", "checking"}
  BY DEF Woken, Places
<1>4. Len(remote') <= ModelRetryLimit + 1
  BY DEF AttemptsInvariant
<1>. QED
  BY <1>2, <1>3, <1>4 DEF Counted, CountsAttempts

\* A turn has started.
LEMMA CountsTurn ==
  ASSUME AttemptsInvariant, NEW c \in Coordinators, journal' = journal,
         Len(remote') = Len(remote) + 1, coord[c].at = "calling",
         coord'[c].at \in {"called", "waiting"}, coord'[c].key = coord[c].key,
         coord'[c].attempt = coord[c].attempt
  PROVE  Counted(c)'
<1>1. journal \in Seq(Events) /\ remote \in Seq(RemoteTurns)
  BY DEF AttemptsInvariant, ServiceInvariant, ReportingTypeOK
<1>2. Spent \in Nat /\ Len(remote) \in Nat /\ ModelRetryLimit \in Nat
  BY <1>1, SpentTyping, ReportingAssumption
<1>3. /\ Spent' = Spent /\ (Unsettled' <=> Unsettled) /\ DOMAIN journal' = DOMAIN journal
      /\ \A i \in DOMAIN journal : journal'[i] = journal[i]
  BY DEF Spent, Unsettled
<1>4. "calling" \in Woken
  BY DEF Woken, Places
<1>5. /\ Unsettled /\ \A i \in DOMAIN journal : journal[i].key = coord[c].key
      /\ coord[c].attempt = Spent /\ Len(remote) < Spent /\ Spent <= ModelRetryLimit + 1
  BY <1>4 DEF AttemptsInvariant, CountsAttempts
<1>6. Len(remote') <= Spent' /\ Len(remote') <= ModelRetryLimit + 1
  BY <1>2, <1>3, <1>5
<1>7. CountsAttempts(c)'
  BY <1>3, <1>5 DEF CountsAttempts
<1>. QED
  BY <1>3, <1>5, <1>6, <1>7 DEF Counted


\* What a tick holds after it has gone to a next place.
LEMMA MovedTick ==
  ASSUME ReportingTypeOK, NEW c \in Coordinators, NEW place, Move(c, place)
  PROVE  /\ coord'[c].at = place /\ coord'[c].chan = coord[c].chan
         /\ coord'[c].key = coord[c].key
         /\ coord'[c].attempt = coord[c].attempt /\ coord'[c].turn = coord[c].turn
BY DEF ReportingTypeOK, Ticks, Move

\* The same, with an attempt or a turn of its own.
LEMMA AttemptedTick ==
  ASSUME ReportingTypeOK, NEW c \in Coordinators, NEW place, NEW attempt,
         coord' = [coord EXCEPT ![c].at = place, ![c].attempt = attempt]
  PROVE  /\ coord'[c].at = place /\ coord'[c].chan = coord[c].chan
         /\ coord'[c].key = coord[c].key
         /\ coord'[c].attempt = attempt /\ coord'[c].turn = coord[c].turn
BY DEF ReportingTypeOK, Ticks

LEMMA TurnedTick ==
  ASSUME ReportingTypeOK, NEW c \in Coordinators, NEW place, NEW t,
         coord' = [coord EXCEPT ![c].at = place, ![c].turn = t]
  PROVE  /\ coord'[c].at = place /\ coord'[c].chan = coord[c].chan
         /\ coord'[c].key = coord[c].key
         /\ coord'[c].attempt = coord[c].attempt /\ coord'[c].turn = t
BY DEF ReportingTypeOK, Ticks

LEMMA EndedTick ==
  ASSUME ReportingTypeOK, NEW c \in Coordinators, EndTick(c)
  PROVE  coord'[c] = Idle /\ coord'[c].at = "idle" /\ "idle" \notin Woken
BY DEF ReportingTypeOK, EndTick, Idle, Woken

\* The last of some places is the greatest of them.
LEMMA LastOfGreatest ==
  ASSUME NEW n \in Nat, NEW places \in SUBSET (1..n), n \in places
  PROVE  LastOf(places) = n
<1>1. \E i \in places : \A j \in places : j <= i
  OBVIOUS
<1>2. LastOf(places) \in places /\ \A j \in places : j <= LastOf(places)
  BY <1>1 DEF LastOf
<1>. HIDE DEF LastOf
<1>3. LastOf(places) \in 1..n /\ n <= LastOf(places)
  BY <1>2
<1>. QED
  BY <1>3

\* In a journal of one wake that is not settled the last event tells the tick which
\* attempt it is at.
LEMMA WhatNextCounts ==
  ASSUME ServiceInvariant, Unsettled, NEW key,
         \A i \in DOMAIN journal : journal[i].key = key,
         Spent <= ModelRetryLimit + 1,
         NEW next, next = WhatNext(Latest(key))
  PROVE  \/ next.at = "idle"
         \/ next.at = "submitting" /\ next.attempt = Spent + 1 /\ Spent <= ModelRetryLimit
         \/ next.at \in {"reconciling", "observing"} /\ next.attempt = Spent
<1>. DEFINE latest == Latest(key)
            n == Len(journal)
<1>1. journal \in Seq(Events) /\ Spent \in Nat /\ n \in Nat /\ ModelRetryLimit \in Nat
  BY SpentTyping, ReportingAssumption DEF ServiceInvariant, ReportingTypeOK
<1>2. DOMAIN journal = 1..n /\ EventsOf(key) = 1..n
  BY <1>1 DEF EventsOf
<1>3. CASE journal = <<>>
  <2>1. latest = None /\ Spent = 0
    BY <1>2, <1>3 DEF Latest, Spent
  <2>. QED
    BY <1>1, <2>1 DEF WhatNext, Submit, Do
<1>4. CASE journal # <<>>
  <2>1. n \in 1..n
    BY <1>1, <1>4
  <2>2. latest = journal[n]
    BY <1>1, <1>2, <2>1, LastOfGreatest DEF Latest
  <2>3. latest.attempt = Spent
    BY <1>4, <2>2 DEF Spent
  <2>4. latest \in Events /\ latest.key = key
    BY <1>1, <1>2, <2>1, <2>2
  <2>5. latest # None
    BY <2>4, NoEventAssumption
  <2>6. latest.status \in {"submitting", "submitted", "model_failed"}
    BY <1>2, <2>1, <2>2, <2>4 DEF Unsettled, Events, EventStatuses
  <2>. HIDE DEF latest
  <2>7. CASE latest.status = "submitting"
    BY <2>3, <2>5, <2>7 DEF WhatNext, Do, latest
  <2>8. CASE latest.status = "model_failed"
    <3>1. next = Retry(Spent)
      BY <2>3, <2>5, <2>8 DEF WhatNext, latest
    <3>. QED
      BY <1>1, <3>1 DEF Retry, Submit, Do
  <2>9. CASE latest.status = "submitted"
    <3>1. n \in Submissions(key) /\ Submissions(key) \in SUBSET (1..n)
      BY <1>2, <2>1, <2>2, <2>9 DEF Submissions
    <3>2. FindSubmission(key) = latest
      BY <1>1, <2>2, <3>1, LastOfGreatest DEF FindSubmission
    <3>3. next = Do("observing", latest.attempt, latest.turn)
      BY <2>4, <2>5, <2>9, <3>2 DEF WhatNext, latest
    <3>. QED
      BY <2>3, <3>3 DEF Do
  <2>. QED
    BY <2>6, <2>7, <2>8, <2>9
<1>. QED
  BY <1>3, <1>4


\* A tick that has read the record is not woken yet, or does not wake.
LEMMA ReadingCounts ==
  ASSUME AttemptsInvariant, NEW c \in Coordinators,
         Notice(c) \/ ReadTask(c) \/ PrepareRefused(c)
  PROVE  Counted(c)'
<1>. DEFINE attempt == Unpresented(task.wakeKey)
<1>1. ReportingTypeOK /\ coord \in [Coordinators -> Ticks]
  BY DEF AttemptsInvariant, ServiceInvariant, ReportingTypeOK
<1>2. CASE Notice(c)
  BY <1>1, <1>2, MovedTick, CountsStill DEF Notice, Woken
<1>3. CASE EndTick(c) /\ UNCHANGED <<journal, remote>>
  BY <1>1, <1>3, EndedTick, CountsStill
<1>4. ASSUME NEW r, r.at \in {"preparing", "presenting"},
             coord' = [coord EXCEPT ![c] = r], UNCHANGED <<journal, remote>>
      PROVE  Counted(c)'
  <2>1. coord'[c].at \notin Woken
    BY <1>1, <1>4 DEF Woken
  <2>. QED
    BY <1>4, <2>1, CountsStill
<1>. DEFINE toPrepare == [Idle EXCEPT !.at = "preparing", !.seen = task.revision,
                                      !.chan = channel]
            toPresent == [Idle EXCEPT !.at = "presenting", !.chan = channel,
                                      !.key = task.wakeKey, !.attempt = attempt]
<1>5. toPrepare.at = "preparing" /\ toPresent.at = "presenting"
  BY DEF Idle
<1>6. CASE ReadTask(c)
  <2>1. \/ coord' = [coord EXCEPT ![c] = toPrepare]
        \/ EndTick(c)
        \/ coord' = [coord EXCEPT ![c] = toPresent]
    BY <1>6 DEF ReadTask, EndTick
  <2>2. UNCHANGED <<journal, remote>>
    BY <1>6 DEF ReadTask
  <2>. HIDE DEF toPrepare, toPresent
  <2>. QED
    BY <1>3, <1>4, <1>5, <2>1, <2>2
<1>. QED
  BY <1>2, <1>3, <1>6 DEF PrepareRefused

\* While the task is open nothing in the journal is settled.
LEMMA OpenIsUnsettled ==
  ASSUME ServiceInvariant, task.status # "DONE"
  PROVE  Unsettled
BY DEF ServiceInvariant, CompletedIsDone, Unsettled

\* A tick that has prepared the wake: all events are of this wake.
LEMMA PrepareCounts ==
  ASSUME AttemptsInvariant, [ReportingNext]_reportingVars, NEW c \in Coordinators,
         Prepare(c)
  PROVE  Counted(c)'
<1>1. /\ ServiceInvariant /\ coord \in [Coordinators -> Ticks]
      /\ journal \in Seq(Events)
  BY DEF AttemptsInvariant, ServiceInvariant, ReportingTypeOK
<1>2. task.status = "REPORTING"
  BY DEF Prepare, CanPrepareWake
<1>3. /\ Unsettled
      /\ \A i \in DOMAIN journal : journal[i].key = task.wakeKey
  BY <1>1, <1>2, OpenIsUnsettled DEF AttemptsInvariant, Terminal
<1>4. journal # <<>> => task.wakeKey # None
  <2>. SUFFICES ASSUME journal # <<>> PROVE task.wakeKey # None
    OBVIOUS
  <2>1. Len(journal) \in DOMAIN journal /\ journal[Len(journal)] \in Events
    BY <1>1, SpentTyping, ElementOfSeq
  <2>2. journal[Len(journal)].key \in WakeKeys
    BY <2>1 DEF Events
  <2>. QED
    BY <1>3, <2>1, <2>2, NoneAssumption
<1>5. task.wakeKey # None => task' = task
  BY DEF Prepare, AfterPrepareWake
<1>6. journal' = journal /\ remote' = remote
  BY DEF Prepare
<1>7. /\ coord'[c].at = "prepared" /\ coord'[c].key = task'.wakeKey
      /\ "prepared" \in Woken
  BY <1>1 DEF Prepare, Ticks, Woken, Places
<1>8. /\ Spent' = Spent /\ (Unsettled' <=> Unsettled) /\ DOMAIN journal' = DOMAIN journal
      /\ \A i \in DOMAIN journal : journal'[i].key = task'.wakeKey
  <2>1. Spent' = Spent /\ (Unsettled' <=> Unsettled) /\ DOMAIN journal' = DOMAIN journal
    BY <1>6 DEF Spent, Unsettled
  <2>2. ASSUME NEW i \in DOMAIN journal PROVE journal'[i].key = task'.wakeKey
    <3>1. journal # <<>>
      BY <1>1
    <3>. QED
      BY <1>3, <1>4, <1>5, <1>6, <3>1
  <2>. QED
    BY <2>1, <2>2
<1>. QED
  BY <1>3, <1>6, <1>7, <1>8 DEF Counted, AttemptsInvariant, CountsAttempts

\* A tick that has read the journal knows which attempt it is at.
LEMMA ReadJournalCounts ==
  ASSUME AttemptsInvariant, NEW c \in Coordinators, ReadJournal(c)
  PROVE  Counted(c)'
<1>. DEFINE next == WhatNext(Latest(coord[c].key))
<1>1. /\ ServiceInvariant /\ ReportingTypeOK /\ coord \in [Coordinators -> Ticks]
      /\ coord[c] \in Ticks
  BY DEF AttemptsInvariant, ServiceInvariant, ReportingTypeOK
<1>2. coord[c].at = "prepared" /\ "prepared" \in Woken
  BY DEF ReadJournal, At, Woken, Places
<1>3. /\ Unsettled /\ Spent <= ModelRetryLimit + 1
      /\ \A i \in DOMAIN journal : journal[i].key = coord[c].key
  BY <1>2 DEF AttemptsInvariant, CountsAttempts
<1>4. \/ next.at = "idle"
      \/ next.at = "submitting" /\ next.attempt = Spent + 1 /\ Spent <= ModelRetryLimit
      \/ next.at \in {"reconciling", "observing"} /\ next.attempt = Spent
  BY <1>1, <1>3, WhatNextCounts
<1>5. journal' = journal /\ remote' = remote
  BY DEF ReadJournal
<1>6. coord' = [coord EXCEPT ![c] =
          IF next.at = "idle" THEN Idle
          ELSE [@ EXCEPT !.at = next.at, !.attempt = next.attempt, !.turn = next.turn]]
  BY DEF ReadJournal
<1>. HIDE DEF next
<1>7. CASE next.at = "idle"
  <2>1. EndTick(c)
    BY <1>6, <1>7 DEF EndTick
  <2>. QED
    BY <1>1, <1>5, <2>1, EndedTick, CountsStill
<1>8. CASE next.at # "idle"
  <2>1. /\ coord'[c].at = next.at /\ coord'[c].attempt = next.attempt
        /\ coord'[c].key = coord[c].key
    BY <1>1, <1>6, <1>8 DEF Ticks
  <2>2. Spent \in Nat /\ ModelRetryLimit \in Nat
    BY <1>1, SpentTyping, ReportingAssumption DEF ReportingTypeOK
  <2>3. coord'[c].at = "submitting" =>
          coord'[c].attempt = Spent + 1 /\ coord'[c].attempt <= ModelRetryLimit + 1
    BY <1>4, <2>1, <2>2
  <2>4. coord'[c].at \notin {"prepared", "submitting"} => coord'[c].attempt = Spent
    BY <1>4, <1>8, <2>1
  <2>5. coord'[c].at \notin {"calling", "checking"}
    BY <1>4, <1>8, <2>1
  <2>. QED
    BY <1>2, <1>5, <2>1, <2>3, <2>4, <2>5, CountsOn
<1>. QED
  BY <1>7, <1>8


\* What a tick holds where it writes.
LEMMA HeldByTick ==
  ASSUME AttemptsInvariant, NEW c \in Coordinators,
         coord[c].at \in Woken \cup {"presenting"}
  PROVE  /\ ServiceInvariant /\ ReportingTypeOK
         /\ coord[c].key \in WakeKeys /\ coord[c].attempt \in Nat /\ coord[c].turn \in Nat
         /\ Spent \in Nat /\ ModelRetryLimit \in Nat
         /\ coord[c].at \in Woken => Spent <= ModelRetryLimit + 1
<1>1. ServiceInvariant /\ ReportingTypeOK
  BY DEF AttemptsInvariant, ServiceInvariant
<1>2. Spent \in Nat /\ ModelRetryLimit \in Nat
  BY <1>1, SpentTyping, ReportingAssumption DEF ReportingTypeOK
<1>3. coord[c].at \in Woken => Spent <= ModelRetryLimit + 1
  BY DEF AttemptsInvariant, CountsAttempts
<1>. QED
  BY <1>1, <1>2, <1>3, KnownReceipt

\* The event a tick writes.
LEMMA EventWritten ==
  ASSUME NEW c \in Coordinators, coord[c].key \in WakeKeys,
         NEW status \in EventStatuses, NEW attempt \in Nat, NEW t \in Nat,
         Record(c, status, attempt, t)
  PROVE  \E e \in Events : /\ journal' = Append(journal, e)
                           /\ e.key = coord[c].key /\ e.status = status
                           /\ e.attempt = attempt /\ e.turn = t
<1>. DEFINE e == [key |-> coord[c].key, status |-> status, attempt |-> attempt, turn |-> t]
<1>1. e \in Events
  BY DEF Events
<1>. QED
  BY <1>1 DEF Record

\* An attempt is announced.
LEMMA AnnounceCounts ==
  ASSUME AttemptsInvariant, NEW c \in Coordinators, Announce(c)
  PROVE  Counted(c)'
<1>1. coord[c].at = "submitting" /\ coord[c].at \in Woken
  BY DEF Announce, At, Woken, Places
<1>2. coord[c].attempt = Spent + 1 /\ coord[c].attempt <= ModelRetryLimit + 1
  BY <1>1 DEF AttemptsInvariant, CountsAttempts
<1>3. "submitting" \in EventStatuses
  BY DEF EventStatuses
<1>4. PICK e \in Events : /\ journal' = Append(journal, e)
                          /\ e.key = coord[c].key /\ e.status = "submitting"
                          /\ e.attempt = coord[c].attempt
  BY <1>1, <1>3, HeldByTick, EventWritten DEF Announce
<1>5. /\ coord'[c].at = "calling" /\ coord'[c].key = coord[c].key
      /\ coord'[c].attempt = coord[c].attempt
  BY <1>1, HeldByTick, MovedTick DEF Announce
<1>6. remote' = remote /\ Spent < e.attempt /\ Spent <= e.attempt
  BY <1>1, <1>2, <1>4, HeldByTick DEF Announce
<1>. QED
  BY <1>1, <1>2, <1>4, <1>5, <1>6, CountsEvent

\* A turn starts for an attempt announced before it.
LEMMA StartCounts ==
  ASSUME AttemptsInvariant, NEW c \in Coordinators, StartTurn(c) \/ StartLateTurn(c)
  PROVE  Counted(c)'
<1>1. coord[c].at = "calling" /\ coord[c].at \in Woken
  BY DEF StartTurn, StartLateTurn, At, Woken, Places
<1>2. PICK place \in {"called", "waiting"} :
        coord' = [coord EXCEPT ![c].at = place, ![c].turn = Len(remote) + 1]
  BY DEF StartTurn, StartLateTurn
<1>3. /\ coord'[c].at = place /\ coord'[c].key = coord[c].key
      /\ coord'[c].attempt = coord[c].attempt
  BY <1>1, <1>2, HeldByTick, TurnedTick
<1>4. PICK new : remote' = Append(remote, new)
  BY DEF StartTurn, StartLateTurn, NewTurn
<1>5. Len(remote') = Len(remote) + 1 /\ journal' = journal
  BY <1>1, <1>4, HeldByTick DEF ReportingTypeOK, StartTurn, StartLateTurn
<1>. QED
  BY <1>1, <1>3, <1>5, CountsTurn

\* A tick that goes on without writing, or ends.
LEMMA PassingCounts ==
  ASSUME AttemptsInvariant, NEW c \in Coordinators,
         TurnReturns(c) \/ PhaseSubmitted(c) \/ PhaseReconciled(c) \/ PhaseActive(c)
  PROVE  Counted(c)'
<1>1. coord[c].at \in {"waiting", "phasing", "rephasing", "activating"}
  BY DEF TurnReturns, PhaseSubmitted, PhaseReconciled, PhaseActive, SetPhase, At
<1>2. coord[c].at \in Woken \ {"prepared", "submitting"}
  BY <1>1 DEF Woken, Places
<1>3. coord[c].attempt = Spent
  BY <1>2 DEF AttemptsInvariant, CountsAttempts
<1>4. journal' = journal /\ remote' = remote
  BY DEF TurnReturns, PhaseSubmitted, PhaseReconciled, PhaseActive, SetPhase
<1>5. EndTick(c) \/ \E place \in {"called", "observing"} : Move(c, place)
  BY DEF TurnReturns, PhaseSubmitted, PhaseReconciled, PhaseActive, SetPhase
<1>6. CASE EndTick(c)
  BY <1>2, <1>4, <1>6, HeldByTick, EndedTick, CountsStill
<1>7. ASSUME NEW place \in {"called", "observing"}, Move(c, place)
      PROVE  Counted(c)'
  <2>1. /\ coord'[c].at = place /\ coord'[c].key = coord[c].key
        /\ coord'[c].attempt = coord[c].attempt
    BY <1>2, <1>7, HeldByTick, MovedTick
  <2>. QED
    BY <1>2, <1>3, <1>4, <2>1, CountsOn
<1>. QED
  BY <1>5, <1>6, <1>7

\* The receipt is written for the attempt that was announced.
LEMMA ReceiptCounts ==
  ASSUME AttemptsInvariant, NEW c \in Coordinators, RecordReceipt(c)
  PROVE  Counted(c)'
<1>1. coord[c].at \in Woken \ {"prepared", "submitting"}
  BY DEF RecordReceipt, At, Woken, Places
<1>2. coord[c].attempt = Spent
  BY <1>1 DEF AttemptsInvariant, CountsAttempts
<1>3. "submitted" \in EventStatuses
  BY DEF EventStatuses
<1>4. PICK e \in Events : /\ journal' = Append(journal, e)
                          /\ e.key = coord[c].key /\ e.status = "submitted"
                          /\ e.attempt = coord[c].attempt
  BY <1>1, <1>3, HeldByTick, EventWritten DEF RecordReceipt
<1>5. /\ coord'[c].at = IF coord[c].attempt = 1 THEN "checking" ELSE "phasing"
      /\ coord'[c].key = coord[c].key /\ coord'[c].attempt = coord[c].attempt
  BY <1>1, HeldByTick, MovedTick DEF RecordReceipt
<1>6. /\ remote' = remote /\ Spent <= e.attempt /\ e.attempt <= ModelRetryLimit + 1
  BY <1>1, <1>2, <1>4, HeldByTick DEF RecordReceipt
<1>. QED
  BY <1>1, <1>4, <1>5, <1>6, CountsEvent

\* The record is looked at after a first submission only.
LEMMA CheckDoneCounts ==
  ASSUME AttemptsInvariant, NEW c \in Coordinators, CheckDone(c)
  PROVE  Counted(c)'
<1>1. coord[c].at = "checking" /\ coord[c].at \in Woken
  BY DEF CheckDone, At, Woken, Places
<1>2. coord[c].attempt = Spent /\ coord[c].attempt = 1
  BY <1>1 DEF AttemptsInvariant, CountsAttempts
<1>3. PICK place \in {"presenting", "phasing"}, first \in {1} :
        coord' = [coord EXCEPT ![c].at = place, ![c].attempt = first]
  BY DEF CheckDone
<1>4. coord'[c].at = place /\ coord'[c].key = coord[c].key /\ coord'[c].attempt = 1
  <2>1. ReportingTypeOK
    BY <1>1, HeldByTick
  <2>2. coord'[c].at = place /\ coord'[c].key = coord[c].key /\ coord'[c].attempt = first
    BY <1>3, <2>1 DEF ReportingTypeOK, Ticks
  <2>. QED
    BY <2>2
<1>5. journal' = journal /\ remote' = remote
  BY DEF CheckDone
<1>. QED
  BY <1>1, <1>2, <1>4, <1>5, CountsOn


\* A receipt found in the conversation is written for the attempt last announced.
LEMMA ReconcileCounts ==
  ASSUME AttemptsInvariant, NEW c \in Coordinators, Reconcile(c)
  PROVE  Counted(c)'
<1>1. coord[c].at \in Woken \ {"prepared", "submitting"}
  BY DEF Reconcile, At, Woken, Places
<1>2. CASE TurnsFound(c) = {}
  BY <1>1, <1>2, HeldByTick, EndedTick, CountsStill DEF Reconcile
<1>3. CASE TurnsFound(c) # {}
  <2>1. PICK t : /\ t = LastOf(TurnsFound(c))
                 /\ Record(c, "submitted", coord[c].attempt, t)
                 /\ coord' = [coord EXCEPT ![c].at = "rephasing", ![c].turn = t]
    BY <1>3 DEF Reconcile
  <2>2. t \in Nat /\ "submitted" \in EventStatuses
    BY <1>1, <1>3, <2>1, HeldByTick, FoundTurn DEF EventStatuses
  <2>3. PICK e \in Events : /\ journal' = Append(journal, e)
                            /\ e.key = coord[c].key /\ e.status = "submitted"
                            /\ e.attempt = coord[c].attempt
    BY <1>1, <2>1, <2>2, HeldByTick, EventWritten
  <2>4. PICK place \in {"rephasing"} : coord' = [coord EXCEPT ![c].at = place, ![c].turn = t]
    BY <2>1
  <2>5. /\ coord'[c].at = "rephasing" /\ coord'[c].key = coord[c].key
        /\ coord'[c].attempt = coord[c].attempt
    BY <1>1, <2>4, HeldByTick, TurnedTick
  <2>6. coord[c].attempt = Spent
    BY <1>1 DEF AttemptsInvariant, CountsAttempts
  <2>7. /\ remote' = remote /\ Spent <= e.attempt /\ e.attempt <= ModelRetryLimit + 1
    BY <1>1, <2>3, <2>6, HeldByTick DEF Reconcile
  <2>. QED
    BY <1>1, <2>3, <2>5, <2>7, CountsEvent
<1>. QED
  BY <1>2, <1>3

\* A tick that writes that its turn failed, and ends.
LEMMA FailureCounts ==
  ASSUME AttemptsInvariant, NEW c \in Coordinators,
         coord[c].at \in {"observing", "settling"}, remote' = remote,
         Record(c, "model_failed", coord[c].attempt, coord[c].turn), EndTick(c)
  PROVE  Counted(c)'
<1>1. coord[c].at \in Woken \ {"prepared", "submitting"}
  BY DEF Woken, Places
<1>2. "model_failed" \in EventStatuses
  BY DEF EventStatuses
<1>3. PICK e \in Events : /\ journal' = Append(journal, e)
                          /\ e.key = coord[c].key /\ e.attempt = coord[c].attempt
  BY <1>1, <1>2, HeldByTick, EventWritten
<1>4. coord[c].attempt = Spent
  BY <1>1 DEF AttemptsInvariant, CountsAttempts
<1>5. Spent <= e.attempt /\ e.attempt <= ModelRetryLimit + 1
  BY <1>1, <1>3, <1>4, HeldByTick
<1>6. coord'[c].at = "idle" /\ "idle" \notin Woken
  BY <1>1, HeldByTick, EndedTick
<1>. QED
  BY <1>1, <1>3, <1>5, <1>6, CountsEvent

\* A tick that writes that the report is done, or presented.
LEMMA DoneCounts ==
  ASSUME AttemptsInvariant, NEW c \in Coordinators,
         coord[c].at \in Woken \cup {"presenting"}, remote' = remote,
         NEW status \in {"model_completed", "presented", "presentation_failed"},
         NEW t \in Nat, Record(c, status, coord[c].attempt, t),
         coord'[c].at \notin Woken
  PROVE  Counted(c)'
<1>1. status \in EventStatuses
  BY DEF EventStatuses
<1>2. PICK e \in Events : journal' = Append(journal, e) /\ e.status = status
  BY <1>1, HeldByTick, EventWritten
<1>. QED
  BY <1>2, CountsSettled

LEMMA ObserveCounts ==
  ASSUME AttemptsInvariant, NEW c \in Coordinators, Observe(c)
  PROVE  Counted(c)'
<1>1. coord[c].at = "observing" /\ coord[c].at \in Woken \ {"prepared", "submitting"}
  BY DEF Observe, At, Woken, Places
<1>2. coord[c].attempt = Spent
  BY <1>1 DEF AttemptsInvariant, CountsAttempts
<1>3. remote' = remote
  BY DEF Observe
<1>4. CASE journal' = journal /\ EndTick(c)
  BY <1>1, <1>3, <1>4, HeldByTick, EndedTick, CountsStill
<1>5. ASSUME journal' = journal, NEW place \in {"settling", "activating"}, Move(c, place)
      PROVE  Counted(c)'
  <2>1. /\ coord'[c].at = place /\ coord'[c].key = coord[c].key
        /\ coord'[c].attempt = coord[c].attempt
    BY <1>1, <1>5, HeldByTick, MovedTick
  <2>. QED
    BY <1>1, <1>2, <1>3, <1>5, <2>1, CountsOn
<1>6. CASE Record(c, "model_failed", coord[c].attempt, coord[c].turn) /\ EndTick(c)
  BY <1>1, <1>3, <1>6, FailureCounts
<1>. QED
  BY <1>4, <1>5, <1>6 DEF Observe

LEMMA SettleCounts ==
  ASSUME AttemptsInvariant, NEW c \in Coordinators, Settle(c)
  PROVE  Counted(c)'
<1>1. coord[c].at = "settling" /\ coord[c].at \in Woken
  BY DEF Settle, At, Woken, Places
<1>2. remote' = remote
  BY DEF Settle
<1>3. CASE task.status = "DONE"
  <2>1. PICK place \in {"presenting"}, first \in {1} :
          coord' = [coord EXCEPT ![c].at = place, ![c].attempt = first]
    BY <1>3 DEF Settle
  <2>2. coord'[c].at \notin Woken
    BY <1>1, <2>1, HeldByTick, AttemptedTick DEF Woken
  <2>3. Record(c, "model_completed", coord[c].attempt, coord[c].turn)
    BY <1>3 DEF Settle
  <2>. QED
    BY <1>1, <1>2, <2>2, <2>3, HeldByTick, DoneCounts
<1>4. CASE task.status # "DONE"
  BY <1>1, <1>2, <1>4, FailureCounts DEF Settle
<1>. QED
  BY <1>3, <1>4

LEMMA PresentCounts ==
  ASSUME AttemptsInvariant, NEW c \in Coordinators, Present(c) \/ PresentFails(c)
  PROVE  Counted(c)'
<1>1. coord[c].at \in Woken \cup {"presenting"} /\ remote' = remote /\ EndTick(c)
  BY DEF Present, PresentFails, At
<1>2. coord'[c].at \notin Woken
  BY <1>1, HeldByTick, EndedTick
<1>3. PICK status \in {"presented", "presentation_failed"}, t \in {0} :
        Record(c, status, coord[c].attempt, t)
  BY DEF Present, PresentFails
<1>. QED
  BY <1>1, <1>2, <1>3, DoneCounts

\* Every step of a tick.
LEMMA TickCounts ==
  ASSUME AttemptsInvariant, [ReportingNext]_reportingVars, NEW c \in Coordinators,
         TickStep(c) \/ TickFault(c)
  PROVE  Counted(c)'
<1>1. CASE SubmitRefused(c) \/ AnswerLost(c) \/ TickAborts(c)
  <2>1. EndTick(c) /\ journal' = journal /\ remote' = remote
    BY <1>1 DEF SubmitRefused, AnswerLost, TickAborts
  <2>2. ReportingTypeOK
    BY DEF AttemptsInvariant, ServiceInvariant
  <2>. QED
    BY <2>1, <2>2, EndedTick, CountsStill
<1>. QED
  BY <1>1, ReadingCounts, PrepareCounts, ReadJournalCounts, AnnounceCounts, StartCounts,
     PassingCounts, ReceiptCounts, CheckDoneCounts, ReconcileCounts, ObserveCounts,
     SettleCounts, PresentCounts DEF TickStep, TickFault

\* A step of somebody else.
LEMMA OthersCount ==
  ASSUME AttemptsInvariant, NEW c \in Coordinators,
         UNCHANGED <<coord, journal>>, Len(remote') = Len(remote)
  PROVE  Counted(c)'
BY CountsStill

\* Turns that end or appear are as many as before.
LEMMA TurnsStay ==
  ASSUME ReportingTypeOK, NEW t \in DOMAIN remote, TurnEnds(t) \/ TurnAppears(t)
  PROVE  Len(remote') = Len(remote)
<1>1. PICK state : remote' = [remote EXCEPT ![t].state = state]
  BY DEF TurnEnds, TurnAppears
<1>. QED
  BY <1>1 DEF ReportingTypeOK

\* With one Runner every step keeps the count.
LEMMA StepAttempts ==
  ASSUME \A c, d \in Coordinators : c = d,
         AttemptsInvariant, [ReportingNext]_reportingVars
  PROVE  AttemptsInvariant'
<1>1. ServiceInvariant /\ ServiceInvariant' /\ ReportingTypeOK
  BY StepService DEF AttemptsInvariant, ServiceInvariant
<1>2. task'.status \notin Terminal =>
        \A i \in DOMAIN journal' : journal'[i].key = task'.wakeKey
  BY <1>1, StepJournalKeys DEF AttemptsInvariant
<1>3. CASE \E c \in Coordinators : Counted(c)'
  BY <1>1, <1>2, <1>3 DEF AttemptsInvariant, Counted
<1>. DEFINE Rest == /\ UNCHANGED <<coord, journal>>
                    /\ Len(remote') = Len(remote)
<1>4. ASSUME NEW c \in Coordinators, TickStep(c) \/ TickFault(c)
      PROVE  AttemptsInvariant'
  BY <1>3, <1>4, TickCounts
<1>5. CASE Rest
  <2>1. CASE Coordinators = {}
    <3>1. /\ Spent' = Spent /\ (Unsettled' <=> Unsettled) /\ Len(remote') = Len(remote)
      BY <1>5 DEF Spent, Unsettled
    <3>. QED
      BY <1>1, <1>2, <2>1, <3>1 DEF AttemptsInvariant
  <2>. QED
    BY <1>3, <1>5, <2>1, OthersCount
<1>6. ASSUME NEW t \in DOMAIN remote, TurnReports(t) \/ TurnEnds(t) \/ TurnAppears(t)
      PROVE  Rest
  BY <1>1, <1>6, TurnsStay DEF TurnReports, TurnEnds, TurnAppears
<1>7. CASE ForegroundReports \/ UserActs \/ RebindChannel \/ HelperDies
  BY <1>5, <1>7 DEF ForegroundReports, UserActs, RebindChannel, HelperDies
<1>8. ASSUME NEW to \in Planners, NEW conv \in Conversations, ReplacePlanner(to, conv)
      PROVE  Rest
  BY <1>8 DEF ReplacePlanner
<1>9. CASE UNCHANGED reportingVars
  BY <1>5, <1>9 DEF reportingVars
<1>. HIDE DEF Rest
<1>. QED
  BY <1>4, <1>5, <1>6, <1>7, <1>8, <1>9 DEF ReportingNext


LEMMA InitAttempts == ReportingInit => AttemptsInvariant
<1>. SUFFICES ASSUME ReportingInit PROVE AttemptsInvariant
  OBVIOUS
<1>1. ServiceInvariant /\ ModelRetryLimit \in Nat
  BY InitService, ReportingAssumption
<1>2. journal = <<>> /\ remote = <<>> /\ DOMAIN journal = {} /\ Len(remote) = 0
  BY DEF ReportingInit
<1>3. Spent = 0
  BY <1>2 DEF Spent
<1>4. \A c \in Coordinators : coord[c].at = "idle" /\ "idle" \notin Woken
  BY DEF ReportingInit, Idle, Woken
<1>5. \A c \in Coordinators : CountsAttempts(c)
  BY <1>4 DEF CountsAttempts, Woken, Places
<1>. QED
  BY <1>1, <1>2, <1>3, <1>5 DEF AttemptsInvariant

\* A count of all turns bounds the count of those of one wake.
LEMMA CountedTurns ==
  ASSUME AttemptsInvariant, NEW key
  PROVE  Cardinality({t \in DOMAIN remote : remote[t].key = key}) <= ModelRetryLimit + 1
<1>. DEFINE ofKey == {t \in DOMAIN remote : remote[t].key = key}
<1>1. /\ Len(remote) \in Nat /\ DOMAIN remote = 1..Len(remote)
      /\ ModelRetryLimit \in Nat /\ Len(remote) <= ModelRetryLimit + 1
  BY ReportingAssumption DEF AttemptsInvariant, ServiceInvariant, ReportingTypeOK
<1>2. IsFiniteSet(1..Len(remote)) /\ Cardinality(1..Len(remote)) = Len(remote)
  <2>1. ASSUME NEW n \in Nat PROVE IsFiniteSet(1..n) /\ Cardinality(1..n) = n
    <3>1. /\ IsFiniteSet(1..n)
          /\ Cardinality(1..n) = IF 1 > n THEN 0 ELSE n - 1 + 1
      BY FS_Interval
    <3>2. (IF 1 > n THEN 0 ELSE n - 1 + 1) = n
      OBVIOUS
    <3>. QED
      BY <3>1, <3>2
  <2>. QED
    BY <1>1, <2>1
<1>3. ofKey \subseteq 1..Len(remote)
  BY <1>1
<1>. HIDE DEF ofKey
<1>4. Cardinality(ofKey) <= Len(remote) /\ Cardinality(ofKey) \in Nat
  BY <1>2, <1>3, FS_Subset, FS_CardinalityType
<1>. QED
  BY <1>1, <1>4 DEF ofKey

\* Where one Runner serves the project a wake costs at most one turn and the
\* retries of the policy, whatever fails and however often the Runner restarts,
\* on any tools and with any replacements (wake_store.py, model_retry_limit).
THEOREM AttemptSafety ==
  ASSUME \A c, d \in Coordinators : c = d
  PROVE  ReportingSpec => []AttemptsWithinLimit
<1>1. AttemptsInvariant => AttemptsWithinLimit
  BY CountedTurns DEF AttemptsWithinLimit
<1>2. AttemptsInvariant /\ [ReportingNext]_reportingVars => AttemptsInvariant'
  BY StepAttempts
<1>. QED
  BY <1>1, <1>2, InitAttempts, PTL DEF ReportingSpec


---------------------------------------------------------------------------
(* One Runner, one tool for all Planners and at most one retry: one turn.  *)

\* A turn that has started stays, in the conversation of its Planner, and once it
\* is over it is over.
LEMMA TurnLasts ==
  ASSUME ServiceInvariant, [ReportingNext]_reportingVars, NEW t \in DOMAIN remote
  PROVE  /\ t \in DOMAIN remote'
         /\ remote'[t].who = remote[t].who
         /\ Live(t) \/ remote'[t].state \notin {"hidden", "running"}
<1>. DEFINE Goal == /\ t \in DOMAIN remote'
                    /\ remote'[t].who = remote[t].who
                    /\ Live(t) \/ remote'[t].state \notin {"hidden", "running"}
<1>1. remote \in Seq(RemoteTurns)
  BY DEF ServiceInvariant, ReportingTypeOK
<1>2. CASE UNCHANGED remote
  BY <1>2 DEF Live
<1>3. ASSUME NEW new, remote' = Append(remote, new) PROVE Goal
  <2>1. t \in DOMAIN remote' /\ remote'[t] = remote[t]
    BY <1>1, <1>3
  <2>. QED
    BY <2>1 DEF Live
<1>4. ASSUME NEW u \in DOMAIN remote, NEW state, Live(u),
             remote' = [remote EXCEPT ![u].state = state]
      PROVE  Goal
  <2>1. remote[t] \in RemoteTurns /\ DOMAIN remote' = DOMAIN remote
    BY <1>1, <1>4
  <2>2. remote'[t] = IF t = u THEN [remote[t] EXCEPT !.state = state] ELSE remote[t]
    BY <1>4
  <2>3. [remote[t] EXCEPT !.state = state].who = remote[t].who
    BY <2>1 DEF RemoteTurns
  <2>. QED
    BY <1>4, <2>1, <2>2, <2>3 DEF Live
<1>5. ASSUME NEW c \in Coordinators, StartTurn(c) \/ StartLateTurn(c) PROVE Goal
  BY <1>3, <1>5 DEF StartTurn, StartLateTurn, NewTurn
<1>6. ASSUME NEW c \in Coordinators, TickStep(c) \/ TickFault(c),
             ~ (StartTurn(c) \/ StartLateTurn(c))
      PROVE  UNCHANGED remote
  BY <1>6 DEF TickStep, TickFault, Notice, ReadTask, Prepare, PrepareRefused,
     ReadJournal, Announce, TurnReturns, RecordReceipt, CheckDone, PhaseSubmitted,
     PhaseReconciled, PhaseActive, SetPhase, Reconcile, Observe, Settle, Present,
     SubmitRefused, AnswerLost, PresentFails, TickAborts
<1>7. ASSUME NEW u \in DOMAIN remote, TurnReports(u) PROVE UNCHANGED remote
  BY <1>7 DEF TurnReports
<1>8. ASSUME NEW u \in DOMAIN remote, TurnEnds(u) \/ TurnAppears(u) PROVE Goal
  BY <1>4, <1>8 DEF TurnEnds, TurnAppears, Live
<1>9. CASE ForegroundReports \/ UserActs \/ RebindChannel \/ HelperDies
  BY <1>2, <1>9 DEF ForegroundReports, UserActs, RebindChannel, HelperDies
<1>10. ASSUME NEW to \in Planners, NEW conv \in Conversations, ReplacePlanner(to, conv)
       PROVE  UNCHANGED remote
  BY <1>10 DEF ReplacePlanner
<1>. QED
  BY <1>2, <1>5, <1>6, <1>7, <1>8, <1>9, <1>10 DEF ReportingNext, reportingVars

\* What IsReceipted says of a turn after the step.
Covered(t) ==
  /\ t \in DOMAIN remote'
  /\ SameTool /\ ToolOf[remote'[t].who] = "cli" => remote'[t].state \notin {"hidden", "running"}

LEMMA ReceiptLasts ==
  ASSUME ServiceInvariant, [ReportingNext]_reportingVars, NEW t, IsReceipted(t)
  PROVE  Covered(t)
BY TurnLasts DEF IsReceipted, IsOver, Covered

\* A failed attempt stays on record.
LEMMA FailureLasts ==
  ASSUME ServiceInvariant, [ReportingNext]_reportingVars, FailedOnce
  PROVE  FailedOnce'
BY StepJournalTyping DEF FailedOnce, JournalGrows

\* A channel names the tool of its Planner.
LEMMA StepTools ==
  ASSUME OneTurnInvariant, [ReportingNext]_reportingVars
  PROVE  /\ channel'.tool = ToolOf[channel'.who]
         /\ rebinding' # None => rebinding'.tool = ToolOf[rebinding'.who]
<1>. DEFINE Goal == /\ channel'.tool = ToolOf[channel'.who]
                    /\ rebinding' # None => rebinding'.tool = ToolOf[rebinding'.who]
<1>1. CASE UNCHANGED outside
  BY <1>1 DEF OneTurnInvariant, outside
<1>2. ASSUME NEW c \in Coordinators, TickStep(c) PROVE UNCHANGED outside
  BY <1>2 DEF TickStep, Notice, ReadTask, Prepare, PrepareRefused,
     ReadJournal, Announce, StartTurn, TurnReturns, RecordReceipt, CheckDone,
     PhaseSubmitted, PhaseReconciled, PhaseActive, SetPhase, Reconcile, Observe,
     Settle, Present, outside
<1>3. ASSUME NEW c \in Coordinators, TickFault(c) PROVE UNCHANGED outside
  BY <1>3 DEF TickFault, StartLateTurn, SubmitRefused, AnswerLost, PresentFails,
     TickAborts, outside
<1>4. ASSUME NEW t \in DOMAIN remote, TurnReports(t) \/ TurnEnds(t) \/ TurnAppears(t)
      PROVE  UNCHANGED outside
  BY <1>4 DEF TurnReports, TurnEnds, TurnAppears, outside
<1>5. CASE ForegroundReports \/ UserActs
  BY <1>1, <1>5 DEF ForegroundReports, UserActs, outside
<1>6. CASE RebindChannel \/ HelperDies
  BY <1>6 DEF RebindChannel, HelperDies, OneTurnInvariant
<1>7. ASSUME NEW to \in Planners, NEW conv \in Conversations, ReplacePlanner(to, conv)
      PROVE  Goal
  BY <1>7 DEF ReplacePlanner, ChannelOf, OneTurnInvariant
<1>. QED
  BY <1>1, <1>2, <1>3, <1>4, <1>5, <1>6, <1>7 DEF ReportingNext, reportingVars

\* A tick at an attempt after the first knows that an earlier one has failed.
LEMMA LaterAttempt ==
  ASSUME OneTurnInvariant, NEW c \in Coordinators, coord[c].at \in Woken \ {"prepared"},
         coord[c].attempt > 1
  PROVE  FailedOnce
<1>1. CASE coord[c].at = "submitting"
  BY <1>1 DEF OneTurnInvariant, KnowsTurn
<1>2. CASE coord[c].at # "submitting"
  <2>1. Unsettled /\ coord[c].attempt = Spent
    BY <1>2 DEF OneTurnInvariant, AttemptsInvariant, CountsAttempts
  <2>. QED
    BY <2>1 DEF OneTurnInvariant
<1>. QED
  BY <1>1, <1>2

\* Turns and channels are of the one tool there is.
LEMMA OneTool ==
  ASSUME SameTool, OneTurnInvariant, NEW c \in Coordinators,
         coord[c].at \in Woken, NEW t \in DOMAIN remote
  PROVE  ToolOf[remote[t].who] = coord[c].chan.tool /\ coord[c].chan.tool \in Tools
<1>1. remote \in Seq(RemoteTurns)
  BY DEF OneTurnInvariant, AttemptsInvariant, ServiceInvariant, ReportingTypeOK
<1>2. remote[t] \in RemoteTurns
  BY <1>1
<1>3. coord[c].chan \in Channels
  BY DEF OneTurnInvariant, AttemptsInvariant, ServiceInvariant, Knows
<1>4. coord[c].chan.tool = ToolOf[coord[c].chan.who]
  BY DEF OneTurnInvariant, KnowsTurn
<1>5. remote[t].who \in Planners /\ coord[c].chan.who \in Planners
  BY <1>2, <1>3 DEF RemoteTurns, Channels
<1>. QED
  BY <1>3, <1>4, <1>5 DEF SameTool, Channels


\* What the events that a tick writes tell of its turn.
Tells(e) ==
  /\ e.status = "submitted" => IsReceipted(e.turn)
  /\ e.status = "model_failed" => e.turn \in DOMAIN remote /\ IsOver(e.turn)
  /\ e.status \in {"submitting", "submitted", "model_failed"} /\ e.attempt > 1 => FailedOnce

\* What observe answers is so with one tool: a turn called finished is over.
LEMMA ObservedIsOver ==
  ASSUME OneTurnInvariant, NEW c \in Coordinators, coord[c].at = "observing",
         Observed(c) \in {"completed", "failed"}
  PROVE  coord[c].turn \in DOMAIN remote /\ IsOver(coord[c].turn)
<1>1. IsReceipted(coord[c].turn) /\ coord[c].at \in Woken
  BY DEF OneTurnInvariant, KnowsTurn, Woken, Places
<1>2. ASSUME SameTool PROVE ~Live(coord[c].turn)
  <2>1. /\ ToolOf[remote[coord[c].turn].who] = coord[c].chan.tool
        /\ coord[c].chan.tool \in Tools
    BY <1>1, <1>2, OneTool DEF IsReceipted
  <2>2. CASE coord[c].chan.tool = "codex"
    BY <1>1, <2>2 DEF Observed, Live, IsReceipted
  <2>3. CASE coord[c].chan.tool # "codex"
    BY <1>1, <1>2, <2>1, <2>3 DEF IsReceipted, IsOver, Tools
  <2>. QED
    BY <2>2, <2>3
<1>. QED
  BY <1>1, <1>2 DEF IsReceipted, IsOver

\* A turn found in the conversation is one of Codex, as all are with one tool.
LEMMA FoundIsReceipted ==
  ASSUME OneTurnInvariant, NEW c \in Coordinators, coord[c].at \in Woken,
         TurnsFound(c) # {}
  PROVE  IsReceipted(LastOf(TurnsFound(c))) /\ LastOf(TurnsFound(c)) \in Nat
<1>1. PICK t : t = LastOf(TurnsFound(c))
  OBVIOUS
<1>2. t \in TurnsFound(c) /\ t \in Nat
  BY <1>1, FoundTurn DEF OneTurnInvariant, AttemptsInvariant, ServiceInvariant
<1>3. t \in DOMAIN remote /\ coord[c].chan.tool = "codex"
  BY <1>2 DEF TurnsFound
<1>4. SameTool => ToolOf[remote[t].who] = coord[c].chan.tool
  BY <1>3, OneTool
<1>. QED
  BY <1>1, <1>2, <1>3, <1>4 DEF IsReceipted, IsOver

\* The event a tick writes, with its turn and its attempt.
LEMMA ToldEvent ==
  ASSUME OneTurnInvariant, NEW c \in Coordinators,
         coord[c].at \in (Woken \ {"prepared"}) \cup {"presenting"},
         NEW status \in EventStatuses, NEW t \in Nat,
         status \in {"submitting", "submitted", "model_failed"} => coord[c].at \in Woken,
         Record(c, status, coord[c].attempt, t),
         status = "submitted" => IsReceipted(t),
         status = "model_failed" => t \in DOMAIN remote /\ IsOver(t)
  PROVE  \E e \in Events : Tells(e) /\ journal' = Append(journal, e)
<1>1. coord[c].key \in WakeKeys /\ coord[c].attempt \in Nat
  BY HeldByTick DEF OneTurnInvariant
<1>2. PICK e \in Events : /\ journal' = Append(journal, e)
                          /\ e.key = coord[c].key /\ e.status = status
                          /\ e.attempt = coord[c].attempt /\ e.turn = t
  BY <1>1, EventWritten
<1>3. status \in {"submitting", "submitted", "model_failed"} /\ e.attempt > 1 => FailedOnce
  BY <1>2, LaterAttempt DEF Woken
<1>4. Tells(e)
  BY <1>2, <1>3 DEF Tells
<1>. QED
  BY <1>2, <1>4

\* Every step leaves the journal alone, or appends what is so of the turns, which it
\* leaves alone.
LEMMA StepEvents ==
  ASSUME OneTurnInvariant, [ReportingNext]_reportingVars
  PROVE  \/ journal' = journal
         \/ \E e \in Events : Tells(e) /\ journal' = Append(journal, e) /\ remote' = remote
<1>. DEFINE Goal == \E e \in Events : Tells(e) /\ journal' = Append(journal, e)
<1>1. ASSUME NEW c \in Coordinators, Announce(c) PROVE Goal
  <2>1. coord[c].at \in Woken \ {"prepared"} /\ "submitting" \in EventStatuses
    BY <1>1 DEF Announce, At, Woken, Places, EventStatuses
  <2>. QED
    BY <1>1, <2>1, ToldEvent DEF Announce
<1>2. ASSUME NEW c \in Coordinators, RecordReceipt(c) PROVE Goal
  <2>1. coord[c].at \in Woken \ {"prepared"} /\ "submitted" \in EventStatuses
    BY <1>2 DEF RecordReceipt, At, Woken, Places, EventStatuses
  <2>2. IsReceipted(coord[c].turn)
    BY <1>2 DEF RecordReceipt, At, OneTurnInvariant, KnowsTurn
  <2>3. coord[c].turn \in Nat
    BY <2>1, HeldByTick DEF OneTurnInvariant
  <2>. QED
    BY <1>2, <2>1, <2>2, <2>3, ToldEvent DEF RecordReceipt
<1>3. ASSUME NEW c \in Coordinators, Reconcile(c), TurnsFound(c) # {} PROVE Goal
  <2>1. coord[c].at \in Woken \ {"prepared"} /\ "submitted" \in EventStatuses
    BY <1>3 DEF Reconcile, At, Woken, Places, EventStatuses
  <2>2. PICK t : t = LastOf(TurnsFound(c)) /\ Record(c, "submitted", coord[c].attempt, t)
    BY <1>3 DEF Reconcile
  <2>3. IsReceipted(t) /\ t \in Nat
    BY <1>3, <2>1, <2>2, FoundIsReceipted
  <2>. QED
    BY <2>1, <2>2, <2>3, ToldEvent
<1>4. ASSUME NEW c \in Coordinators, Observe(c) PROVE journal' = journal \/ Goal
  <2>1. /\ coord[c].at = "observing" /\ coord[c].at \in Woken \ {"prepared"}
        /\ "model_failed" \in EventStatuses
    BY <1>4 DEF Observe, At, Woken, Places, EventStatuses
  <2>2. CASE /\ Observed(c) = "failed"
             /\ Record(c, "model_failed", coord[c].attempt, coord[c].turn)
    <3>1. coord[c].turn \in DOMAIN remote /\ IsOver(coord[c].turn)
      BY <2>1, <2>2, ObservedIsOver
    <3>2. coord[c].turn \in Nat
      BY <2>1, HeldByTick DEF OneTurnInvariant
    <3>. QED
      BY <2>1, <2>2, <3>1, <3>2, ToldEvent
  <2>. QED
    BY <1>4, <2>2 DEF Observe
<1>5. ASSUME NEW c \in Coordinators, Settle(c) PROVE Goal
  <2>1. /\ coord[c].at = "settling" /\ coord[c].at \in Woken \ {"prepared"}
        /\ "model_failed" \in EventStatuses /\ "model_completed" \in EventStatuses
    BY <1>5 DEF Settle, At, Woken, Places, EventStatuses
  <2>2. coord[c].turn \in DOMAIN remote /\ IsOver(coord[c].turn)
    BY <2>1 DEF OneTurnInvariant, KnowsTurn, IsReceipted
  <2>3. coord[c].turn \in Nat
    BY <2>1, HeldByTick DEF OneTurnInvariant
  <2>4. PICK status \in {"model_failed", "model_completed"} :
          Record(c, status, coord[c].attempt, coord[c].turn)
    BY <1>5 DEF Settle
  <2>. QED
    BY <2>1, <2>2, <2>3, <2>4, ToldEvent
<1>6. ASSUME NEW c \in Coordinators, Present(c) \/ PresentFails(c) PROVE Goal
  <2>1. coord[c].at = "presenting"
    BY <1>6 DEF Present, PresentFails, At
  <2>2. PICK status \in {"presented", "presentation_failed"}, t \in {0} :
          Record(c, status, coord[c].attempt, t)
    BY <1>6 DEF Present, PresentFails
  <2>3. status \in EventStatuses /\ t \in Nat
    BY <2>2 DEF EventStatuses
  <2>. QED
    BY <2>1, <2>2, <2>3, ToldEvent
<1>7. ASSUME NEW c \in Coordinators,
             Announce(c) \/ RecordReceipt(c) \/ Reconcile(c) \/ Observe(c) \/ Settle(c)
             \/ Present(c) \/ PresentFails(c)
      PROVE  remote' = remote
  BY <1>7 DEF Announce, RecordReceipt, Reconcile, Observe, Settle, Present, PresentFails
<1>8. ASSUME NEW c \in Coordinators, TickStep(c) \/ TickFault(c),
             ~ (Announce(c) \/ RecordReceipt(c) \/ Reconcile(c) \/ Observe(c)
                \/ Settle(c) \/ Present(c) \/ PresentFails(c))
      PROVE  journal' = journal
  BY <1>8 DEF TickStep, TickFault, Notice, ReadTask, Prepare, PrepareRefused, ReadJournal,
     StartTurn, StartLateTurn, TurnReturns, CheckDone, PhaseSubmitted, PhaseReconciled,
     PhaseActive, SetPhase, SubmitRefused, AnswerLost, TickAborts
<1>9. ASSUME NEW c \in Coordinators, Reconcile(c), TurnsFound(c) = {}
      PROVE  journal' = journal
  BY <1>9 DEF Reconcile
<1>10. ASSUME NEW t \in DOMAIN remote, TurnReports(t) \/ TurnEnds(t) \/ TurnAppears(t)
       PROVE  journal' = journal
  BY <1>10 DEF TurnReports, TurnEnds, TurnAppears
<1>11. CASE ForegroundReports \/ UserActs \/ RebindChannel \/ HelperDies
  BY <1>11 DEF ForegroundReports, UserActs, RebindChannel, HelperDies
<1>12. ASSUME NEW to \in Planners, NEW conv \in Conversations, ReplacePlanner(to, conv)
       PROVE  journal' = journal
  BY <1>12 DEF ReplacePlanner
<1>. HIDE DEF Goal
<1>13. ASSUME NEW c \in Coordinators, TickStep(c) \/ TickFault(c)
       PROVE  journal' = journal \/ (Goal /\ remote' = remote)
  BY <1>1, <1>2, <1>3, <1>4, <1>5, <1>6, <1>7, <1>8, <1>9, <1>13
<1>14. CASE UNCHANGED reportingVars
  BY <1>14 DEF reportingVars
<1>15. CASE \E c \in Coordinators : TickStep(c) \/ TickFault(c)
  BY <1>13, <1>15 DEF Goal
<1>. QED
  BY <1>10, <1>11, <1>12, <1>14, <1>15 DEF ReportingNext


\* The places with a turn that is over or of Codex.
WithTurn == {"called", "rephasing", "observing", "activating", "settling"}

\* What a tick has to know of its turn after a step.
LEMMA KnowsTurnAfter ==
  ASSUME NEW c \in Coordinators,
         coord'[c].at \in Woken \cup {"preparing"} =>
           coord'[c].chan.tool = ToolOf[coord'[c].chan.who],
         coord'[c].at = "waiting" => coord'[c].turn \in DOMAIN remote',
         coord'[c].at \in WithTurn => Covered(coord'[c].turn),
         SameTool /\ coord'[c].at = "settling" =>
           remote'[coord'[c].turn].state \notin {"hidden", "running"},
         coord'[c].at = "submitting" /\ coord'[c].attempt > 1 => FailedOnce'
  PROVE  KnowsTurn(c)'
BY DEF KnowsTurn, IsReceipted, IsOver, SameTool, Live, Covered, WithTurn

\* A tick that ends knows nothing of a turn.
LEMMA KnowsNoTurn ==
  ASSUME NEW c \in Coordinators, coord'[c].at \in {"idle", "reading", "presenting"}
  PROVE  KnowsTurn(c)'
<1>1. coord'[c].at \notin Woken \cup {"preparing", "waiting", "settling", "submitting"}
  BY DEF Woken, Places
<1>2. coord'[c].at \notin WithTurn
  BY DEF WithTurn
<1>. QED
  BY <1>1, <1>2, KnowsTurnAfter

\* A tick that goes on with its channel to a place where it needs no more of the
\* turn than it knew.
LEMMA KnowsTurnOn ==
  ASSUME OneTurnInvariant, [ReportingNext]_reportingVars, NEW c \in Coordinators,
         coord[c].at \in Woken \cup {"preparing"}, coord'[c].chan = coord[c].chan,
         coord'[c].at \notin {"waiting", "settling", "submitting"},
         coord'[c].at \in WithTurn => IsReceipted(coord'[c].turn)
  PROVE  KnowsTurn(c)'
<1>1. coord[c].chan.tool = ToolOf[coord[c].chan.who] /\ ServiceInvariant
  BY DEF OneTurnInvariant, KnowsTurn, AttemptsInvariant
<1>2. coord'[c].at \in WithTurn => Covered(coord'[c].turn)
  BY <1>1, ReceiptLasts
<1>. QED
  BY <1>1, <1>2, KnowsTurnAfter

\* A tick that does not move.
LEMMA KnowsTurnStill ==
  ASSUME OneTurnInvariant, [ReportingNext]_reportingVars, NEW c \in Coordinators,
         coord'[c] = coord[c]
  PROVE  KnowsTurn(c)'
<1>1. KnowsTurn(c) /\ ServiceInvariant
  BY DEF OneTurnInvariant, AttemptsInvariant
<1>2. coord[c].at = "waiting" => coord[c].turn \in DOMAIN remote'
  BY <1>1, TurnLasts DEF KnowsTurn
<1>3. coord[c].at \in WithTurn => IsReceipted(coord[c].turn)
  BY <1>1 DEF KnowsTurn, WithTurn
<1>4. coord[c].at \in WithTurn => Covered(coord[c].turn)
  BY <1>1, <1>3, ReceiptLasts
<1>5. SameTool /\ coord[c].at = "settling" =>
        coord[c].turn \in DOMAIN remote /\ ~Live(coord[c].turn)
  BY <1>1 DEF KnowsTurn, IsReceipted, IsOver
<1>6. SameTool /\ coord[c].at = "settling" => remote'[coord[c].turn].state \notin {"hidden", "running"}
  BY <1>1, <1>5, TurnLasts
<1>7. coord[c].at = "submitting" /\ coord[c].attempt > 1 => FailedOnce'
  BY <1>1, FailureLasts DEF KnowsTurn
<1>8. coord[c].at \in Woken \cup {"preparing"} =>
        coord[c].chan.tool = ToolOf[coord[c].chan.who]
  BY <1>1 DEF KnowsTurn
<1>. QED
  BY <1>2, <1>4, <1>6, <1>7, <1>8, KnowsTurnAfter

\* A tick that reads the record.
LEMMA ReadingKnowsTurn ==
  ASSUME OneTurnInvariant, NEW c \in Coordinators, Notice(c) \/ ReadTask(c)
  PROVE  KnowsTurn(c)'
<1>1. ReportingTypeOK /\ coord \in [Coordinators -> Ticks]
  BY DEF OneTurnInvariant, AttemptsInvariant, ServiceInvariant, ReportingTypeOK
<1>2. CASE Notice(c)
  BY <1>1, <1>2, MovedTick, KnowsNoTurn DEF Notice
<1>3. CASE EndTick(c)
  BY <1>1, <1>3, EndedTick, KnowsNoTurn
<1>. DEFINE attempt == Unpresented(task.wakeKey)
            toPrepare == [Idle EXCEPT !.at = "preparing", !.seen = task.revision,
                                      !.chan = channel]
            toPresent == [Idle EXCEPT !.at = "presenting", !.chan = channel,
                                      !.key = task.wakeKey, !.attempt = attempt]
<1>4. /\ toPrepare.at = "preparing" /\ toPrepare.chan = channel
      /\ toPresent.at = "presenting"
  BY DEF Idle
<1>5. CASE ReadTask(c)
  <2>1. \/ coord' = [coord EXCEPT ![c] = toPrepare]
        \/ EndTick(c)
        \/ coord' = [coord EXCEPT ![c] = toPresent]
    BY <1>5 DEF ReadTask, EndTick
  <2>. HIDE DEF toPrepare, toPresent
  <2>2. CASE coord' = [coord EXCEPT ![c] = toPrepare]
    <3>1. coord'[c] = toPrepare
      BY <1>1, <2>2
    <3>2. channel.tool = ToolOf[channel.who]
      BY DEF OneTurnInvariant
    <3>. QED
      BY <1>4, <3>1, <3>2, KnowsTurnAfter DEF WithTurn
  <2>3. CASE coord' = [coord EXCEPT ![c] = toPresent]
    BY <1>1, <1>4, <2>3, KnowsNoTurn
  <2>. QED
    BY <1>3, <2>1, <2>2, <2>3
<1>. QED
  BY <1>2, <1>5

\* A tick that reads the journal: a receipt it finds is of a turn that it may ask
\* after, and an attempt after the first follows a failure.
LEMMA ReadJournalKnowsTurn ==
  ASSUME OneTurnInvariant, [ReportingNext]_reportingVars, NEW c \in Coordinators,
         ReadJournal(c)
  PROVE  KnowsTurn(c)'
<1>. DEFINE key == coord[c].key
            latest == Latest(key)
            next == WhatNext(latest)
<1>1. /\ ServiceInvariant /\ ReportingTypeOK /\ coord \in [Coordinators -> Ticks]
      /\ coord[c] \in Ticks /\ journal \in Seq(Events)
  BY DEF OneTurnInvariant, AttemptsInvariant, ServiceInvariant, ReportingTypeOK
<1>2. coord[c].at = "prepared" /\ coord[c].at \in Woken
  BY DEF ReadJournal, At, Woken, Places
<1>3. coord[c].chan.tool = ToolOf[coord[c].chan.who]
  BY <1>2 DEF OneTurnInvariant, KnowsTurn
<1>4. coord' = [coord EXCEPT ![c] =
          IF next.at = "idle" THEN Idle
          ELSE [@ EXCEPT !.at = next.at, !.attempt = next.attempt, !.turn = next.turn]]
  BY DEF ReadJournal
<1>5. next.at # "idle" => next.at \in {"submitting", "reconciling", "observing"}
  BY <1>1, WhatNextTyping
<1>6. next.at = "submitting" /\ next.attempt > 1 => FailedOnce
  <2>. SUFFICES ASSUME next.at = "submitting", next.attempt > 1 PROVE FailedOnce
    OBVIOUS
  <2>1. latest # None
    BY DEF WhatNext, Submit, Do
  <2>2. PICK i \in DOMAIN journal : latest = journal[i]
    BY <1>1, <2>1, FoundLatest
  <2>3. latest.status = "model_failed"
    BY <2>1 DEF WhatNext, Do
  <2>. QED
    BY <2>2, <2>3 DEF FailedOnce
<1>7. next.at = "observing" => IsReceipted(next.turn)
  <2>. SUFFICES ASSUME next.at = "observing" PROVE IsReceipted(next.turn)
    OBVIOUS
  <2>1. Submissions(key) # {} /\ latest # None
    BY <1>1, WhatNextTyping DEF WhatNext, Submit, Do
  <2>2. latest.key = key
    BY <1>1, <2>1, FoundLatest
  <2>3. next = Do("observing", FindSubmission(key).attempt, FindSubmission(key).turn)
    <3>1. latest.status # "submitting"
      BY <2>1 DEF WhatNext, Do
    <3>2. latest.status # "model_failed"
      BY <2>1 DEF WhatNext, Retry, Submit, Do
    <3>. QED
      BY <2>1, <2>2, <3>1, <3>2 DEF WhatNext
  <2>4. PICK i : i = LastOf(Submissions(key))
    OBVIOUS
  <2>5. Submissions(key) \in SUBSET (1..Len(journal)) /\ Len(journal) \in Nat
    BY <1>1 DEF Submissions, EventsOf
  <2>6. i \in Submissions(key)
    BY <2>1, <2>4, <2>5, LastOfPlaces
  <2>7. FindSubmission(key) = journal[i]
    BY <2>1, <2>4 DEF FindSubmission
  <2>8. IsReceipted(journal[i].turn)
    BY <2>6 DEF Submissions, EventsOf, OneTurnInvariant
  <2>. QED
    BY <2>3, <2>7, <2>8 DEF Do
<1>. HIDE DEF next
<1>8. CASE next.at = "idle"
  <2>1. EndTick(c)
    BY <1>4, <1>8 DEF EndTick
  <2>. QED
    BY <1>1, <2>1, EndedTick, KnowsNoTurn
<1>9. CASE next.at # "idle"
  <2>1. /\ coord'[c].at = next.at /\ coord'[c].attempt = next.attempt
        /\ coord'[c].turn = next.turn /\ coord'[c].chan = coord[c].chan
    BY <1>1, <1>4, <1>9 DEF Ticks
  <2>2. next.at = "observing" => Covered(next.turn)
    BY <1>1, <1>7, ReceiptLasts
  <2>3. next.at = "submitting" /\ next.attempt > 1 => FailedOnce'
    BY <1>1, <1>6, FailureLasts
  <2>4. next.at \in WithTurn => next.at = "observing"
    BY <1>5, <1>9 DEF WithTurn
  <2>5. next.at \notin {"waiting", "settling"}
    BY <1>5, <1>9
  <2>. QED
    BY <1>3, <2>1, <2>2, <2>3, <2>4, <2>5, KnowsTurnAfter
<1>. QED
  BY <1>8, <1>9


\* A turn has started.
LEMMA StartKnowsTurn ==
  ASSUME OneTurnInvariant, [ReportingNext]_reportingVars, NEW c \in Coordinators,
         StartTurn(c) \/ StartLateTurn(c)
  PROVE  KnowsTurn(c)'
<1>1. coord[c].at \in Woken /\ ReportingTypeOK
  BY DEF StartTurn, StartLateTurn, At, Woken, Places, OneTurnInvariant, AttemptsInvariant,
     ServiceInvariant
<1>2. coord[c].chan.tool = ToolOf[coord[c].chan.who]
  BY <1>1 DEF OneTurnInvariant, KnowsTurn
<1>3. PICK place \in {"called", "waiting"} :
        /\ coord' = [coord EXCEPT ![c].at = place, ![c].turn = Len(remote) + 1]
        /\ place = "called" => coord[c].chan.tool = "codex"
  BY DEF StartTurn, StartLateTurn
<1>4. PICK t : t = Len(remote) + 1
  OBVIOUS
<1>5. coord' = [coord EXCEPT ![c].at = place, ![c].turn = t]
  BY <1>3, <1>4
<1>6. coord'[c].at = place /\ coord'[c].turn = t /\ coord'[c].chan = coord[c].chan
  BY <1>1, <1>5 DEF ReportingTypeOK, Ticks
<1>7. PICK state : NewTurn(c, state)
  BY DEF StartTurn, StartLateTurn
<1>8. t \in DOMAIN remote' /\ remote'[t].who = coord[c].chan.who
  BY <1>1, <1>4, <1>7 DEF NewTurn, ReportingTypeOK
<1>9. place = "called" => Covered(t)
  BY <1>2, <1>3, <1>8 DEF Covered
<1>. QED
  BY <1>2, <1>3, <1>6, <1>8, <1>9, KnowsTurnAfter DEF WithTurn

\* Every other step of a woken tick.
LEMMA WokenKnowsTurn ==
  ASSUME OneTurnInvariant, [ReportingNext]_reportingVars, NEW c \in Coordinators,
         Prepare(c) \/ Announce(c) \/ TurnReturns(c) \/ RecordReceipt(c)
         \/ CheckDone(c) \/ PhaseSubmitted(c) \/ PhaseReconciled(c) \/ PhaseActive(c)
         \/ Reconcile(c) \/ Observe(c) \/ Settle(c)
  PROVE  KnowsTurn(c)'
<1>. /\ ReportingTypeOK /\ ServiceInvariant /\ KnowsTurn(c)
     /\ coord \in [Coordinators -> Ticks] /\ coord[c] \in Ticks
  BY DEF OneTurnInvariant, AttemptsInvariant, ServiceInvariant, ReportingTypeOK
<1>1. CASE EndTick(c)
  BY <1>1, EndedTick, KnowsNoTurn
<1>2. ASSUME coord[c].at \in Woken, NEW place \in {"calling", "checking", "phasing"},
             Move(c, place)
      PROVE  KnowsTurn(c)'
  <2>1. coord'[c].at = place /\ coord'[c].chan = coord[c].chan
    BY <1>2, MovedTick
  <2>. QED
    BY <1>2, <2>1, KnowsTurnOn DEF WithTurn
<1>3. ASSUME coord[c].at \in Woken, NEW place \in {"called", "observing", "activating"},
             Move(c, place), IsReceipted(coord[c].turn)
      PROVE  KnowsTurn(c)'
  <2>1. /\ coord'[c].at = place /\ coord'[c].chan = coord[c].chan
        /\ coord'[c].turn = coord[c].turn
    BY <1>3, MovedTick
  <2>. QED
    BY <1>3, <2>1, KnowsTurnOn
<1>4. CASE Prepare(c)
  <2>1. coord'[c].at = "prepared" /\ coord'[c].chan = coord[c].chan
    BY <1>4 DEF Prepare, Ticks
  <2>2. coord[c].at = "preparing"
    BY <1>4 DEF Prepare, At
  <2>. QED
    BY <2>1, <2>2, KnowsTurnOn DEF WithTurn
<1>5. CASE Announce(c)
  BY <1>2, <1>5 DEF Announce, At, Woken, Places
<1>6. CASE TurnReturns(c)
  <2>1. coord[c].at = "waiting" /\ coord[c].at \in Woken
    BY <1>6 DEF TurnReturns, At, Woken, Places
  <2>2. CASE remote[coord[c].turn].state = "completed" /\ Move(c, "called")
    <3>1. IsReceipted(coord[c].turn)
      BY <2>1, <2>2 DEF KnowsTurn, IsReceipted, IsOver, Live
    <3>. QED
      BY <1>3, <2>1, <2>2, <3>1
  <2>. QED
    BY <1>1, <1>6, <2>2 DEF TurnReturns
<1>7. CASE RecordReceipt(c)
  <2>1. coord[c].at \in Woken
    BY <1>7 DEF RecordReceipt, At, Woken, Places
  <2>2. PICK place \in {"checking", "phasing"} : Move(c, place)
    BY <1>7 DEF RecordReceipt
  <2>. QED
    BY <1>2, <2>1, <2>2
<1>8. CASE CheckDone(c)
  <2>1. coord[c].at \in Woken
    BY <1>8 DEF CheckDone, At, Woken, Places
  <2>2. PICK place \in {"presenting", "phasing"}, first \in {1} :
          coord' = [coord EXCEPT ![c].at = place, ![c].attempt = first]
    BY <1>8 DEF CheckDone
  <2>3. coord'[c].at = place /\ coord'[c].chan = coord[c].chan
    BY <2>2 DEF Ticks
  <2>. QED
    BY <2>1, <2>3, KnowsTurnOn DEF WithTurn
<1>9. CASE PhaseSubmitted(c) \/ PhaseReconciled(c) \/ PhaseActive(c)
  <2>1. EndTick(c) \/ (coord[c].at = "rephasing" /\ Move(c, "observing"))
    BY <1>9 DEF PhaseSubmitted, PhaseReconciled, PhaseActive, SetPhase, At
  <2>2. coord[c].at = "rephasing" => IsReceipted(coord[c].turn) /\ coord[c].at \in Woken
    BY DEF KnowsTurn, Woken, Places
  <2>. QED
    BY <1>1, <1>3, <2>1, <2>2
<1>10. CASE Reconcile(c)
  <2>1. coord[c].at \in Woken
    BY <1>10 DEF Reconcile, At, Woken, Places
  <2>2. CASE TurnsFound(c) # {}
    <3>1. PICK t : /\ t = LastOf(TurnsFound(c))
                   /\ coord' = [coord EXCEPT ![c].at = "rephasing", ![c].turn = t]
      BY <1>10, <2>2 DEF Reconcile
    <3>2. /\ coord'[c].at = "rephasing" /\ coord'[c].turn = t
          /\ coord'[c].chan = coord[c].chan
      BY <3>1 DEF Ticks
    <3>3. IsReceipted(t)
      BY <2>1, <2>2, <3>1, FoundIsReceipted
    <3>. QED
      BY <2>1, <3>2, <3>3, KnowsTurnOn
  <2>. QED
    BY <1>1, <1>10, <2>2 DEF Reconcile
<1>11. CASE Observe(c)
  <2>1. coord[c].at = "observing" /\ coord[c].at \in Woken
    BY <1>11 DEF Observe, At, Woken, Places
  <2>2. IsReceipted(coord[c].turn)
    BY <2>1 DEF KnowsTurn
  <2>3. CASE Observed(c) = "completed" /\ Move(c, "settling")
    <3>1. /\ coord'[c].at = "settling" /\ coord'[c].chan = coord[c].chan
          /\ coord'[c].turn = coord[c].turn
      BY <2>3, MovedTick
    <3>2. SameTool => coord[c].turn \in DOMAIN remote /\ ~Live(coord[c].turn)
      BY <2>1, <2>3, ObservedIsOver DEF IsOver
    <3>3. SameTool => remote'[coord[c].turn].state \notin {"hidden", "running"}
      BY <3>2, TurnLasts
    <3>4. Covered(coord[c].turn)
      BY <2>2, ReceiptLasts
    <3>5. coord[c].chan.tool = ToolOf[coord[c].chan.who]
      BY <2>1 DEF KnowsTurn
    <3>. QED
      BY <3>1, <3>3, <3>4, <3>5, KnowsTurnAfter
  <2>4. CASE Move(c, "activating")
    BY <1>3, <2>1, <2>2, <2>4
  <2>. QED
    BY <1>1, <1>11, <2>3, <2>4 DEF Observe
<1>12. CASE Settle(c)
  <2>1. CASE task.status = "DONE"
    <3>1. PICK place \in {"presenting"}, first \in {1} :
            coord' = [coord EXCEPT ![c].at = place, ![c].attempt = first]
      BY <1>12, <2>1 DEF Settle
    <3>2. coord'[c].at = place
      BY <3>1 DEF Ticks
    <3>. QED
      BY <3>2, KnowsNoTurn
  <2>. QED
    BY <1>1, <1>12, <2>1 DEF Settle
<1>. QED
  BY <1>4, <1>5, <1>6, <1>7, <1>8, <1>9, <1>10, <1>11, <1>12

\* Every step leaves every tick knowing what it has to.
LEMMA StepKnowsTurn ==
  ASSUME OneTurnInvariant, [ReportingNext]_reportingVars, NEW c \in Coordinators
  PROVE  KnowsTurn(c)'
<1>. ServiceInvariant /\ ReportingTypeOK
  BY DEF OneTurnInvariant, AttemptsInvariant, ServiceInvariant
<1>1. CASE TickStep(c) \/ TickFault(c)
  <2>1. CASE PrepareRefused(c) \/ SubmitRefused(c) \/ AnswerLost(c) \/ TickAborts(c)
             \/ Present(c) \/ PresentFails(c)
    <3>1. EndTick(c)
      BY <2>1 DEF PrepareRefused, SubmitRefused, AnswerLost, TickAborts, Present,
         PresentFails
    <3>. QED
      BY <3>1, EndedTick, KnowsNoTurn
  <2>. QED
    BY <1>1, <2>1, ReadingKnowsTurn, ReadJournalKnowsTurn, StartKnowsTurn, WokenKnowsTurn
       DEF TickStep, TickFault
<1>2. ASSUME NEW d \in Coordinators, d # c, TickStep(d) \/ TickFault(d)
      PROVE  coord'[c] = coord[c]
  <2>1. Moves(d)
    BY <1>2, StepMoves
  <2>. QED
    BY <1>2, <2>1 DEF Moves, ReportingTypeOK
<1>3. ASSUME NEW t \in DOMAIN remote, TurnReports(t) \/ TurnEnds(t) \/ TurnAppears(t)
      PROVE  UNCHANGED coord
  BY <1>3 DEF TurnReports, TurnEnds, TurnAppears
<1>4. CASE ForegroundReports \/ UserActs \/ RebindChannel \/ HelperDies
  BY <1>4, KnowsTurnStill DEF ForegroundReports, UserActs, RebindChannel, HelperDies
<1>5. ASSUME NEW to \in Planners, NEW conv \in Conversations, ReplacePlanner(to, conv)
      PROVE  UNCHANGED coord
  BY <1>5 DEF ReplacePlanner
<1>6. CASE UNCHANGED reportingVars
  BY <1>6, KnowsTurnStill DEF reportingVars
<1>. QED
  BY <1>1, <1>2, <1>3, <1>4, <1>5, <1>6, KnowsTurnStill DEF ReportingNext


\* Turns get more only where a tool starts one.
LEMMA StepTurns ==
  ASSUME ServiceInvariant, [ReportingNext]_reportingVars
  PROVE  \/ Len(remote') = Len(remote)
         \/ \E c \in Coordinators : StartTurn(c) \/ StartLateTurn(c)
<1>1. ASSUME NEW c \in Coordinators, TickStep(c) \/ TickFault(c),
             ~ (StartTurn(c) \/ StartLateTurn(c))
      PROVE  UNCHANGED remote
  BY <1>1 DEF TickStep, TickFault, Notice, ReadTask, Prepare, PrepareRefused,
     ReadJournal, Announce, TurnReturns, RecordReceipt, CheckDone, PhaseSubmitted,
     PhaseReconciled, PhaseActive, SetPhase, Reconcile, Observe, Settle, Present,
     SubmitRefused, AnswerLost, PresentFails, TickAborts
<1>2. ASSUME NEW t \in DOMAIN remote, TurnReports(t) \/ TurnEnds(t) \/ TurnAppears(t)
      PROVE  Len(remote') = Len(remote)
  BY <1>2, TurnsStay DEF ServiceInvariant, TurnReports
<1>3. CASE ForegroundReports \/ UserActs \/ RebindChannel \/ HelperDies
  BY <1>3 DEF ForegroundReports, UserActs, RebindChannel, HelperDies
<1>4. ASSUME NEW to \in Planners, NEW conv \in Conversations, ReplacePlanner(to, conv)
      PROVE  UNCHANGED remote
  BY <1>4 DEF ReplacePlanner
<1>. QED
  BY <1>1, <1>2, <1>3, <1>4 DEF ReportingNext, reportingVars


\* With one Runner every step keeps the invariant.
LEMMA StepOneTurn ==
  ASSUME \A c, d \in Coordinators : c = d,
         OneTurnInvariant, [ReportingNext]_reportingVars
  PROVE  OneTurnInvariant'
<1>1. /\ ServiceInvariant /\ journal \in Seq(Events) /\ remote \in Seq(RemoteTurns)
      /\ Spent \in Nat /\ Len(remote) \in Nat
  BY SpentTyping
     DEF OneTurnInvariant, AttemptsInvariant, ServiceInvariant, ReportingTypeOK
<1>2. AttemptsInvariant'
  BY StepAttempts DEF OneTurnInvariant
<1>3. /\ channel'.tool = ToolOf[channel'.who]
      /\ rebinding' # None => rebinding'.tool = ToolOf[rebinding'.who]
      /\ \A c \in Coordinators : KnowsTurn(c)'
  BY StepTools, StepKnowsTurn
<1>4. ASSUME NEW i \in DOMAIN journal', journal'[i].status = "submitted"
      PROVE  Covered(journal'[i].turn)
  <2>1. CASE i \in DOMAIN journal /\ journal'[i] = journal[i]
    <3>1. IsReceipted(journal'[i].turn)
      BY <1>4, <2>1 DEF OneTurnInvariant
    <3>. QED
      BY <1>1, <3>1, ReceiptLasts
  <2>2. ASSUME NEW e \in Events, Tells(e), journal'[i] = e
        PROVE  Covered(journal'[i].turn)
    <3>1. IsReceipted(journal'[i].turn)
      BY <1>4, <2>2 DEF Tells
    <3>. QED
      BY <1>1, <3>1, ReceiptLasts
  <2>. QED
    BY <1>1, <2>1, <2>2, StepEvents, AppendedEvent
<1>5. \A i \in DOMAIN journal' :
        journal'[i].status = "submitted" => IsReceipted(journal[i].turn)'
  BY <1>4 DEF Covered, IsReceipted, IsOver, SameTool, Live
<1>6. FailedOnce => FailedOnce'
  BY <1>1, FailureLasts
<1>7. Unsettled' /\ Spent' > 1 => FailedOnce'
  <2>1. CASE journal' = journal
    <3>1. Spent' = Spent /\ (Unsettled' <=> Unsettled)
      BY <2>1 DEF Spent, Unsettled
    <3>. QED
      BY <1>6, <3>1 DEF OneTurnInvariant
  <2>2. ASSUME NEW e \in Events, Tells(e), journal' = Append(journal, e),
               Unsettled', Spent' > 1
        PROVE  FailedOnce'
    <3>1. /\ Spent' = e.attempt
          /\ e.status \notin {"model_completed", "presented", "presentation_failed"}
      BY <1>1, <2>2, SpentAfter
    <3>2. e.status \in {"submitting", "submitted", "model_failed"}
      BY <3>1 DEF Events, EventStatuses
    <3>. QED
      BY <1>6, <2>2, <3>1, <3>2 DEF Tells
  <2>. QED
    BY <2>1, <2>2, StepEvents
<1>8. Len(remote') > 1 => FailedOnce'
  <2>1. CASE Len(remote') = Len(remote)
    BY <1>6, <2>1 DEF OneTurnInvariant
  <2>2. ASSUME NEW c \in Coordinators, StartTurn(c) \/ StartLateTurn(c), Len(remote') > 1
        PROVE  FailedOnce'
    <3>1. coord[c].at = "calling" /\ coord[c].at \in Woken
      BY <2>2 DEF StartTurn, StartLateTurn, At, Woken, Places
    <3>2. Unsettled /\ Len(remote) < Spent
      BY <3>1 DEF OneTurnInvariant, AttemptsInvariant, CountsAttempts
    <3>3. Len(remote') = Len(remote) + 1
      BY <1>1, <2>2 DEF StartTurn, StartLateTurn, NewTurn
    <3>4. Spent > 1
      BY <1>1, <2>2, <3>2, <3>3
    <3>. QED
      BY <1>6, <3>2, <3>4 DEF OneTurnInvariant
  <2>. QED
    BY <1>1, <2>1, <2>2, StepTurns
<1>9. ASSUME FailedOnce'
      PROVE  /\ 1 \in DOMAIN remote' /\ WrittenOff(1)'
             /\ SameTool => remote'[1].state \notin {"hidden", "running"}
  <2>1. CASE FailedOnce
    <3>1. 1 \in DOMAIN remote /\ WrittenOff(1) /\ IsOver(1)
      BY <1>1, <2>1 DEF OneTurnInvariant
    <3>2. 1 \in DOMAIN remote'
      BY <1>1, <3>1, TurnLasts
    <3>3. SameTool => remote'[1].state \notin {"hidden", "running"}
      BY <1>1, <3>1, TurnLasts DEF IsOver
    <3>4. WrittenOff(1)'
      BY <1>1, <3>1, StepJournalTyping DEF WrittenOff, JournalGrows
    <3>. QED
      BY <3>2, <3>3, <3>4
  <2>2. CASE ~FailedOnce
    <3>1. journal' # journal
      BY <1>9, <2>2 DEF FailedOnce
    <3>2. PICK e \in Events : Tells(e) /\ journal' = Append(journal, e) /\ remote' = remote
      BY <3>1, StepEvents
    <3>3. PICK i \in DOMAIN journal' : journal'[i].status = "model_failed"
      BY <1>9 DEF FailedOnce
    <3>4. journal'[i] = e
      BY <1>1, <2>2, <3>2, <3>3, AppendedEvent DEF FailedOnce
    <3>5. e.turn \in DOMAIN remote /\ IsOver(e.turn)
      BY <3>2, <3>3, <3>4 DEF Tells
    <3>6. ~(Len(remote) > 1)
      BY <2>2 DEF OneTurnInvariant
    <3>7. e.turn = 1
      BY <1>1, <3>5, <3>6
    <3>8. WrittenOff(1)'
      BY <3>3, <3>4, <3>7 DEF WrittenOff
    <3>9. SameTool => remote'[1].state \notin {"hidden", "running"}
      BY <3>2, <3>5, <3>7 DEF IsOver, Live
    <3>. QED
      BY <3>2, <3>5, <3>7, <3>8, <3>9
  <2>. QED
    BY <2>1, <2>2
<1>10. FailedOnce' => remote' # <<>> /\ WrittenOff(1)' /\ IsOver(1)'
  BY <1>9 DEF IsOver, SameTool, Live
<1>. QED
  BY <1>2, <1>3, <1>5, <1>7, <1>8, <1>10 DEF OneTurnInvariant


LEMMA InitOneTurn == ReportingInit => OneTurnInvariant
<1>. SUFFICES ASSUME ReportingInit PROVE OneTurnInvariant
  OBVIOUS
<1>1. AttemptsInvariant
  BY InitAttempts
<1>2. channel.tool = ToolOf[channel.who]
  BY DEF ReportingInit, ChannelOf
<1>3. rebinding = None /\ DOMAIN journal = {} /\ Len(remote) = 0 /\ Spent = 0
  BY DEF ReportingInit, Spent
<1>4. \A c \in Coordinators : coord[c].at = "idle"
  BY DEF ReportingInit, Idle
<1>5. \A c \in Coordinators : KnowsTurn(c)
  BY <1>4 DEF KnowsTurn, Woken, Places
<1>6. ~FailedOnce
  BY <1>3 DEF FailedOnce
<1>. QED
  BY <1>1, <1>2, <1>3, <1>5, <1>6 DEF OneTurnInvariant

\* Of at most two turns the first was called failed when there is a second, and with
\* one tool it is over.
LEMMA FirstOfTwoTurns ==
  ASSUME OneTurnInvariant, ModelRetryLimit <= 1,
         NEW s \in Reporters, NEW t \in Reporters, s # t
  PROVE  /\ WrittenOff(s) \/ WrittenOff(t)
         /\ ~SameTool
<1>1. /\ Len(remote) \in Nat /\ DOMAIN remote = 1..Len(remote)
      /\ ModelRetryLimit \in Nat /\ Len(remote) <= ModelRetryLimit + 1
  BY ReportingAssumption
     DEF OneTurnInvariant, AttemptsInvariant, ServiceInvariant, ReportingTypeOK
<1>2. /\ s \in DOMAIN remote /\ Live(s)
      /\ t \in DOMAIN remote /\ Live(t)
  BY DEF Reporters
<1>3. Len(remote) > 1 /\ (s = 1 \/ t = 1)
  BY <1>1, <1>2
<1>4. WrittenOff(1) /\ IsOver(1)
  BY <1>3 DEF OneTurnInvariant
<1>. QED
  BY <1>2, <1>3, <1>4 DEF IsOver

\* Where one Runner serves the project and the policy allows at most one retry, as it
\* does by default, the Planner is woken beside a living turn only if that turn was
\* called failed, whatever fails and whoever is replaced (_submit, reconcile, observe).
THEOREM SecondTurnSafety ==
  ASSUME \A c, d \in Coordinators : c = d, ModelRetryLimit <= 1
  PROVE  ReportingSpec => []OneLiveTurn
<1>1. OneTurnInvariant => OneLiveTurn
  BY FirstOfTwoTurns DEF OneLiveTurn
<1>2. OneTurnInvariant /\ [ReportingNext]_reportingVars => OneTurnInvariant'
  BY StepOneTurn
<1>. QED
  BY <1>1, <1>2, InitOneTurn, PTL DEF ReportingSpec

\* If besides all Planners work with the same tool, the Planner is never at work on two
\* turns that could both report (observe asks the tool that ran the turn).
THEOREM OneTurnSafety ==
  ASSUME \A c, d \in Coordinators : c = d,
         \A p, q \in Planners : ToolOf[p] = ToolOf[q],
         ModelRetryLimit <= 1
  PROVE  ReportingSpec => []OneReporter
<1>1. OneTurnInvariant => OneReporter
  BY FirstOfTwoTurns DEF OneReporter, SameTool
<1>2. OneTurnInvariant /\ [ReportingNext]_reportingVars => OneTurnInvariant'
  BY StepOneTurn
<1>. QED
  BY <1>1, <1>2, InitOneTurn, PTL DEF ReportingSpec

=============================================================================
