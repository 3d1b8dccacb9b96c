-------------------------- MODULE ReplaceAgentProofs --------------------------
(***************************************************************************)
(* Theorems of ReplaceAgent, for any number of tasks and participants, any *)
(* deaths between any two writes, and any number of replacements that the  *)
(* numbering of the records can tell apart.                                *)
(***************************************************************************)
EXTENDS ReplaceAgent, TaskRecordProofs

---------------------------------------------------------------------------
(* The operators.                                                          *)

\* Who may be assigned to which role.
LEMMA RegisteredParticipants ==
  /\ ParticipantsOf("planner") = Planners
  /\ \A role \in Roles : ParticipantsOf(role) \subseteq Participants
<1>1. /\ ParticipantsOf("planner") = Planners
      /\ ParticipantsOf("implementer") = Implementers
      /\ ParticipantsOf("reviewer") = Reviewers
  BY Zenon DEF ParticipantsOf
<1>. QED
  BY <1>1 DEF Roles, Participants

\* The order of the writes, file by file.
LEMMA WriteOrders ==
  /\ WriteOrder("record") = 1 /\ WriteOrder("state") = 2
  /\ WriteOrder("bindings") = 3
  /\ WriteOrder("from") = 4 /\ WriteOrder("to") = 4
  /\ WriteOrder("row") = 5 /\ WriteOrder("channel") = 6
BY Zenon DEF WriteOrder

\* Whoever an open task names is assigned.
LEMMA AssignedWhere ==
  ASSUME NEW tasks, NEW p
  PROVE  p \in Assigned(tasks) <=>
           \E t \in Tasks, role \in Roles :
             tasks[t].status \notin Terminal /\ p = tasks[t].assignments[role]
<1>. DEFINE named(t) == {tasks[t].assignments[role] : role \in Roles}
            open == {u \in Tasks : tasks[u].status \notin Terminal}
<1>1. Assigned(tasks) = UNION {named(t) : t \in open}
  BY DEF Assigned
<1>2. \A t : p \in named(t) <=> \E role \in Roles : p = tasks[t].assignments[role]
  OBVIOUS
<1>. HIDE DEF named
<1>3. p \in UNION {named(t) : t \in open} <=> \E t \in open : p \in named(t)
  BY Zenon
<1>. QED
  BY <1>1, <1>2, <1>3

\* Whatever the other commands make of a task, it was open, keeps its assignments
\* and does not go back in its revisions.
LEMMA MovesKeep ==
  ASSUME NEW s \in TaskRecords, WellAssigned(s), NEW m \in Moves(s)
  PROVE  /\ m \in TaskRecords /\ WellAssigned(m)
         /\ m.assignments = s.assignments
         /\ m.revision \in {s.revision, s.revision + 1}
         /\ s.status \notin Terminal
<1>. DEFINE Goal == /\ m \in TaskRecords /\ WellAssigned(m)
                    /\ m.assignments = s.assignments
                    /\ m.revision \in {s.revision, s.revision + 1}
                    /\ s.status \notin Terminal
<1>1. ASSUME NEW e \in RoleEvents, NEW run \in Runs \cup {None},
             CanCompleteStage(s, e, s.participant, run),
             m = AfterCompleteStage(s, e)
      PROVE  Goal
  <2>1. m \in TaskRecords
    BY <1>1, CompleteStageTyping
  <2>2. e.from \notin Terminal /\ e.next \in Roles
    BY DEF RoleEvents, Terminal, Roles
  <2>. QED
    BY <1>1, <2>1, <2>2
       DEF AfterCompleteStage, CanCompleteStage, WellAssigned, TaskRecords
<1>2. ASSUME NEW run \in Runs, s.status \in {"IMPLEMENTING", "REVIEWING"},
             m = AfterClaim(s, run)
      PROVE  Goal
  BY <1>2, ClaimTyping DEF AfterClaim, WellAssigned, TaskRecords, Terminal
<1>3. ASSUME NEW c \in Conversations, CanPrepareWake(s, s.participant),
             m = AfterPrepareWake(s, s.participant, c)
      PROVE  Goal
  <2>1. s.participant \in Planners
    BY <1>3, RegisteredParticipants DEF CanPrepareWake, WellAssigned, Roles
  <2>2. m \in TaskRecords
    BY <1>3, <2>1, PrepareWakeTyping
  <2>. QED
    BY <1>3, <2>2 DEF AfterPrepareWake, CanPrepareWake, WellAssigned, TaskRecords, Terminal
<1>4. ASSUME NEW ph \in {"submitted", "active"}, s.status = "REPORTING",
             m = AfterSetPhase(s, ph)
      PROVE  Goal
  BY <1>4, SetPhaseTyping
     DEF AfterSetPhase, WellAssigned, TaskRecords, Terminal, Phases
<1>5. ASSUME CanCancel(s), m = AfterCancel(s) PROVE Goal
  BY <1>5, CancelTyping DEF AfterCancel, CanCancel, WellAssigned, TaskRecords
<1>. QED
  BY <1>1, <1>2, <1>3, <1>4, <1>5 DEF Moves

\* A replacement of a task assigns the role, takes the next revision and leaves the
\* task well assigned.
LEMMA ReplaceKeeps ==
  ASSUME NEW s \in TaskRecords, WellAssigned(s),
         NEW role \in Roles, NEW to \in ParticipantsOf(role)
  PROVE  /\ AfterReplace(s, role, to) \in TaskRecords
         /\ WellAssigned(AfterReplace(s, role, to))
         /\ AfterReplace(s, role, to).assignments = [s.assignments EXCEPT ![role] = to]
         /\ AfterReplace(s, role, to).revision = s.revision + 1
         /\ AfterReplace(s, role, to).status = s.status
<1>1. to \in Participants
  BY RegisteredParticipants
<1>2. AfterReplace(s, role, to) \in TaskRecords
  BY <1>1, ReplaceTyping
<1>. QED
  BY <1>1, <1>2 DEF AfterReplace, WellAssigned, TaskRecords

\* While the glob sees all the records, the next number is one more than the last.
LEMMA NextNumberIs ==
  ASSUME TypeOK, NEW t \in Tasks, NEW role, NEW n \in 0..999, NumberedUpTo(t, n)
  PROVE  NextNumber(t, role) = n + 1
<1>. DEFINE taken == {0} \cup {r.no : r \in {q \in records[t] : q.no <= 999}}
<1>1. \A r \in records[t] : r.no \in Nat /\ r.no <= n
  <2>1. records[t] \subseteq ManagementRecords
    BY DEF TypeOK
  <2>. QED
    BY <2>1 DEF ManagementRecords, NumberedUpTo
<1>2. n \in taken /\ taken \subseteq Nat /\ \A k \in taken : k <= n
  BY <1>1 DEF NumberedUpTo
<1>3. \A m \in taken : (\A k \in taken : k <= m) => m = n
  BY <1>2
<1>. HIDE DEF taken
<1>4. (CHOOSE m \in taken : \A k \in taken : k <= m) = n
  BY <1>2, <1>3
<1>. QED
  BY <1>4 DEF NextNumber, taken

\* The bindings after the default row and the history row.
WithDefault(before, role, from, to, scope) ==
  IF OfDefault(scope)
  THEN [before EXCEPT !.default[role] = to,
                      !.history = @ \cup {[role |-> role, from |-> from, to |-> to]}]
  ELSE before

\* They keep the identities, and a default is the old one or the new participant.
LEMMA WithDefaultIs ==
  ASSUME NEW before \in Bindings, NEW role \in Roles, NEW from \in Participants,
         NEW to \in Participants, NEW scope \in Scopes
  PROVE  /\ WithDefault(before, role, from, to, scope) \in Bindings
         /\ WithDefault(before, role, from, to, scope).status = before.status
         /\ Defaults(WithDefault(before, role, from, to, scope)) \subseteq Defaults(before) \cup {to}
<1>. DEFINE b == WithDefault(before, role, from, to, scope)
<1>1. CASE OfDefault(scope)
  <2>. DEFINE h == before.history \cup {[role |-> role, from |-> from, to |-> to]}
              d == [before.default EXCEPT ![role] = to]
  <2>1. /\ h \in SUBSET [role : Roles, from : Participants, to : Participants]
        /\ d \in [Roles -> Participants]
        /\ \A r \in Roles : d[r] \in {before.default[r], to}
    BY <1>1 DEF Bindings
  <2>2. b = [before EXCEPT !.default = d, !.history = h]
    BY <1>1 DEF WithDefault
  <2>. HIDE DEF h, d, b
  <2>3. b \in Bindings /\ b.status = before.status /\ b.default = d
    BY <2>1, <2>2 DEF Bindings
  <2>4. Defaults(b) \subseteq Defaults(before) \cup {to}
    BY <2>1, <2>3 DEF Defaults
  <2>. QED
    BY <2>3, <2>4 DEF b
<1>2. CASE ~OfDefault(scope)
  BY <1>2 DEF WithDefault
<1>. QED
  BY <1>1, <1>2

\* What a call makes of the identities: only the participant replaced may go on
\* standby, if neither a default nor an open task names it any more.
StatusAfter(b, tasks, from, to) ==
  [p \in Participants |->
     IF p = to THEN "active"
     ELSE IF p = from /\ ~Referenced(from, tasks, b) THEN "standby" ELSE b.status[p]]
WithStatus(b, tasks, from, to) ==
  [b EXCEPT !.status = StatusAfter(b, tasks, from, to)]

LEMMA BindingsAre ==
  ASSUME NEW before \in Bindings, NEW tasks, NEW role \in Roles,
         NEW from \in Participants, NEW to \in Participants, NEW scope \in Scopes
  PROVE  BindingsAfter(before, tasks, role, from, to, scope) =
           WithStatus(WithDefault(before, role, from, to, scope), tasks, from, to)
<1>. DEFINE b == WithDefault(before, role, from, to, scope)
<1>1. b \in Bindings
  BY WithDefaultIs
<1>. HIDE DEF b
<1>2. WithStatus(b, tasks, from, to) =
      [b EXCEPT !.status = [p \in Participants |->
        IF p = to THEN "active"
        ELSE IF p = from /\ ~Referenced(from, tasks, b) THEN "standby" ELSE @[p]]]
  BY <1>1 DEF WithStatus, StatusAfter
<1>. QED
  BY <1>2 DEF BindingsAfter, b, WithDefault

\* The new bindings are well typed.
LEMMA BindingsTyping ==
  ASSUME NEW before \in Bindings, NEW tasks, NEW role \in Roles,
         NEW from \in Participants, NEW to \in Participants, NEW scope \in Scopes
  PROVE  BindingsAfter(before, tasks, role, from, to, scope) \in Bindings
<1>. DEFINE b == WithDefault(before, role, from, to, scope)
<1>1. b \in Bindings
  BY WithDefaultIs
<1>. HIDE DEF b
<1>2. StatusAfter(b, tasks, from, to) \in [Participants -> Identity]
  BY <1>1 DEF StatusAfter, Bindings, Identity
<1>3. WithStatus(b, tasks, from, to) \in Bindings
  BY <1>1, <1>2 DEF Bindings, WithStatus
<1>. QED
  BY <1>3, BindingsAre DEF b

\* The participant taken over is active.
LEMMA TakenOverIsActive ==
  ASSUME NEW before \in Bindings, NEW tasks, NEW role \in Roles,
         NEW from \in Participants, NEW to \in Participants, NEW scope \in Scopes
  PROVE  BindingsAfter(before, tasks, role, from, to, scope).status[to] = "active"
<1>. DEFINE b == WithDefault(before, role, from, to, scope)
<1>1. b \in Bindings
  BY WithDefaultIs
<1>. HIDE DEF b
<1>2. WithStatus(b, tasks, from, to).status[to] = "active"
  BY <1>1 DEF WithStatus, StatusAfter, Bindings
<1>. QED
  BY <1>2, BindingsAre DEF b

\* Nobody goes on standby whom a default or an open task names.
LEMMA NamedKeepStatus ==
  ASSUME NEW before \in Bindings, NEW tasks, NEW role \in Roles,
         NEW from \in Participants, NEW to \in Participants, NEW scope \in Scopes,
         NEW p \in Participants,
         BindingsAfter(before, tasks, role, from, to, scope).status[p] = "standby",
         \/ p \in Assigned(tasks)
         \/ p \in Defaults(BindingsAfter(before, tasks, role, from, to, scope))
  PROVE  p # to /\ before.status[p] = "standby" /\ p \in Assigned(tasks) \cup Defaults(before)
<1>. DEFINE b == WithDefault(before, role, from, to, scope)
            new == BindingsAfter(before, tasks, role, from, to, scope)
<1>1. /\ b \in Bindings /\ b.status = before.status
      /\ Defaults(b) \subseteq Defaults(before) \cup {to}
  BY WithDefaultIs
<1>2. new = WithStatus(b, tasks, from, to)
  BY BindingsAre
<1>3. new.status[p] = "standby" /\ (p \in Assigned(tasks) \/ p \in Defaults(new))
  OBVIOUS
<1>4. new.status[to] = "active"
  BY TakenOverIsActive
<1>. HIDE DEF b, new
<1>5. new.default = b.default /\ new.status = StatusAfter(b, tasks, from, to)
  BY <1>1, <1>2 DEF WithStatus, Bindings
<1>6. Defaults(new) = Defaults(b)
  BY <1>5 DEF Defaults
<1>7. p # to
  BY <1>3, <1>4
<1>8. Referenced(p, tasks, b)
  BY <1>3, <1>6 DEF Referenced
<1>9. new.status[p] = b.status[p]
  BY <1>5, <1>7, <1>8 DEF StatusAfter
<1>. QED
  BY <1>1, <1>3, <1>6, <1>7, <1>9

---------------------------------------------------------------------------
(* What a step does to the call.                                           *)

\* The call that a replacement begins, and what it has checked.
Begun(role, from, to, scope) ==
  /\ call' \in Calls /\ call' # None
  /\ call'.task = active /\ call'.role = role /\ call'.from = from
  /\ call'.to = to /\ to # from /\ to \in ParticipantsOf(role)
  /\ call'.alive = TRUE
  /\ call'.todo = FilesOf(role, from, to, scope)
  /\ call'.state = IF OfTask(scope) THEN AfterReplace(state[active], role, to)
                   ELSE state[active]
  /\ call'.record = Record(active, role, from, to, call'.state)
  /\ call'.record.no \in 1..calls'
  /\ \A r \in records[active] : r.no < call'.record.no
  /\ call'.bindings = BindingsAfter(bindings, [state EXCEPT ![active] = call'.state],
                                    role, from, to, scope)
  /\ call'.row = RowAfter(active, role, to)
  /\ role = "planner" => call'.channel \in Channels
  /\ calls' = calls + 1 /\ calls < MaxCalls
  /\ UNCHANGED <<active, state, refs, records, bindings, profile, row, channel, torn>>

LEMMA BeginCall ==
  ASSUME MaxCalls \in 0..1000, ReplaceInvariant,
         NEW role \in Roles, NEW from \in Participants, NEW to \in Participants,
         NEW scope \in Scopes, NEW stopped \in BOOLEAN, NEW conv \in Conversations,
         Begin(role, from, to, scope, stopped, conv)
  PROVE  Begun(role, from, to, scope)
<1>. DEFINE after == IF OfTask(scope) THEN AfterReplace(state[active], role, to)
                     ELSE state[active]
            record == Record(active, role, from, to, after)
            tasks == [state EXCEPT ![active] = after]
            new == BindingsAfter(bindings, tasks, role, from, to, scope)
            files0 == FilesOf(role, from, to, scope)
            row0 == RowAfter(active, role, to)
            channel0 == [who |-> to, conv |-> conv]
<1>1. /\ TypeOK /\ active \in Tasks /\ state[active] \in TaskRecords
      /\ WellAssigned(state[active])
  BY DEF ReplaceInvariant, TypeOK
<1>2. to # from /\ to \in ParticipantsOf(role)
  BY DEF Begin, Accepted
<1>3. after \in TaskRecords
  BY <1>1, <1>2, ReplaceKeeps
<1>4. PICK n \in 0..calls : NumberedUpTo(active, n)
  BY <1>1 DEF ReplaceInvariant, NumbersCountCalls
<1>5. calls \in 0..999 /\ calls' = calls + 1
  <2>1. calls \in 0..MaxCalls
    BY <1>1 DEF TypeOK
  <2>2. calls < MaxCalls /\ calls' = calls + 1
    BY DEF Begin
  <2>. QED
    BY <2>1, <2>2
<1>6. n \in 0..999
  BY <1>4, <1>5
<1>7. NextNumber(active, role) = n + 1
  BY <1>1, <1>4, <1>6, NextNumberIs
<1>8. record.no = n + 1 /\ record.no \in 1..1000 /\ record.no \in 1..calls'
  BY <1>4, <1>5, <1>6, <1>7 DEF Record
<1>9. \A r \in records[active] : r.no < record.no
  <2>1. records[active] \subseteq ManagementRecords
    BY <1>1 DEF TypeOK
  <2>2. \A r \in records[active] : r.no \in Nat /\ r.no <= n
    BY <1>4, <2>1 DEF NumberedUpTo, ManagementRecords
  <2>. QED
    BY <1>6, <1>8, <2>2
<1>10. record \in ManagementRecords
  <2>1. state[active].revision \in Nat /\ after.participant \in Participants
    BY <1>1, <1>3, FieldTyping
  <2>. QED
    BY <1>7, <1>8, <2>1 DEF Record, ManagementRecords
<1>11. new \in Bindings
  <2>1. bindings \in Bindings
    BY <1>1 DEF TypeOK
  <2>. HIDE DEF tasks
  <2>. QED
    BY <2>1, BindingsTyping
<1>12. files0 \in SUBSET Targets
  BY DEF FilesOf, Targets
<1>13. row0 \in Rows
  <2>1. state[active].revision + 1 \in Nat
    BY <1>1, FieldTyping
  <2>2. row[active] \in Rows
    BY <1>1 DEF TypeOK
  <2>. QED
    BY <2>1, <2>2 DEF RowAfter, Rows
<1>14. /\ channel0 \in [who : Participants, conv : Conversations]
       /\ role = "planner" => channel0 \in Channels
  BY <1>2, RegisteredParticipants DEF Channels
<1>15. call' = [task |-> active, role |-> role, from |-> from, to |-> to,
                alive |-> TRUE, todo |-> files0, state |-> after,
                record |-> record, bindings |-> new, row |-> row0,
                channel |-> channel0]
  BY DEF Begin
<1>. HIDE DEF after, record, new, files0, row0, channel0
<1>16. call' \in Calls
  BY <1>1, <1>3, <1>10, <1>11, <1>12, <1>13, <1>14, <1>15 DEF Calls
<1>17. call' # None
  BY <1>16, CallsAssumption
<1>18. /\ calls' = calls + 1 /\ calls < MaxCalls
       /\ UNCHANGED <<active, state, refs, records, bindings, profile, row, channel, torn>>
  BY DEF Begin, files
<1>. QED
  BY <1>2, <1>8, <1>9, <1>14, <1>15, <1>16, <1>17, <1>18
     DEF Begun, after, record, new, files0, row0, tasks

\* A write takes its file from the list and leaves the rest of the call alone; what
\* comes before it in the order has been written.
LEMMA WritingCall ==
  ASSUME TypeOK, NEW f \in Targets, Writing(f)
  PROVE  /\ call \in Calls /\ call # None /\ call' \in Calls /\ call' # None
         /\ f \in call.todo /\ call'.todo = call.todo \ {f}
         /\ call' = [call EXCEPT !.todo = call.todo \ {f}]
         /\ \A g \in call.todo : WriteOrder(f) <= WriteOrder(g)
         /\ UNCHANGED <<active, calls, torn>>
<1>1. call \in Calls /\ call # None
  BY DEF TypeOK, Writing
<1>2. call' = [call EXCEPT !.todo = call.todo \ {f}]
  BY DEF Writing
<1>3. call' \in Calls /\ call'.todo = call.todo \ {f}
  BY <1>1, <1>2 DEF Calls
<1>. QED
  BY <1>1, <1>2, <1>3, CallsAssumption DEF Writing

\* The steps, with the arguments of a replacement taken apart.
BeginAny ==
  \E role \in Roles, from \in Participants, to \in Participants, scope \in Scopes,
     stopped \in BOOLEAN, conv \in Conversations :
    Begin(role, from, to, scope, stopped, conv)

LEMMA BeginAnyCall ==
  ASSUME MaxCalls \in 0..1000, ReplaceInvariant, BeginAny
  PROVE  \E role \in Roles, from \in Participants, to \in Participants, scope \in Scopes :
           Begun(role, from, to, scope)
<1>1. PICK role \in Roles, from \in Participants, to \in Participants,
           scope \in Scopes, stopped \in BOOLEAN, conv \in Conversations :
        Begin(role, from, to, scope, stopped, conv)
  BY DEF BeginAny
<1>2. Begun(role, from, to, scope)
  BY <1>1, BeginCall
<1>. QED
  BY <1>2

LEMMA NextCases ==
  ASSUME [Next]_vars
  PROVE  \/ BeginAny
         \/ WriteRecord \/ WriteState \/ WriteBindings \/ WriteProfile \/ WriteRow
         \/ WriteChannel \/ Return \/ Die \/ ReleaseStaleLock
         \/ \E t \in Tasks : MoveTask(t) \/ SwitchTask(t)
         \/ UNCHANGED vars
<1>1. ASSUME NEW a \in Arguments, Begin(a.role, a.from, a.to, a.scope, a.stopped, a.conv)
      PROVE  BeginAny
  BY <1>1 DEF Arguments, BeginAny
<1>. QED
  BY <1>1 DEF Next

\* What a step may touch.
LEMMA QuietSteps ==
  ASSUME [Next]_vars
  PROVE  /\ WriteRecord \/ records' = records
         /\ WriteState \/ refs' = refs
         /\ WriteState \/ (\E t \in Tasks : MoveTask(t)) \/ state' = state
         /\ WriteBindings \/ bindings' = bindings
         /\ WriteRow \/ row' = row
         /\ BeginAny \/ calls' = calls
         /\ Die \/ torn' = torn
<1>1. CASE BeginAny
  <2>1. PICK role \in Roles, from \in Participants, to \in Participants,
             scope \in Scopes, stopped \in BOOLEAN, conv \in Conversations :
          Begin(role, from, to, scope, stopped, conv)
    BY <1>1 DEF BeginAny
  <2>2. UNCHANGED <<active, files, torn>>
    BY <2>1 DEF Begin
  <2>. QED
    BY <1>1, <2>2 DEF files
<1>2. CASE WriteRecord \/ WriteState \/ WriteBindings \/ WriteRow \/ WriteChannel
  BY <1>2 DEF WriteRecord, WriteState, WriteBindings, WriteRow, WriteChannel, Writing
<1>3. CASE WriteProfile
  BY <1>3 DEF WriteProfile, Writing
<1>4. CASE Return \/ Die \/ ReleaseStaleLock \/ UNCHANGED vars
  BY <1>4 DEF Return, Die, ReleaseStaleLock, vars, files
<1>5. CASE \E t \in Tasks : MoveTask(t) \/ SwitchTask(t)
  BY <1>5 DEF MoveTask, SwitchTask, files
<1>. QED
  BY <1>1, <1>2, <1>3, <1>4, <1>5, NextCases

\* The call of the next state is the same call, with no more left to do.
SameCall ==
  /\ call \in Calls /\ call # None /\ call' \in Calls /\ call' # None
  /\ call'.task = call.task /\ call'.role = call.role
  /\ call'.from = call.from /\ call'.to = call.to
  /\ call'.state = call.state /\ call'.record = call.record
  /\ call'.bindings = call.bindings
  /\ call'.row = call.row /\ call'.channel = call.channel
  /\ call'.todo \subseteq call.todo

LEMMA WritingKeeps ==
  ASSUME TypeOK, NEW f \in Targets, Writing(f)
  PROVE  /\ SameCall /\ call'.alive = call.alive
         /\ f \in call.todo /\ call'.todo = call.todo \ {f}
         /\ \A g \in call.todo : WriteOrder(f) <= WriteOrder(g)
<1>1. /\ call \in Calls /\ call # None /\ call' \in Calls /\ call' # None
      /\ f \in call.todo /\ call'.todo = call.todo \ {f}
      /\ call' = [call EXCEPT !.todo = call.todo \ {f}]
      /\ \A g \in call.todo : WriteOrder(f) <= WriteOrder(g)
  BY WritingCall
<1>. QED
  BY <1>1 DEF SameCall, Calls

\* Which step does what to the call, and what it leaves to do.
LEMMA CallSteps ==
  ASSUME TypeOK, [Next]_vars
  PROVE  \/ BeginAny
         \/ WriteRecord /\ SameCall /\ call'.todo = call.todo \ {"record"}
         \/ WriteState /\ SameCall /\ call'.todo = call.todo \ {"state"}
         \/ WriteBindings /\ SameCall /\ call'.todo = call.todo \ {"bindings"}
         \/ /\ SameCall /\ UNCHANGED <<state, refs, records, bindings>>
            /\ \A f \in {"record", "state", "bindings"} : f \in call.todo => f \in call'.todo
         \/ call' = None
<1>1. CASE WriteRecord \/ WriteState \/ WriteBindings
  BY <1>1, WritingKeeps DEF WriteRecord, WriteState, WriteBindings, Targets
<1>2. CASE WriteProfile
  <2>1. PICK f \in {"from", "to"} : Writing(f)
    BY <1>2 DEF WriteProfile
  <2>2. SameCall /\ call'.todo = call.todo \ {f}
    BY <2>1, WritingKeeps DEF Targets
  <2>. QED
    BY <1>2, <2>2 DEF WriteProfile
<1>3. CASE WriteRow \/ WriteChannel
  BY <1>3, WritingKeeps DEF WriteRow, WriteChannel, Targets
<1>4. CASE Die
  <2>1. call \in Calls /\ call # None /\ call' = [call EXCEPT !.alive = FALSE]
    BY <1>4 DEF TypeOK, Die
  <2>2. SameCall /\ call'.todo = call.todo
    BY <2>1, CallsAssumption DEF SameCall, Calls
  <2>. QED
    BY <1>4, <2>2 DEF Die, files
<1>5. CASE Return \/ ReleaseStaleLock
  BY <1>5 DEF Return, ReleaseStaleLock
<1>6. CASE \/ \E t \in Tasks : MoveTask(t)
           \/ \E t \in Tasks : SwitchTask(t)
           \/ UNCHANGED vars
  <2>1. call' = call
    BY <1>6 DEF MoveTask, SwitchTask, vars
  <2>2. ASSUME call # None PROVE SameCall /\ UNCHANGED <<state, refs, records, bindings>>
    <3>1. call \in Calls
      BY <2>2 DEF TypeOK
    <3>2. UNCHANGED <<state, refs, records, bindings>>
      BY <1>6, <2>2 DEF MoveTask, SwitchTask, vars, files
    <3>. QED
      BY <2>1, <2>2, <3>1, <3>2 DEF SameCall
  <2>. QED
    BY <2>1, <2>2
<1>. QED
  BY <1>1, <1>2, <1>3, <1>4, <1>5, <1>6, NextCases

---------------------------------------------------------------------------
(* The inductive invariant, part by part.                                  *)

\* Every file keeps its type, and every task stays well assigned.
LEMMA StepFiles ==
  ASSUME MaxCalls \in 0..1000, ReplaceInvariant, [Next]_vars
  PROVE  (TypeOK /\ \A t \in Tasks : WellAssigned(state[t]))'
<1>. DEFINE Goal == (TypeOK /\ \A t \in Tasks : WellAssigned(state[t]))'
<1>0. TypeOK /\ \A t \in Tasks : WellAssigned(state[t])
  BY DEF ReplaceInvariant
<1>1. ASSUME BeginAny PROVE Goal
  <2>1. PICK role \in Roles, from \in Participants, to \in Participants, scope \in Scopes :
          Begun(role, from, to, scope)
    BY <1>1, BeginAnyCall
  <2>2. call' \in Calls
    BY <2>1 DEF Begun
  <2>3. calls' = calls + 1 /\ calls < MaxCalls /\ UNCHANGED <<active, files>>
    BY <2>1 DEF Begun, files
  <2>. QED
    BY <1>0, <2>2, <2>3 DEF TypeOK, files
<1>2. ASSUME WriteRecord PROVE Goal
  <2>1. call \in Calls /\ call' \in Calls /\ UNCHANGED <<active, calls>>
    BY <1>0, <1>2, WritingCall DEF WriteRecord, Targets
  <2>2. call.task \in Tasks /\ call.record \in ManagementRecords
    BY <2>1 DEF Calls
  <2>3. records' \in [Tasks -> SUBSET ManagementRecords]
    BY <1>0, <1>2, <2>2 DEF TypeOK, WriteRecord
  <2>. QED
    BY <1>0, <1>2, <2>1, <2>3 DEF TypeOK, WriteRecord
<1>3. ASSUME WriteState PROVE Goal
  <2>1. call \in Calls /\ call' \in Calls /\ UNCHANGED <<active, calls>>
        /\ call # None /\ "state" \in call.todo
    BY <1>0, <1>3, WritingCall DEF WriteState, Targets
  <2>2. /\ call.task \in Tasks /\ call.state \in TaskRecords /\ call.role \in Roles
        /\ call.record \in ManagementRecords
    BY <2>1 DEF Calls
  <2>3. call.record.no \in 0..1000
    BY <2>2 DEF ManagementRecords
  <2>4. WellAssigned(call.state)
    <3>1. /\ call.state = AfterReplace(state[call.task], call.role, call.to)
          /\ call.to \in ParticipantsOf(call.role)
      BY <2>1 DEF ReplaceInvariant, CallIsCurrent
    <3>2. state[call.task] \in TaskRecords
      BY <1>0, <2>2 DEF TypeOK
    <3>3. WellAssigned(state[call.task])
      BY <1>0, <2>2
    <3>4. WellAssigned(AfterReplace(state[call.task], call.role, call.to))
      BY <2>2, <3>1, <3>2, <3>3, ReplaceKeeps
    <3>. QED
      BY Zenon, <3>1, <3>4
  <2>5. /\ state' \in [Tasks -> TaskRecords]
        /\ \A t \in Tasks : state'[t] = state[t] \/ state'[t] = call.state
    BY <1>0, <1>3, <2>2 DEF TypeOK, WriteState
  <2>6. refs' \in [Tasks -> [Roles -> 0..1000]]
    <3>. DEFINE new == [refs[call.task] EXCEPT ![call.role] = call.record.no]
    <3>1. refs \in [Tasks -> [Roles -> 0..1000]]
      BY <1>0 DEF TypeOK
    <3>2. new \in [Roles -> 0..1000]
      <4>1. refs[call.task] \in [Roles -> 0..1000]
        BY <2>2, <3>1
      <4>. QED
        BY <2>3, <4>1
    <3>3. refs' = [refs EXCEPT ![call.task] = new]
      BY <1>3, <2>2, <3>1 DEF WriteState
    <3>. HIDE DEF new
    <3>. QED
      BY <2>2, <3>1, <3>2, <3>3
  <2>7. TypeOK'
    BY <1>0, <1>3, <2>1, <2>5, <2>6 DEF TypeOK, WriteState
  <2>8. \A t \in Tasks : WellAssigned(state'[t])
    BY <1>0, <2>4, <2>5
  <2>. QED
    BY <2>7, <2>8
<1>4. ASSUME WriteBindings PROVE Goal
  <2>1. call \in Calls /\ call' \in Calls /\ UNCHANGED <<active, calls>>
    BY <1>0, <1>4, WritingCall DEF WriteBindings, Targets
  <2>2. call.bindings \in Bindings
    BY <2>1 DEF Calls
  <2>. QED
    BY <1>0, <1>4, <2>1, <2>2 DEF TypeOK, WriteBindings
<1>5. ASSUME WriteProfile PROVE Goal
  <2>1. PICK f \in {"from", "to"}, p \in {call.from, call.to} :
          /\ Writing(f)
          /\ profile' = [profile EXCEPT ![p] = call.bindings.status[p]]
          /\ UNCHANGED <<state, refs, records, bindings, row, channel>>
    BY <1>5 DEF WriteProfile
  <2>2. call \in Calls /\ call' \in Calls /\ UNCHANGED <<active, calls>>
    BY <1>0, <2>1, WritingCall DEF Targets
  <2>3. p \in Participants /\ call.bindings.status[p] \in Identity
    BY <2>2 DEF Calls, Bindings
  <2>4. profile' \in [Participants -> Identity]
    BY <1>0, <2>1, <2>3 DEF TypeOK
  <2>. QED
    BY <1>0, <2>1, <2>2, <2>4 DEF TypeOK
<1>6. ASSUME WriteRow PROVE Goal
  <2>1. call \in Calls /\ call' \in Calls /\ UNCHANGED <<active, calls>>
    BY <1>0, <1>6, WritingCall DEF WriteRow, Targets
  <2>2. call.task \in Tasks /\ call.row \in Rows
    BY <2>1 DEF Calls
  <2>. QED
    BY <1>0, <1>6, <2>1, <2>2 DEF TypeOK, WriteRow
<1>7. ASSUME WriteChannel PROVE Goal
  <2>1. call \in Calls /\ call' \in Calls /\ UNCHANGED <<active, calls>>
        /\ call # None /\ "channel" \in call.todo
    BY <1>0, <1>7, WritingCall DEF WriteChannel, Targets
  <2>2. call.channel \in Channels
    BY <2>1 DEF ReplaceInvariant, CallIsCurrent
  <2>. QED
    BY <1>0, <1>7, <2>1, <2>2 DEF TypeOK, WriteChannel
<1>8. ASSUME Return \/ ReleaseStaleLock PROVE Goal
  BY <1>0, <1>8 DEF TypeOK, Return, ReleaseStaleLock, files
<1>9. ASSUME Die PROVE Goal
  <2>1. call \in Calls
    BY <1>0, <1>9 DEF TypeOK, Die
  <2>2. call' \in Calls
    BY <1>9, <2>1 DEF Die, Calls
  <2>. QED
    BY <1>0, <1>9, <2>2 DEF TypeOK, Die, files
<1>10. ASSUME NEW t \in Tasks, MoveTask(t) PROVE Goal
  <2>1. PICK s \in Moves(state[t]) : state' = [state EXCEPT ![t] = s]
    BY <1>10 DEF MoveTask
  <2>2. s \in TaskRecords /\ WellAssigned(s)
    BY <1>0, <2>1, MovesKeep DEF TypeOK
  <2>3. /\ state' \in [Tasks -> TaskRecords]
        /\ \A u \in Tasks : state'[u] = state[u] \/ state'[u] = s
    BY <1>0, <2>1, <2>2 DEF TypeOK
  <2>4. \A u \in Tasks : WellAssigned(state'[u])
    BY <1>0, <2>2, <2>3
  <2>. QED
    BY <1>0, <1>10, <2>3, <2>4 DEF TypeOK, MoveTask
<1>11. ASSUME NEW t \in Tasks, SwitchTask(t) PROVE Goal
  BY <1>0, <1>11 DEF TypeOK, SwitchTask, files
<1>12. CASE UNCHANGED vars
  BY <1>0, <1>12 DEF TypeOK, vars, files
<1>. QED
  BY <1>1, <1>2, <1>3, <1>4, <1>5, <1>6, <1>7, <1>8, <1>9, <1>10, <1>11, <1>12,
     NextCases

\* A record that is written takes a number of its own: no record goes.
LEMMA RecordsGrow ==
  ASSUME ReplaceInvariant, [Next]_vars
  PROVE  \A t \in Tasks : records[t] \subseteq records'[t]
<1>1. CASE WriteRecord
  <2>1. TypeOK /\ call # None /\ "record" \in call.todo
    BY <1>1, WritingCall DEF WriteRecord, Targets, ReplaceInvariant
  <2>2. /\ \A r \in records[call.task] : r.no < call.record.no
        /\ call.task \in Tasks /\ call.record.no \in Nat
    <3>1. \A r \in records[call.task] : r.no < call.record.no
      BY <2>1 DEF ReplaceInvariant, CallRecords
    <3>2. call \in Calls
      BY <2>1 DEF TypeOK
    <3>3. call.task \in Tasks /\ call.record \in ManagementRecords
      BY <3>2 DEF Calls
    <3>4. call.record.no \in Nat
      BY <3>3 DEF ManagementRecords
    <3>. QED
      BY <3>1, <3>3, <3>4
  <2>3. \A r \in records[call.task] : r.no # call.record.no
    <3>1. records[call.task] \subseteq ManagementRecords
      BY <2>1, <2>2 DEF TypeOK
    <3>2. \A r \in records[call.task] : r.no \in Nat
      BY <3>1 DEF ManagementRecords
    <3>. QED
      BY <2>2, <3>2
  <2>. QED
    BY <1>1, <2>1, <2>2, <2>3 DEF WriteRecord, TypeOK
<1>2. CASE records' = records
  BY <1>2
<1>. QED
  BY <1>1, <1>2, QuietSteps

\* A reference leads to its record: the record is there before the task names it.
LEMMA StepReferences ==
  ASSUME ReplaceInvariant, [Next]_vars
  PROVE  RefsResolve'
<1>0. TypeOK /\ RefsResolve /\ \A t \in Tasks : WellAssigned(state[t])
  BY DEF ReplaceInvariant
<1>1. \A t \in Tasks : records[t] \subseteq records'[t]
  BY RecordsGrow
<1>2. CASE WriteState
  <2>1. call # None /\ call \in Calls /\ "state" \in call.todo
        /\ \A g \in call.todo : WriteOrder("state") <= WriteOrder(g)
    BY <1>0, <1>2, WritingCall DEF WriteState, Targets
  <2>2. "record" \notin call.todo
    BY <2>1, WriteOrders
  <2>3. /\ call.record \in records[call.task]
        /\ call.record.role = call.role /\ call.record.to = call.to
        /\ call.record.input = state[call.task].revision
        /\ call.state = AfterReplace(state[call.task], call.role, call.to)
        /\ call.to \in ParticipantsOf(call.role)
    BY <2>1, <2>2 DEF ReplaceInvariant, CallRecords, CallIsCurrent
  <2>4. call.task \in Tasks /\ call.role \in Roles /\ state[call.task] \in TaskRecords
    BY <1>0, <2>1 DEF TypeOK, Calls
  <2>5. /\ call.state.assignments = [state[call.task].assignments EXCEPT ![call.role] = call.to]
        /\ call.state.revision = state[call.task].revision + 1
    <3>1. WellAssigned(state[call.task])
      BY <1>0, <2>4
    <3>. QED
      BY <2>3, <2>4, <3>1, ReplaceKeeps
  <2>6. /\ state[call.task].revision \in Nat
        /\ state[call.task].assignments \in [Roles -> Participants]
    BY <2>4, FieldTyping DEF TaskRecords
  <2>7. /\ state' = [state EXCEPT ![call.task] = call.state]
        /\ refs' = [refs EXCEPT ![call.task][call.role] = call.record.no]
        /\ records' = records
    BY <1>2 DEF WriteState
  <2>8. /\ state \in [Tasks -> TaskRecords]
        /\ refs \in [Tasks -> [Roles -> 0..1000]]
    BY <1>0 DEF TypeOK
  <2>9. ASSUME NEW t \in Tasks, NEW role \in Roles, refs'[t][role] # 0
        PROVE  \E r \in records[t] :
                 /\ r.no = refs'[t][role] /\ r.role = role
                 /\ r.to = state'[t].assignments[role]
                 /\ r.input < state'[t].revision
    <3>1. CASE t = call.task /\ role = call.role
      <4>1. state'[t] = call.state /\ refs'[t][role] = call.record.no
        BY <2>7, <2>8, <3>1
      <4>2. state'[t].assignments[role] = call.to
        BY <2>5, <2>6, <3>1, <4>1
      <4>3. call.record.input < state'[t].revision
        BY <2>3, <2>5, <2>6, <4>1
      <4>. QED
        BY <2>3, <3>1, <4>1, <4>2, <4>3
    <3>2. CASE t = call.task /\ role # call.role
      <4>1. state'[t] = call.state /\ refs'[t][role] = refs[t][role]
        BY <2>7, <2>8, <3>2
      <4>2. /\ state'[t].assignments[role] = state[t].assignments[role]
            /\ state'[t].revision = state[t].revision + 1
        BY <2>5, <2>6, <3>2, <4>1
      <4>3. PICK r \in records[t] :
              /\ r.no = refs[t][role] /\ r.role = role
              /\ r.to = state[t].assignments[role]
              /\ r.input < state[t].revision
        BY <1>0, <2>9, <4>1 DEF RefsResolve
      <4>4. r.input \in Nat
        BY <1>0, <4>3 DEF TypeOK, ManagementRecords
      <4>5. r.input < state'[t].revision
        BY <2>6, <3>2, <4>2, <4>3, <4>4
      <4>. QED
        BY <4>1, <4>2, <4>3, <4>5
    <3>3. CASE t # call.task
      <4>1. state'[t] = state[t] /\ refs'[t] = refs[t]
        BY <2>7, <2>8, <3>3
      <4>. QED
        BY <1>0, <2>9, <4>1 DEF RefsResolve
    <3>. QED
      BY <3>1, <3>2, <3>3
  <2>. QED
    BY <2>7, <2>9 DEF RefsResolve
<1>3. ASSUME NEW u \in Tasks, MoveTask(u) PROVE RefsResolve'
  <2>1. PICK m \in Moves(state[u]) : state' = [state EXCEPT ![u] = m]
    BY <1>3 DEF MoveTask
  <2>2. /\ m.assignments = state[u].assignments
        /\ m.revision \in {state[u].revision, state[u].revision + 1}
        /\ state[u].revision \in Nat
    BY <1>0, <2>1, MovesKeep, FieldTyping DEF TypeOK
  <2>3. \A t \in Tasks : /\ state'[t].assignments = state[t].assignments
                         /\ state'[t].revision \in {state[t].revision, state[t].revision + 1}
    BY <1>0, <2>1, <2>2 DEF TypeOK
  <2>4. refs' = refs /\ records' = records
    BY <1>3 DEF MoveTask
  <2>5. \A t \in Tasks : \A r \in records[t] :
          r.input < state[t].revision => r.input < state'[t].revision
    <3>. TAKE t \in Tasks
    <3>. TAKE r \in records[t]
    <3>1. records[t] \subseteq ManagementRecords /\ state[t] \in TaskRecords
      BY <1>0 DEF TypeOK
    <3>2. r.input \in Nat /\ state[t].revision \in Nat
      BY <3>1, FieldTyping DEF ManagementRecords
    <3>. QED
      BY <2>3, <3>2
  <2>. QED
    BY <1>0, <2>3, <2>4, <2>5 DEF RefsResolve
<1>4. CASE state' = state /\ refs' = refs
  BY <1>0, <1>1, <1>4 DEF RefsResolve
<1>. QED
  BY <1>2, <1>3, <1>4, QuietSteps DEF MoveTask

\* The row is written after the task it is about, with its revision.
LEMMA StepRow ==
  ASSUME ReplaceInvariant, [Next]_vars
  PROVE  RowIsNotAhead'
<1>0. TypeOK /\ RowIsNotAhead /\ \A t \in Tasks : WellAssigned(state[t])
  BY DEF ReplaceInvariant
<1>1. \A t \in Tasks : row[t].revision \in Nat /\ state[t].revision \in Nat
  BY <1>0, FieldTyping DEF TypeOK, Rows
<1>2. CASE WriteState
  <2>1. call # None /\ call \in Calls /\ "state" \in call.todo
    BY <1>0, <1>2, WritingCall DEF WriteState, Targets
  <2>2. /\ call.state = AfterReplace(state[call.task], call.role, call.to)
        /\ call.to \in ParticipantsOf(call.role)
        /\ call.task \in Tasks /\ call.role \in Roles
    BY <2>1 DEF ReplaceInvariant, CallIsCurrent, Calls
  <2>3. state[call.task] \in TaskRecords /\ WellAssigned(state[call.task])
    BY <1>0, <2>2 DEF TypeOK
  <2>4. call.state.revision = state[call.task].revision + 1
    <3>1. AfterReplace(state[call.task], call.role, call.to).revision
            = state[call.task].revision + 1
      BY <2>2, <2>3, ReplaceKeeps
    <3>. QED
      BY Zenon, <2>2, <3>1
  <2>5. /\ state' = [state EXCEPT ![call.task] = call.state] /\ row' = row
        /\ state \in [Tasks -> TaskRecords]
    BY <1>0, <1>2 DEF WriteState, TypeOK
  <2>6. \A t \in Tasks :
          state'[t].revision \in {state[t].revision, state[t].revision + 1}
    BY <2>2, <2>4, <2>5
  <2>. QED
    BY <1>0, <1>1, <2>5, <2>6 DEF RowIsNotAhead
<1>3. CASE WriteRow
  <2>1. call # None /\ call \in Calls /\ "row" \in call.todo
        /\ \A g \in call.todo : WriteOrder("row") <= WriteOrder(g)
    BY <1>0, <1>3, WritingCall DEF WriteRow, Targets
  <2>2. "state" \notin call.todo
    BY <2>1, WriteOrders
  <2>3. call.row.revision = state[call.task].revision /\ call.task \in Tasks
    BY <2>1, <2>2 DEF ReplaceInvariant, CallIsCurrent, Calls
  <2>4. row' = [row EXCEPT ![call.task] = call.row] /\ state' = state
    BY <1>3 DEF WriteRow
  <2>. QED
    BY <1>0, <1>1, <2>3, <2>4 DEF RowIsNotAhead, TypeOK
<1>4. ASSUME NEW u \in Tasks, MoveTask(u) PROVE RowIsNotAhead'
  <2>1. PICK m \in Moves(state[u]) : state' = [state EXCEPT ![u] = m]
    BY <1>4 DEF MoveTask
  <2>2. m.revision \in {state[u].revision, state[u].revision + 1}
    BY <1>0, <2>1, MovesKeep DEF TypeOK
  <2>3. \A t \in Tasks :
          state'[t].revision \in {state[t].revision, state[t].revision + 1}
    BY <1>0, <2>1, <2>2 DEF TypeOK
  <2>4. row' = row
    BY <1>4 DEF MoveTask
  <2>. QED
    BY <1>0, <1>1, <2>3, <2>4 DEF RowIsNotAhead
<1>5. CASE state' = state /\ row' = row
  BY <1>0, <1>5 DEF RowIsNotAhead
<1>. QED
  BY <1>2, <1>3, <1>4, <1>5, QuietSteps DEF MoveTask

\* The records are numbered one after the other, one replacement one number.
LEMMA StepNumbers ==
  ASSUME MaxCalls \in 0..1000, ReplaceInvariant, [Next]_vars
  PROVE  NumbersCountCalls'
<1>0. TypeOK /\ NumbersCountCalls /\ calls \in Nat
  BY DEF ReplaceInvariant, TypeOK
<1>1. CASE BeginAny
  <2>1. calls' = calls + 1 /\ records' = records
    BY <1>1 DEF BeginAny, Begin, files
  <2>2. 0..calls \subseteq 0..calls'
    BY <1>0, <2>1
  <2>. QED
    BY <1>0, <2>1, <2>2 DEF NumbersCountCalls, NumberedUpTo
<1>2. CASE WriteRecord
  <2>1. call # None /\ call \in Calls /\ "record" \in call.todo
    BY <1>0, <1>2, WritingCall DEF WriteRecord, Targets
  <2>2. /\ call.task \in Tasks /\ call.record \in ManagementRecords
        /\ call.record.no <= calls
        /\ \A r \in records[call.task] : r.no < call.record.no
    BY <2>1 DEF ReplaceInvariant, CallRecords, Calls
  <2>3. call.record.no \in 0..calls
    BY <1>0, <2>2 DEF ManagementRecords
  <2>4. /\ records' = [records EXCEPT ![call.task] =
              {r \in records[call.task] : r.no # call.record.no} \cup {call.record}]
        /\ calls' = calls
    BY <1>2 DEF WriteRecord, Writing
  <2>5. records \in [Tasks -> SUBSET ManagementRecords]
    BY <1>0 DEF TypeOK
  <2>6. \A r \in records[call.task] : r.no <= call.record.no
    <3>1. records[call.task] \subseteq ManagementRecords
      BY <2>2, <2>5
    <3>2. \A r \in records[call.task] : r.no \in Nat
      BY <3>1 DEF ManagementRecords
    <3>3. call.record.no \in Nat
      BY <2>3
    <3>. QED
      BY <2>2, <3>2, <3>3
  <2>7. records'[call.task] =
          {r \in records[call.task] : r.no # call.record.no} \cup {call.record}
    BY <2>2, <2>4, <2>5
  <2>8. call.record.no <= call.record.no
    BY <2>3
  <2>9. \A t \in Tasks : t # call.task => records'[t] = records[t]
    BY <2>4, <2>5
  <2>10. ASSUME NEW t \in Tasks PROVE \E n \in 0..calls : NumberedUpTo(t, n)'
    <3>1. CASE t = call.task
      BY <2>3, <2>6, <2>7, <2>8, <3>1 DEF NumberedUpTo
    <3>2. CASE t # call.task
      BY <1>0, <2>9, <3>2 DEF NumbersCountCalls, NumberedUpTo
    <3>. QED
      BY <3>1, <3>2
  <2>. QED
    BY <2>4, <2>10 DEF NumbersCountCalls
<1>3. CASE calls' = calls /\ records' = records
  BY <1>0, <1>3 DEF NumbersCountCalls, NumberedUpTo
<1>. QED
  BY <1>1, <1>2, <1>3, QuietSteps

\* The record goes before the task, and the task has not moved since the record
\* was made up.
LEMMA StepCallRecords ==
  ASSUME MaxCalls \in 0..1000, ReplaceInvariant, [Next]_vars
  PROVE  CallRecords'
<1>0. TypeOK /\ CallRecords
  BY DEF ReplaceInvariant
<1>1. CASE BeginAny
  <2>1. PICK role \in Roles, from \in Participants, to \in Participants, scope \in Scopes :
          Begun(role, from, to, scope)
    BY <1>1, BeginAnyCall
  <2>2. /\ call'.task = active /\ call'.role = role /\ call'.to = to
        /\ call'.todo = FilesOf(role, from, to, scope)
        /\ call'.record = Record(active, role, from, to, call'.state)
        /\ call'.record.no \in 1..calls'
        /\ \A r \in records[active] : r.no < call'.record.no
    BY <2>1 DEF Begun
  <2>3. state' = state /\ records' = records
    BY <2>1 DEF Begun
  <2>4. /\ call'.record.role = role /\ call'.record.to = to
        /\ call'.record.input = state[active].revision
    BY <2>2 DEF Record
  <2>5. "record" \in call'.todo <=> "state" \in call'.todo
    BY <2>2 DEF FilesOf
  <2>6. call'.record.no <= calls'
    BY <2>2
  <2>. QED
    BY <2>2, <2>3, <2>4, <2>5, <2>6 DEF CallRecords
<1>2. CASE WriteRecord /\ SameCall /\ call'.todo = call.todo \ {"record"}
  <2>1. call.task \in Tasks /\ "record" \in call.todo
    BY <1>0, <1>2, WritingCall DEF WriteRecord, Targets, SameCall, Calls
  <2>2. call.record \in records'[call.task] /\ state' = state
    BY <1>0, <1>2, <2>1 DEF WriteRecord, TypeOK
  <2>. QED
    BY <1>0, <1>2, <2>2 DEF CallRecords, SameCall
<1>3. CASE WriteState /\ SameCall /\ call'.todo = call.todo \ {"state"}
  <2>1. \A g \in call.todo : WriteOrder("state") <= WriteOrder(g)
    BY <1>0, <1>3, WritingCall DEF WriteState, Targets
  <2>2. "record" \notin call'.todo /\ "state" \notin call'.todo
    BY <1>3, <2>1, WriteOrders
  <2>. QED
    BY <2>2 DEF CallRecords
<1>4. CASE /\ SameCall /\ UNCHANGED <<state, records, calls>>
           /\ \A f \in {"record", "state"} : f \in call.todo => f \in call'.todo
  BY <1>0, <1>4 DEF CallRecords, SameCall
<1>5. CASE call' = None
  BY <1>5 DEF CallRecords
<1>6. CASE /\ SameCall /\ UNCHANGED <<state, refs, records, bindings>>
           /\ \A f \in {"record", "state", "bindings"} : f \in call.todo => f \in call'.todo
  BY <1>1, <1>4, <1>6, QuietSteps
<1>7. CASE WriteBindings /\ SameCall /\ call'.todo = call.todo \ {"bindings"}
  BY <1>4, <1>7 DEF WriteBindings, Writing
<1>. QED
  BY <1>0, <1>1, <1>2, <1>3, <1>5, <1>6, <1>7, CallSteps

\* What the call has computed is still so when it is written.
LEMMA StepCurrent ==
  ASSUME MaxCalls \in 0..1000, ReplaceInvariant, [Next]_vars
  PROVE  CallIsCurrent'
<1>0. TypeOK /\ CallIsCurrent /\ \A t \in Tasks : WellAssigned(state[t])
  BY DEF ReplaceInvariant
<1>1. CASE BeginAny
  <2>1. PICK role \in Roles, from \in Participants, to \in Participants, scope \in Scopes :
          Begun(role, from, to, scope)
    BY <1>1, BeginAnyCall
  <2>2. /\ call'.task = active /\ call'.role = role /\ call'.from = from
        /\ call'.to = to /\ to # from /\ to \in ParticipantsOf(role)
        /\ call'.todo = FilesOf(role, from, to, scope)
        /\ call'.state = IF OfTask(scope) THEN AfterReplace(state[active], role, to)
                         ELSE state[active]
        /\ call'.bindings = BindingsAfter(bindings, [state EXCEPT ![active] = call'.state],
                              role, from, to, scope)
        /\ call'.row = RowAfter(active, role, to)
        /\ role = "planner" => call'.channel \in Channels
    BY <2>1 DEF Begun
  <2>3. state' = state /\ bindings' = bindings
    BY <2>1 DEF Begun
  <2>4. /\ "state" \in call'.todo <=> OfTask(scope)
        /\ "row" \in call'.todo <=> OfTask(scope)
        /\ "channel" \in call'.todo <=> role = "planner"
        /\ "bindings" \in call'.todo
    BY <2>2 DEF FilesOf
  <2>5. OfTask(scope) => call'.row.revision = call'.state.revision
    <3>1. state[active] \in TaskRecords /\ WellAssigned(state[active])
      BY <1>0 DEF TypeOK
    <3>2. AfterReplace(state[active], role, to).revision = state[active].revision + 1
      BY <2>2, <3>1, ReplaceKeeps
    <3>3. RowAfter(active, role, to).revision = state[active].revision + 1
      BY DEF RowAfter
    <3>. QED
      BY <2>2, <3>2, <3>3
  <2>. QED
    BY <2>2, <2>3, <2>4, <2>5 DEF CallIsCurrent
<1>2. CASE /\ SameCall /\ UNCHANGED <<state, bindings>>
           /\ \A f \in {"state", "bindings"} : f \in call.todo => f \in call'.todo
  <2>1. /\ call # None /\ call'.task = call.task /\ call'.role = call.role
        /\ call'.from = call.from /\ call'.to = call.to /\ call'.state = call.state
        /\ call'.bindings = call.bindings /\ call'.row = call.row
        /\ call'.channel = call.channel /\ state' = state /\ bindings' = bindings
    BY <1>2 DEF SameCall
  <2>2. /\ "state" \in call'.todo <=> "state" \in call.todo
        /\ "bindings" \in call'.todo <=> "bindings" \in call.todo
        /\ "row" \in call'.todo => "row" \in call.todo
        /\ "channel" \in call'.todo => "channel" \in call.todo
    BY <1>2 DEF SameCall
  <2>3. /\ call'.to # call'.from /\ call'.to \in ParticipantsOf(call'.role)
        /\ IF "state" \in call'.todo
           THEN call'.state = AfterReplace(state'[call'.task], call'.role, call'.to)
           ELSE call'.state = state'[call'.task]
    BY <1>0, <2>1, <2>2 DEF CallIsCurrent
  <2>4. /\ "row" \in call'.todo => call'.row.revision = call'.state.revision
        /\ "channel" \in call'.todo => call'.channel \in Channels
    BY <1>0, <2>1, <2>2 DEF CallIsCurrent
  <2>5. IF "bindings" \in call'.todo
        THEN \E scope \in Scopes : call'.bindings =
               BindingsAfter(bindings', [state' EXCEPT ![call'.task] = call'.state],
                             call'.role, call'.from, call'.to, scope)
        ELSE bindings'.status[call'.to] = "active"
    <3>1. CASE "bindings" \in call.todo
      <4>1. PICK scope \in Scopes : call.bindings =
              BindingsAfter(bindings, [state EXCEPT ![call.task] = call.state],
                            call.role, call.from, call.to, scope)
        BY <1>0, <2>1, <3>1 DEF CallIsCurrent
      <4>2. call'.bindings =
              BindingsAfter(bindings', [state' EXCEPT ![call'.task] = call'.state],
                            call'.role, call'.from, call'.to, scope)
        BY Zenon, <2>1, <4>1
      <4>. QED
        BY Zenon, <2>2, <3>1, <4>2
    <3>2. CASE "bindings" \notin call.todo
      BY <1>0, <2>1, <2>2, <3>2 DEF CallIsCurrent
    <3>. QED
      BY <3>1, <3>2
  <2>. QED
    BY Zenon, <2>3, <2>4, <2>5 DEF CallIsCurrent
<1>3. CASE WriteState /\ SameCall /\ call'.todo = call.todo \ {"state"}
  <2>1. call.task \in Tasks /\ state \in [Tasks -> TaskRecords]
    BY <1>0, <1>3 DEF SameCall, Calls, TypeOK
  <2>2. state' = [state EXCEPT ![call.task] = call.state] /\ bindings' = bindings
    BY <1>3 DEF WriteState
  <2>3. /\ state'[call.task] = call.state
        /\ [state' EXCEPT ![call.task] = call.state] = [state EXCEPT ![call.task] = call.state]
    BY <2>1, <2>2
  <2>. QED
    BY <1>0, <1>3, <2>2, <2>3 DEF CallIsCurrent, SameCall
<1>4. CASE WriteBindings /\ SameCall /\ call'.todo = call.todo \ {"bindings"}
  <2>1. "bindings" \in call.todo
    BY <1>0, <1>4, WritingCall DEF WriteBindings, Targets
  <2>2. bindings' = call.bindings /\ state' = state
    BY <1>4 DEF WriteBindings
  <2>3. /\ bindings \in Bindings /\ call.role \in Roles
        /\ call.from \in Participants /\ call.to \in Participants
    BY <1>0, <1>4 DEF SameCall, Calls, TypeOK
  <2>4. bindings'.status[call.to] = "active"
    <3>1. PICK scope \in Scopes : call.bindings =
            BindingsAfter(bindings, [state EXCEPT ![call.task] = call.state],
                          call.role, call.from, call.to, scope)
      BY <1>0, <1>4, <2>1 DEF CallIsCurrent, SameCall
    <3>. DEFINE tasks == [state EXCEPT ![call.task] = call.state]
    <3>. HIDE DEF tasks
    <3>2. call.bindings = BindingsAfter(bindings, tasks, call.role, call.from, call.to, scope)
      BY <3>1 DEF tasks
    <3>. QED
      BY <2>2, <2>3, <3>2, TakenOverIsActive
  <2>. QED
    BY <1>0, <1>4, <2>2, <2>4 DEF CallIsCurrent, SameCall
<1>5. CASE WriteRecord /\ SameCall /\ call'.todo = call.todo \ {"record"}
  BY <1>2, <1>5 DEF WriteRecord
<1>6. CASE call' = None
  BY <1>6 DEF CallIsCurrent
<1>. QED
  BY <1>0, <1>1, <1>2, <1>3, <1>4, <1>5, <1>6, CallSteps

\* Whoever died over a call is remembered until the lock is taken away.
LEMMA StepTorn ==
  ASSUME MaxCalls \in 0..1000, ReplaceInvariant, [Next]_vars
  PROVE  DeadAreTorn'
<1>0. TypeOK /\ DeadAreTorn
  BY DEF ReplaceInvariant
<1>1. CASE BeginAny
  <2>1. PICK role \in Roles, from \in Participants, to \in Participants, scope \in Scopes :
          Begun(role, from, to, scope)
    BY <1>1, BeginAnyCall
  <2>2. call'.alive = TRUE
    BY <2>1 DEF Begun
  <2>. QED
    BY <2>2 DEF DeadAreTorn
<1>2. ASSUME NEW f \in Targets, Writing(f) PROVE DeadAreTorn'
  <2>1. call'.alive = call.alive
    BY <1>0, <1>2, WritingKeeps
  <2>. QED
    BY <1>2, <2>1 DEF Writing, DeadAreTorn
<1>3. CASE WriteRecord \/ WriteState \/ WriteBindings \/ WriteProfile \/ WriteRow \/ WriteChannel
  BY <1>2, <1>3 DEF WriteRecord, WriteState, WriteBindings, WriteProfile, WriteRow,
                    WriteChannel, Targets
<1>4. CASE Return \/ ReleaseStaleLock
  BY <1>4 DEF Return, ReleaseStaleLock, DeadAreTorn
<1>5. CASE Die
  <2>1. call \in Calls /\ call' = [call EXCEPT !.alive = FALSE]
    BY <1>0, <1>5 DEF TypeOK, Die
  <2>2. call'.to = call.to /\ call'.todo = call.todo
    BY <2>1 DEF Calls
  <2>. QED
    BY <1>5, <2>2 DEF Die, DeadAreTorn
<1>6. CASE UNCHANGED <<call, torn>>
  BY <1>0, <1>6 DEF DeadAreTorn
<1>7. CASE \/ \E t \in Tasks : MoveTask(t) \/ SwitchTask(t)
           \/ UNCHANGED vars
  BY <1>6, <1>7 DEF MoveTask, SwitchTask, vars
<1>. QED
  BY <1>1, <1>3, <1>4, <1>5, <1>7, NextCases

\* An identity goes on standby only when nothing names it, and nothing comes to name
\* one on standby but for the identity a call is about to activate.
LEMMA StepStandby ==
  ASSUME MaxCalls \in 0..1000, ReplaceInvariant, [Next]_vars
  PROVE  StandbyIsUnreferenced'
<1>. DEFINE Excused(p) == \/ call # None /\ call.to = p
                          \/ \E c \in torn : c.to = p /\ "bindings" \in c.todo
<1>0. /\ TypeOK /\ CallIsCurrent /\ DeadAreTorn
      /\ \A t \in Tasks : WellAssigned(state[t])
  BY DEF ReplaceInvariant
<1>1. /\ state \in [Tasks -> TaskRecords] /\ bindings \in Bindings
  BY <1>0 DEF TypeOK
<1>2. /\ Assigned(state) \subseteq Participants
      /\ Defaults(bindings) \subseteq Participants
      /\ bindings.status \in [Participants -> Identity]
  <2>1. \A t \in Tasks, role \in Roles : state[t].assignments[role] \in Participants
    BY <1>0, RegisteredParticipants DEF WellAssigned
  <2>. QED
    BY <1>1, <2>1, AssignedWhere DEF Bindings, Defaults
<1>3. \A p \in Assigned(state) \cup Defaults(bindings) :
        bindings.status[p] = "standby" => Excused(p)
  BY DEF ReplaceInvariant, StandbyIsUnreferenced
<1>4. ASSUME Assigned(state') \subseteq Assigned(state), bindings' = bindings,
             \A p \in Participants : bindings.status[p] = "standby" /\ Excused(p) => Excused(p)'
      PROVE  StandbyIsUnreferenced'
  BY <1>2, <1>3, <1>4 DEF StandbyIsUnreferenced
<1>5. ASSUME BeginAny PROVE StandbyIsUnreferenced'
  <2>1. PICK role \in Roles, from \in Participants, to \in Participants, scope \in Scopes :
          Begun(role, from, to, scope)
    BY <1>5, BeginAnyCall
  <2>2. call = None
    BY <1>5 DEF BeginAny, Begin
  <2>3. state' = state /\ bindings' = bindings /\ torn' = torn
    BY <2>1 DEF Begun
  <2>. QED
    BY <1>4, <2>2, <2>3
<1>6. CASE WriteState
  <2>1. SameCall /\ "state" \in call.todo
    BY <1>0, <1>6, WritingKeeps DEF WriteState, Targets
  <2>2. /\ call.task \in Tasks /\ call.role \in Roles
        /\ call.to \in ParticipantsOf(call.role)
        /\ call.state = AfterReplace(state[call.task], call.role, call.to)
    BY <1>0, <2>1 DEF CallIsCurrent, SameCall, Calls
  <2>3. /\ call.state.status = state[call.task].status
        /\ call.state.assignments = [state[call.task].assignments EXCEPT ![call.role] = call.to]
    <3>1. state[call.task] \in TaskRecords /\ WellAssigned(state[call.task])
      BY <1>0, <1>1, <2>2
    <3>2. LET s == AfterReplace(state[call.task], call.role, call.to)
          IN /\ s.status = state[call.task].status
             /\ s.assignments = [state[call.task].assignments EXCEPT ![call.role] = call.to]
      BY <2>2, <3>1, ReplaceKeeps
    <3>. QED
      BY Zenon, <2>2, <3>2
  <2>4. state' = [state EXCEPT ![call.task] = call.state]
    BY <1>6 DEF WriteState
  <2>5. \A t \in Tasks, role \in Roles :
          /\ state'[t].status = state[t].status
          /\ state'[t].assignments[role] \in {state[t].assignments[role], call.to}
    <3>1. \A role \in Roles :
            call.state.assignments[role] \in {state[call.task].assignments[role], call.to}
      <4>1. state[call.task].assignments \in [Roles -> Participants]
        BY <1>1, <2>2 DEF TaskRecords
      <4>. QED
        BY <2>3, <4>1
    <3>. QED
      BY <1>1, <2>2, <2>3, <2>4, <3>1
  <2>6. \A p : p \in Assigned(state') => p \in Assigned(state) \/ p = call.to
    BY <2>5, AssignedWhere
  <2>7. bindings' = bindings /\ torn' = torn
    BY <1>6 DEF WriteState, Writing
  <2>8. \A p : Excused(p) => Excused(p)'
    BY <2>1, <2>7 DEF SameCall
  <2>9. call' # None /\ call'.to = call.to
    BY <2>1 DEF SameCall
  <2>10. ASSUME NEW p \in Assigned(state') \cup Defaults(bindings'),
                bindings'.status[p] = "standby"
         PROVE  Excused(p)'
    <3>1. CASE p = call.to
      BY <2>9, <3>1
    <3>2. CASE p # call.to
      <4>1. p \in Assigned(state) \cup Defaults(bindings) /\ bindings.status[p] = "standby"
        BY <2>6, <2>7, <2>10, <3>2
      <4>. QED
        BY <1>3, <2>8, <4>1
    <3>. QED
      BY <3>1, <3>2
  <2>. QED
    BY <2>10 DEF StandbyIsUnreferenced
<1>7. CASE WriteBindings
  <2>1. /\ SameCall /\ "bindings" \in call.todo
        /\ \A g \in call.todo : WriteOrder("bindings") <= WriteOrder(g)
    BY <1>0, <1>7, WritingKeeps DEF WriteBindings, Targets
  <2>2. "state" \notin call.todo
    BY <2>1, WriteOrders
  <2>3. call.state = state[call.task] /\ call.task \in Tasks
    BY <1>0, <2>1, <2>2 DEF CallIsCurrent, SameCall, Calls
  <2>4. [state EXCEPT ![call.task] = call.state] = state
    BY <1>1, <2>3
  <2>5. PICK scope \in Scopes : call.bindings =
          BindingsAfter(bindings, [state EXCEPT ![call.task] = call.state],
                        call.role, call.from, call.to, scope)
    BY <1>0, <2>1 DEF CallIsCurrent, SameCall
  <2>6. call.bindings = BindingsAfter(bindings, state, call.role, call.from, call.to, scope)
    BY <2>4, <2>5
  <2>7. call.role \in Roles /\ call.from \in Participants /\ call.to \in Participants
    BY <2>1 DEF SameCall, Calls
  <2>8. bindings' = call.bindings /\ state' = state /\ torn' = torn
    BY <1>7 DEF WriteBindings, Writing
  <2>9. Defaults(bindings') \subseteq Participants
    <3>1. call.bindings \in Bindings
      BY <2>1 DEF SameCall, Calls
    <3>. QED
      BY <2>8, <3>1 DEF Bindings, Defaults
  <2>10. ASSUME NEW p \in Assigned(state') \cup Defaults(bindings'),
                bindings'.status[p] = "standby"
         PROVE  Excused(p)'
    <3>1. p \in Participants
      BY <1>2, <2>8, <2>9, <2>10
    <3>2. /\ p # call.to /\ bindings.status[p] = "standby"
          /\ p \in Assigned(state) \cup Defaults(bindings)
      BY <1>1, <2>6, <2>7, <2>8, <2>10, <3>1, NamedKeepStatus
    <3>. QED
      BY <1>3, <2>8, <3>2
  <2>. QED
    BY <2>10 DEF StandbyIsUnreferenced
<1>8. ASSUME NEW f \in Targets, Writing(f), UNCHANGED <<state, bindings>>
      PROVE  StandbyIsUnreferenced'
  <2>1. SameCall /\ torn' = torn
    BY <1>0, <1>8, WritingKeeps DEF Writing
  <2>. QED
    BY <1>4, <1>8, <2>1 DEF SameCall
<1>9. CASE WriteRecord \/ WriteProfile \/ WriteRow \/ WriteChannel
  BY <1>8, <1>9 DEF WriteRecord, WriteProfile, WriteRow, WriteChannel, Targets
<1>10. CASE Return
  <2>1. /\ call # None /\ call.todo = {}
        /\ UNCHANGED <<state, bindings, torn>>
    BY <1>10 DEF Return, files
  <2>2. bindings.status[call.to] = "active"
    BY <1>0, <2>1 DEF CallIsCurrent
  <2>. QED
    BY <1>4, <2>1, <2>2
<1>11. CASE ReleaseStaleLock
  <2>1. /\ call # None /\ ~call.alive
        /\ UNCHANGED <<state, bindings, torn>>
    BY <1>11 DEF ReleaseStaleLock, files
  <2>2. [to |-> call.to, todo |-> call.todo] \in torn
    BY <1>0, <2>1 DEF DeadAreTorn
  <2>3. CASE "bindings" \in call.todo
    BY <1>4, <2>1, <2>2, <2>3
  <2>4. CASE "bindings" \notin call.todo
    <3>1. bindings.status[call.to] = "active"
      BY <1>0, <2>1, <2>4 DEF CallIsCurrent
    <3>. QED
      BY <1>4, <2>1, <3>1
  <2>. QED
    BY <2>3, <2>4
<1>12. CASE Die
  <2>1. call \in Calls /\ call' = [call EXCEPT !.alive = FALSE]
    BY <1>0, <1>12 DEF TypeOK, Die
  <2>2. call' \in Calls /\ call'.to = call.to
    BY <2>1 DEF Calls
  <2>3. UNCHANGED <<state, bindings>> /\ torn \subseteq torn'
    BY <1>12 DEF Die, files
  <2>4. \A p : Excused(p) => Excused(p)'
    BY <2>2, <2>3, CallsAssumption
  <2>. QED
    BY <1>4, <2>3, <2>4
<1>13. ASSUME NEW u \in Tasks, MoveTask(u) PROVE StandbyIsUnreferenced'
  <2>1. PICK m \in Moves(state[u]) : state' = [state EXCEPT ![u] = m]
    BY <1>13 DEF MoveTask
  <2>2. m.assignments = state[u].assignments /\ state[u].status \notin Terminal
    BY <1>0, <1>1, <2>1, MovesKeep
  <2>3. \A t \in Tasks : /\ state'[t].assignments = state[t].assignments
                         /\ state'[t].status \notin Terminal => state[t].status \notin Terminal
    BY <1>1, <2>1, <2>2
  <2>4. Assigned(state') \subseteq Assigned(state)
    BY <2>3, AssignedWhere
  <2>5. UNCHANGED <<bindings, call, torn>>
    BY <1>13 DEF MoveTask
  <2>. QED
    BY <1>4, <2>4, <2>5
<1>14. CASE UNCHANGED <<state, bindings, call, torn>>
  BY <1>4, <1>14
<1>15. CASE \/ \E t \in Tasks : SwitchTask(t)
            \/ UNCHANGED vars
  BY <1>14, <1>15 DEF SwitchTask, vars, files
<1>. QED
  BY <1>5, <1>6, <1>7, <1>9, <1>10, <1>11, <1>12, <1>13, <1>15, NextCases

---------------------------------------------------------------------------
(* The theorems.                                                           *)

LEMMA InitReplace == ASSUME MaxCalls \in 0..1000, Init PROVE ReplaceInvariant
<1>1. /\ active \in Tasks /\ state = Start /\ call = None /\ calls = 0 /\ torn = {}
      /\ refs = [t \in Tasks |-> [role \in Roles |-> 0]]
      /\ records = [t \in Tasks |-> {}]
      /\ row = [t \in Tasks |-> [revision |-> Start[t].revision,
                                 participant |-> Start[t].participant]]
      /\ profile = bindings.status
  BY DEF Init
<1>2. /\ bindings.default = Start[active].assignments /\ bindings.history = {}
      /\ bindings.status = [p \in Participants |->
           IF p \in Retired THEN "retired"
           ELSE IF p \in Assigned(Start) THEN "active" ELSE "standby"]
      /\ bindings = [default |-> bindings.default, history |-> {},
                     status |-> bindings.status]
  BY DEF Init
<1>3. /\ Start \in [Tasks -> TaskRecords]
      /\ \A t \in Tasks : WellAssigned(Start[t]) /\ Start[t].status \notin Terminal
  BY StartsAssumption
<1>4. bindings \in Bindings
  <2>1. Start[active].assignments \in [Roles -> Participants]
    BY <1>1, <1>3 DEF TaskRecords
  <2>2. bindings.status \in [Participants -> Identity]
    BY <1>2 DEF Identity
  <2>. HIDE DEF Identity
  <2>. QED
    BY <1>2, <2>1, <2>2 DEF Bindings
<1>5. row \in [Tasks -> Rows]
  <2>1. \A t \in Tasks : Start[t].revision \in Nat /\ Start[t].participant \in Participants
    BY <1>3, FieldTyping
  <2>. QED
    BY <1>1, <2>1 DEF Rows
<1>6. channel \in Channels
  <2>1. Start[active].assignments["planner"] \in Planners
    BY <1>1, <1>3, RegisteredParticipants DEF WellAssigned, Roles
  <2>. QED
    BY <2>1 DEF Init, Channels
<1>7. refs \in [Tasks -> [Roles -> 0..1000]]
  BY <1>1
<1>8. profile \in [Participants -> Identity]
  BY <1>1, <1>4 DEF Bindings
<1>9. TypeOK
  BY <1>1, <1>3, <1>4, <1>5, <1>6, <1>7, <1>8 DEF TypeOK
<1>10. RefsResolve
  BY <1>1 DEF RefsResolve
<1>11. RowIsNotAhead
  <2>1. \A t \in Tasks : Start[t].revision \in Nat
    BY <1>3, FieldTyping
  <2>. QED
    BY <1>1, <2>1 DEF RowIsNotAhead
<1>12. StandbyIsUnreferenced
  <2>1. Defaults(bindings) \subseteq Assigned(state)
    BY <1>1, <1>2, <1>3, AssignedWhere DEF Defaults
  <2>2. Assigned(state) \subseteq Participants
    <3>1. \A t \in Tasks, role \in Roles : state[t].assignments[role] \in Participants
      BY <1>1, <1>3, RegisteredParticipants DEF WellAssigned
    <3>. QED
      BY <3>1, AssignedWhere
  <2>3. \A p \in Assigned(state) : bindings.status[p] # "standby"
    BY <1>1, <1>2, <2>2
  <2>. QED
    BY <2>1, <2>3 DEF StandbyIsUnreferenced
<1>13. NumbersCountCalls
  BY <1>1 DEF NumbersCountCalls, NumberedUpTo
<1>. QED
  BY <1>1, <1>3, <1>9, <1>10, <1>11, <1>12, <1>13
     DEF ReplaceInvariant, CallRecords, CallIsCurrent, DeadAreTorn

LEMMA StepReplace ==
  ASSUME MaxCalls \in 0..1000, ReplaceInvariant, [Next]_vars
  PROVE  ReplaceInvariant'
BY StepFiles, StepReferences, StepRow, StepNumbers, StepCallRecords, StepCurrent,
   StepTorn, StepStandby DEF ReplaceInvariant

\* Every reachable state satisfies the inductive invariant: in particular the files
\* keep their types and every task names registered participants, its owner being
\* the participant its role is assigned to (workflow_state.py, replace-agent).
THEOREM ReplaceSafety ==
  ASSUME MaxCalls \in 0..1000
  PROVE  Spec => []ReplaceInvariant
<1>1. Init => ReplaceInvariant
  BY InitReplace
<1>2. ReplaceInvariant /\ [Next]_vars => ReplaceInvariant'
  BY StepReplace
<1>. QED
  BY <1>1, <1>2, PTL DEF Spec

\* A reference in STATE.md leads to the record of the change that made the present
\* assignment, whatever died in between.
THEOREM ReferenceSafety ==
  ASSUME MaxCalls \in 0..1000
  PROVE  Spec => []RefsResolve
<1>1. ReplaceInvariant => RefsResolve
  BY DEF ReplaceInvariant
<1>. QED
  BY <1>1, ReplaceSafety, PTL

\* The project index never runs ahead of a task.
THEOREM RowSafety ==
  ASSUME MaxCalls \in 0..1000
  PROVE  Spec => []RowIsNotAhead
<1>1. ReplaceInvariant => RowIsNotAhead
  BY DEF ReplaceInvariant
<1>. QED
  BY <1>1, ReplaceSafety, PTL

\* An identity on standby is named by no default and by no open task, but for the
\* one a running or a broken call was about to activate.
THEOREM StandbySafety ==
  ASSUME MaxCalls \in 0..1000
  PROVE  Spec => []StandbyIsUnreferenced
<1>1. ReplaceInvariant => StandbyIsUnreferenced
  BY DEF ReplaceInvariant
<1>. QED
  BY <1>1, ReplaceSafety, PTL

\* No management record is lost or overwritten.
THEOREM RecordsKept ==
  ASSUME MaxCalls \in 0..1000
  PROVE  Spec => RecordsAreKept
<1>1. ReplaceInvariant /\ [Next]_vars => [\A t \in Tasks : records[t] \subseteq records'[t]]_vars
  BY RecordsGrow
<1>. QED
  BY <1>1, ReplaceSafety, PTL DEF Spec, RecordsAreKept

=============================================================================
