----------------------------- MODULE ReplaceAgent -----------------------------
(***************************************************************************)
(* workflow_state.py replace-agent as a transaction over seven files: the  *)
(* management record, STATE.md, role-bindings.md, the profiles of the two  *)
(* participants, PROJECT_STATUS.md and the Planner channel.  Each file is  *)
(* replaced atomically, the seven of them are not: the process may die     *)
(* between two writes and leave its lock behind.  Everything the call      *)
(* writes is computed from what it read under the lock, before the first   *)
(* write.                                                                  *)
(*                                                                         *)
(* The other commands of the relay move the tasks while the lock is free.  *)
(***************************************************************************)
EXTENDS TaskRecord, FiniteSets

CONSTANTS
  Tasks,             \* directories under docs/agent/tasks
  Start,             \* the record every task starts from
  Profiled,          \* participants whose profile file exists
  Wakeable,          \* Planners whose tool has a wake bridge
  Retired,           \* identities the user has retired
  MaxRevision,       \* bound: no command starts on a task past this revision
  MaxCalls           \* bound: replacements started

\* What is assigned is registered for the role, and the owner is what is assigned.
WellAssigned(s) ==
  /\ \A role \in Roles : s.assignments[role] \in ParticipantsOf(role)
  /\ s.participant = s.assignments[s.role]

ASSUME StartsAssumption ==
  /\ Start \in [Tasks -> TaskRecords]
  /\ \A t \in Tasks : WellAssigned(Start[t]) /\ Start[t].status \notin Terminal
  /\ Profiled \subseteq Participants
  /\ Wakeable \subseteq Planners
  /\ Retired \subseteq Participants
  /\ None \notin Conversations /\ None \notin Participants

Scopes == {"current-task", "project-default", "both"}
OfTask(scope) == scope \in {"current-task", "both"}
OfDefault(scope) == scope \in {"project-default", "both"}

VARIABLES
  active,      \* PROJECT_STATUS.active_task
  state,       \* STATE.md of every task
  refs,        \* STATE.md: assignment_change_refs, 0 where there is none
  records,     \* the management records under progress/
  bindings,    \* role-bindings.md: project defaults, their history, identities
  profile,     \* the status line of every profile
  row,         \* the row of every task in PROJECT_STATUS.md
  channel,     \* planner-channel.json
  call,        \* the replacement that holds the lock, None if it is free
  calls,       \* replacements started
  torn         \* history: the replacements that died between two writes

files == <<state, refs, records, bindings, profile, row, channel>>
vars == <<active, files, call, calls, torn>>

Identity == {"active", "standby", "retired"}
Targets == {"record", "state", "bindings", "from", "to", "row", "channel"}
ManagementRecords ==
  [no : 1..1000, role : Roles, from : Participants, to : Participants,
   input : Nat, next : Participants]
Bindings ==
  [default : [Roles -> Participants], status : [Participants -> Identity],
   history : SUBSET [role : Roles, from : Participants, to : Participants]]
Channels == [who : Planners, conv : Conversations]
Rows == [revision : Nat, participant : Participants]
Calls ==
  [task : Tasks, role : Roles, from : Participants, to : Participants,
   alive : BOOLEAN, todo : SUBSET Targets, state : TaskRecords,
   record : ManagementRecords, bindings : Bindings, row : Rows,
   channel : [who : Participants, conv : Conversations]]

ASSUME CallsAssumption == None \notin Calls

TypeOK ==
  /\ active \in Tasks
  /\ state \in [Tasks -> TaskRecords]
  /\ refs \in [Tasks -> [Roles -> 0..1000]]
  /\ records \in [Tasks -> SUBSET ManagementRecords]
  /\ bindings \in Bindings
  /\ profile \in [Participants -> Identity]
  /\ row \in [Tasks -> Rows]
  /\ channel \in Channels \cup {None}
  /\ call \in Calls \cup {None}
  /\ calls \in 0..MaxCalls

Assigned(tasks) ==
  UNION {{tasks[t].assignments[role] : role \in Roles} :
           t \in {u \in Tasks : tasks[u].status \notin Terminal}}
Defaults(b) == {b.default[role] : role \in Roles}

Init ==
  /\ active \in Tasks
  /\ state = Start
  /\ refs = [t \in Tasks |-> [role \in Roles |-> 0]]
  /\ records = [t \in Tasks |-> {}]
  /\ bindings = [default |-> Start[active].assignments, history |-> {},
                 status |-> [p \in Participants |->
                   IF p \in Retired THEN "retired"
                   ELSE IF p \in Assigned(Start) THEN "active" ELSE "standby"]]
  /\ profile = bindings.status
  /\ row = [t \in Tasks |-> [revision |-> Start[t].revision,
                             participant |-> Start[t].participant]]
  /\ \E conv \in Conversations :
       channel = [who |-> Start[active].assignments["planner"], conv |-> conv]
  /\ call = None
  /\ calls = 0
  /\ torn = {}

---------------------------------------------------------------------------
(* What a call reads and computes.                                         *)

\* Mutant: the numbering goes on from the role's last reference.
NextNumberOfRole(t, role) == refs[t][role] + 1

\* next_progress_path: the glob sees three digits.
NextNumber(t, role) ==
  LET taken == {0} \cup {r.no : r \in {q \in records[t] : q.no <= 999}}
  IN (CHOOSE n \in taken : \A k \in taken : k <= n) + 1

\* management_record.
Record(t, role, from, to, after) ==
  [no |-> NextNumber(t, role), role |-> role, from |-> from, to |-> to,
   input |-> state[t].revision, next |-> after.participant]

\* Mutant: the tasks other than the active one are not looked at.
ReferencedByActive(p, tasks, b) ==
  p \in Defaults(b) \/ p \in Assigned([u \in Tasks |-> tasks[active]])

\* participant_referenced: by a default or by an open task.
Referenced(p, tasks, b) == p \in Defaults(b) \/ p \in Assigned(tasks)

\* role-bindings.md after the call: default row, history row, identities, with the
\* tasks as they are about to be.
BindingsAfter(before, tasks, role, from, to, scope) ==
  LET b == IF OfDefault(scope)
           THEN [before EXCEPT !.default[role] = to,
                               !.history = @ \cup {[role |-> role, from |-> from, to |-> to]}]
           ELSE before
      kept == Referenced(from, tasks, b)
  IN [b EXCEPT !.status = [p \in Participants |->
        IF p = to THEN "active"
        ELSE IF p = from /\ ~kept THEN "standby" ELSE @[p]]]

\* update_project_cache: the row names the new owner only if the owner changed.
RowAfter(t, role, to) ==
  [revision |-> state[t].revision + 1,
   participant |-> IF state[t].role = role THEN to ELSE row[t].participant]

\* Mutant: the index is refreshed before the task.
WriteOrderIndexFirst(f) ==
  CASE f = "row" -> 0 [] f = "record" -> 1 [] f = "state" -> 2
    [] f = "bindings" -> 3 [] f \in {"from", "to"} -> 4 [] f = "channel" -> 6

\* Mutant: the task is written before the record it refers to.
WriteOrderStateFirst(f) ==
  CASE f = "state" -> 1 [] f = "record" -> 2 [] f = "bindings" -> 3
    [] f \in {"from", "to"} -> 4 [] f = "row" -> 5 [] f = "channel" -> 6

\* The order of the writes; the profiles come in the order of a set of strings.
WriteOrder(f) ==
  CASE f = "record" -> 1 [] f = "state" -> 2 [] f = "bindings" -> 3
    [] f \in {"from", "to"} -> 4 [] f = "row" -> 5 [] f = "channel" -> 6

FilesOf(role, from, to, scope) ==
  {"bindings"}
  \cup (IF OfTask(scope) THEN {"record", "state", "row"} ELSE {})
  \cup (IF from \in Profiled THEN {"from"} ELSE {})
  \cup (IF to \in Profiled THEN {"to"} ELSE {})
  \cup (IF role = "planner" THEN {"channel"} ELSE {})

---------------------------------------------------------------------------
(* replace_agent.                                                          *)

\* The checks, under the lock.  A call that fails one of them writes nothing.
Accepted(role, from, to, scope, stopped) ==
  /\ to \in ParticipantsOf(role) /\ from # to
  /\ bindings.status[to] \in {"active", "standby"}
  /\ role = "planner" => to \in Wakeable
  /\ OfTask(scope) => CanReplace(state[active], role, from, to, stopped)
  /\ OfDefault(scope) => bindings.default[role] = from

\* What the command line lets through; a Planner comes with its conversation.
Arguments ==
  [role : Roles, from : Participants, to : Participants, scope : Scopes,
   stopped : BOOLEAN, conv : Conversations]

Begin(role, from, to, scope, stopped, conv) ==
  /\ call = None
  /\ calls < MaxCalls
  /\ OfTask(scope) => state[active].revision < MaxRevision
  /\ Accepted(role, from, to, scope, stopped)
  /\ LET t == active
         after == IF OfTask(scope) THEN AfterReplace(state[t], role, to) ELSE state[t]
     IN call' = [task |-> t, role |-> role, from |-> from, to |-> to, alive |-> TRUE,
                 todo |-> FilesOf(role, from, to, scope),
                 state |-> after,
                 record |-> Record(t, role, from, to, after),
                 bindings |-> BindingsAfter(bindings, [state EXCEPT ![t] = after],
                                            role, from, to, scope),
                 row |-> RowAfter(t, role, to),
                 channel |-> [who |-> to, conv |-> conv]]
  /\ calls' = calls + 1
  /\ UNCHANGED <<active, files, torn>>

\* The next of the files still to be written.
Writing(f) ==
  /\ call # None
  /\ call.alive
  /\ f \in call.todo
  /\ \A g \in call.todo : WriteOrder(f) <= WriteOrder(g)
  /\ call' = [call EXCEPT !.todo = @ \ {f}]
  /\ UNCHANGED <<active, calls, torn>>

WriteRecord ==
  /\ Writing("record")
  /\ records' = [records EXCEPT ![call.task] =
       {r \in @ : r.no # call.record.no} \cup {call.record}]
  /\ UNCHANGED <<state, refs, bindings, profile, row, channel>>

WriteState ==
  /\ Writing("state")
  /\ state' = [state EXCEPT ![call.task] = call.state]
  /\ refs' = [refs EXCEPT ![call.task][call.role] = call.record.no]
  /\ UNCHANGED <<records, bindings, profile, row, channel>>

WriteBindings ==
  /\ Writing("bindings")
  /\ bindings' = call.bindings
  /\ UNCHANGED <<state, refs, records, profile, row, channel>>

WriteProfile ==
  \E f \in {"from", "to"} :
    LET p == IF f = "from" THEN call.from ELSE call.to
    IN /\ Writing(f)
       /\ profile' = [profile EXCEPT ![p] = call.bindings.status[p]]
       /\ UNCHANGED <<state, refs, records, bindings, row, channel>>

WriteRow ==
  /\ Writing("row")
  /\ row' = [row EXCEPT ![call.task] = call.row]
  /\ UNCHANGED <<state, refs, records, bindings, profile, channel>>

WriteChannel ==
  /\ Writing("channel")
  /\ channel' = call.channel
  /\ UNCHANGED <<state, refs, records, bindings, profile, row>>

Return ==
  /\ call # None /\ call.alive /\ call.todo = {}
  /\ call' = None
  /\ UNCHANGED <<active, files, calls, torn>>

\* The process dies; the lock file stays.
Die ==
  /\ call # None /\ call.alive
  /\ call' = [call EXCEPT !.alive = FALSE]
  /\ torn' = torn \cup {[to |-> call.to, todo |-> call.todo]}
  /\ UNCHANGED <<active, files, calls>>

\* release-stale-lock, once the user has seen that the process is gone.
ReleaseStaleLock ==
  /\ call # None /\ ~call.alive
  /\ call' = None
  /\ UNCHANGED <<active, files, calls, torn>>

---------------------------------------------------------------------------
(* The other commands, under the same lock.                                *)

\* What they make of a record: a handover, a claim, a wake, a cancellation.
Moves(s) ==
  {AfterCompleteStage(s, e) : e \in {d \in RoleEvents :
     \E run \in Runs \cup {None} : CanCompleteStage(s, d, s.participant, run)}}
  \cup {AfterClaim(s, run) : run \in
          {r \in Runs : s.status \in {"IMPLEMENTING", "REVIEWING"} /\ CanClaim(s)}}
  \cup {AfterPrepareWake(s, s.participant, c) : c \in
          {d \in Conversations : CanPrepareWake(s, s.participant)}}
  \cup {AfterSetPhase(s, ph) : ph \in
          {q \in {"submitted", "active"} : s.status = "REPORTING" /\ s.wakeKey # None}}
  \cup {AfterCancel(s) : x \in {y \in {TRUE} : CanCancel(s)}}

MoveTask(t) ==
  /\ call = None
  /\ state[t].revision < MaxRevision
  /\ \E s \in Moves(state[t]) : state' = [state EXCEPT ![t] = s]
  /\ UNCHANGED <<active, refs, records, bindings, profile, row, channel, call, calls, torn>>

\* The user switches PROJECT_STATUS to another open task.
SwitchTask(t) ==
  /\ call = None
  /\ t # active
  /\ state[t].status \notin Terminal
  /\ active' = t
  /\ UNCHANGED <<files, call, calls, torn>>

Next ==
  \/ \E a \in Arguments : Begin(a.role, a.from, a.to, a.scope, a.stopped, a.conv)
  \/ WriteRecord \/ WriteState \/ WriteBindings \/ WriteProfile \/ WriteRow
  \/ WriteChannel \/ Return \/ Die \/ ReleaseStaleLock
  \/ \E t \in Tasks : MoveTask(t) \/ SwitchTask(t)

Spec == Init /\ [][Next]_vars

---------------------------------------------------------------------------
(* Properties.                                                             *)

\* A reference in STATE.md always leads to the record of the very change that
\* made the present assignment, whatever died in between (the record is written
\* before the task that names it, under a number no other record has).
RefsResolve ==
  \A t \in Tasks, role \in Roles :
    refs[t][role] # 0 =>
      \E r \in records[t] :
        /\ r.no = refs[t][role] /\ r.role = role
        /\ r.to = state[t].assignments[role]
        /\ r.input < state[t].revision

\* No record of a change is ever lost, also when a call that died left one that
\* nothing refers to (A -> B -> A makes two records: next_progress_path).
RecordsAreKept == [][\A t \in Tasks : records[t] \subseteq records'[t]]_vars

\* The project index lags behind a task and never runs ahead of it: whoever finds
\* an older revision in the row knows that the task is the one to believe.
RowIsNotAhead == \A t \in Tasks : row[t].revision <= state[t].revision

\* An identity on standby is nobody's: neither a default nor an open task names
\* it, but for the identity a running or a broken call was about to activate.
StandbyIsUnreferenced ==
  \A p \in Assigned(state) \cup Defaults(bindings) :
    bindings.status[p] = "standby" =>
      \/ call # None /\ call.to = p
      \/ \E c \in torn : c.to = p /\ "bindings" \in c.todo

---------------------------------------------------------------------------
(* What the proofs need besides.                                           *)

\* The records of a task are numbered up to n, which is no more than the
\* replacements there were.
NumberedUpTo(t, n) ==
  /\ n = 0 \/ \E r \in records[t] : r.no = n
  /\ \A r \in records[t] : r.no <= n
NumbersCountCalls == \A t \in Tasks : \E n \in 0..calls : NumberedUpTo(t, n)

\* The number of a record still to be written is nobody's yet, and a task is
\* written after its record.
CallRecords ==
  call # None =>
    /\ "record" \in call.todo =>
         /\ "state" \in call.todo
         /\ call.record.no <= calls
         /\ \A r \in records[call.task] : r.no < call.record.no
    /\ "state" \in call.todo =>
         /\ "record" \in call.todo \/ call.record \in records[call.task]
         /\ call.record.role = call.role /\ call.record.to = call.to
         /\ call.record.input = state[call.task].revision

\* The lock keeps the task and the bindings as the call has read them, until it
\* writes them itself.
CallIsCurrent ==
  call # None =>
    /\ call.to # call.from /\ call.to \in ParticipantsOf(call.role)
    /\ IF "state" \in call.todo
       THEN call.state = AfterReplace(state[call.task], call.role, call.to)
       ELSE call.state = state[call.task]
    /\ "row" \in call.todo => call.row.revision = call.state.revision
    /\ "channel" \in call.todo => call.channel \in Channels
    /\ IF "bindings" \in call.todo
       THEN \E scope \in Scopes : call.bindings =
              BindingsAfter(bindings, [state EXCEPT ![call.task] = call.state],
                            call.role, call.from, call.to, scope)
       ELSE bindings.status[call.to] = "active"

\* A call that died is remembered with what it left undone.
DeadAreTorn ==
  call # None /\ ~call.alive => [to |-> call.to, todo |-> call.todo] \in torn

\* The inductive invariant.
ReplaceInvariant ==
  /\ TypeOK /\ (\A t \in Tasks : WellAssigned(state[t]))
  /\ RefsResolve /\ RowIsNotAhead /\ StandbyIsUnreferenced
  /\ NumbersCountCalls /\ CallRecords /\ CallIsCurrent /\ DeadAreTorn

=============================================================================
