----------------------------- MODULE PlannerBridges -----------------------------
(***************************************************************************)
(* The four Planner wake adapters, and configure_runtime.py discover with  *)
(* list_models, as they talk to their tools.  Codex and DeepSeek Harness   *)
(* are child processes that answer JSON-RPC requests line by line; the     *)
(* other two run a command to its end and read what it printed, and so     *)
(* does OpenCode's list_models.  A line goes through two places: the pipe, *)
(* which select looks at, and the buffer of the reader, which readline     *)
(* fills with everything the pipe holds.  Every line a tool writes is      *)
(* whole.                                                                  *)
(***************************************************************************)
EXTENDS Naturals, Sequences, FiniteSets

CONSTANTS
  Conversations,
  Registered,     \* those a channel may name
  Served,         \* tools in use
  Keys,           \* wake keys
  Faults,         \* which faults may occur
  MaxFaults,      \* bound: faults
  MaxCalls,       \* bound: calls
  None

FaultKinds ==
  {"missing",   \* the program is not installed
   "refuse",    \* it answers with an error, or a turn ends without success
   "other",     \* it answers for another conversation
   "exit",      \* it exits
   "note",      \* it writes a notification of its own
   "lag",       \* a turn shows in its conversation only later
   "stuck",     \* it does not exit when it should
   "crash"}     \* the Runner dies

Cli == {"claude-code", "opencode"}
WakeTools == Cli \cup {"codex", "deepseek-harness"}

ASSUME BridgesAssumption ==
  /\ Registered \subseteq Conversations /\ Served \subseteq WakeTools
  /\ Faults \subseteq FaultKinds
  /\ MaxFaults \in Nat /\ MaxCalls \in Nat
  /\ None \notin Keys

VARIABLES
  turns,     \* the turns of all conversations
  call,      \* the call of the Runner, or None
  wire,      \* its child process and what was said
  answer,    \* the answer to the last call
  receipts,  \* receipts the coordinator holds
  left,      \* child processes that outlived their call with a submission to do
  faults, calls

vars == <<turns, call, wire, answer, receipts, left, faults, calls>>

Turn(conv, key, state) == [conv |-> conv, key |-> key, state |-> state]
Visible == {t \in DOMAIN turns : turns[t].state # "hidden"}

\* The requests of an operation, in their order; no request, no process.
Script(tool, op) ==
  CASE tool = "codex" /\ op = "submit" ->
         <<"initialize", "thread/read", "thread/resume", "turn/start">>
    [] tool = "codex" /\ op \in {"observe", "reconcile"} -> <<"initialize", "thread/read">>
    [] tool = "codex" /\ op = "discover" -> <<"initialize", "model/list">>
    [] tool = "opencode" /\ op = "discover" -> <<"models">>
    [] tool = "deepseek-harness" /\ op = "submit" ->
         <<"initialize", "session/resume", "session/prompt">>
    [] tool \in Cli /\ op = "submit" -> <<"run">>
    [] OTHER -> <<>>

\* Requests a turn is the answer to: at once, or when it is over.
Starting == {"turn/start", "session/prompt", "run"}
Blocking == {"session/prompt", "run"}
Listing == {"model/list", "models"}

\* Where a deadline is set: deepseek_harness.py and CodexAdapter.list_models.
Timed == call.tool = "deepseek-harness" \/ (call.tool = "codex" /\ call.op = "discover")

Answer(status, turn) == [status |-> status, turn |-> turn]
Error == Answer("error", 0)

\* at: where the call is; todo: requests to come, the first of them awaited;
\* asked: the request the process works on; turn: the turn it started for it.
NoWire == [at |-> "idle", todo |-> <<>>, asked |-> None, up |-> FALSE,
           pipe |-> <<>>, buffer |-> <<>>, turn |-> 0, result |-> Error]

\* turn: the turn it is about, or how many models it lists (0, or some);
\* view: the states of the turns a thread/read shows.
Line(about, ok, conv, turn) ==
  [about |-> about, ok |-> ok, conv |-> conv, turn |-> turn,
   view |-> IF about = "thread/read" THEN [t \in DOMAIN turns |-> turns[t].state] ELSE None]

Init ==
  /\ turns = <<>>
  /\ call = None
  /\ wire = NoWire
  /\ answer = None
  /\ receipts = {}
  /\ left = {}
  /\ faults = 0 /\ calls = 0

Fault(kind) ==
  /\ kind \in Faults /\ faults < MaxFaults
  /\ faults' = faults + 1

At(place) == call # None /\ wire.at = place

---------------------------------------------------------------------------
(* The call.                                                               *)

\* Answers without a process: observe of a tool that has run the turn in
\* submit_report answers "completed", reconcile finds nothing.
WithoutProcess(op, turn) ==
  CASE op = "observe" -> Answer("completed", turn)
    [] op = "reconcile" -> Answer("nothing", 0)
    [] op = "present" -> Answer("experimental", 0)
    [] OTHER -> Error

Begin(tool, op, conv, key, turn) ==
  /\ call = None
  /\ calls < MaxCalls
  /\ calls' = calls + 1
  /\ call' = [tool |-> tool, op |-> op, conv |-> conv, key |-> key, turn |-> turn,
              seen |-> Visible]
  /\ wire' = [NoWire EXCEPT
       !.at = CASE Script(tool, op) # <<>> -> "spawn"
                [] op = "present" /\ tool # "codex" -> "present"
                [] OTHER -> "done",
       !.todo = Script(tool, op),
       !.result = WithoutProcess(op, turn)]
  /\ UNCHANGED <<turns, answer, receipts, left, faults>>

Raise(place) == wire' = [wire EXCEPT !.at = place, !.result = Error]

Spawn ==
  /\ At("spawn")
  /\ wire' = [wire EXCEPT !.at = "send", !.up = TRUE]
  /\ UNCHANGED <<turns, call, answer, receipts, left, faults, calls>>

\* present: the tool's own interface is started, and nobody waits for it.
Present ==
  /\ At("present")
  /\ wire' = [wire EXCEPT !.at = "done", !.result = Answer("presented", 0)]
  /\ UNCHANGED <<turns, call, answer, receipts, left, faults, calls>>

SpawnFails ==
  /\ At("spawn") \/ At("present")
  /\ Fault("missing")
  /\ Raise("done")
  /\ UNCHANGED <<turns, call, answer, receipts, left, calls>>

\* A failure in the constructor of CodexAppServerTransport, before there is
\* anything to close: the process stays.
Unwinding ==
  IF call.tool = "codex" /\ call.op # "discover" /\ Head(wire.todo) = "initialize"
  THEN "done" ELSE "close"

\* Writing to a process that has gone raises.
Send ==
  /\ At("send")
  /\ IF wire.up THEN wire' = [wire EXCEPT !.at = "await", !.asked = Head(wire.todo)]
     ELSE Raise(Unwinding)
  /\ UNCHANGED <<turns, call, answer, receipts, left, faults, calls>>

Highest(set) == CHOOSE t \in set : \A u \in set : u <= t

\* Mutant: the last turn of the conversation is taken, whatever it is about.
FoundAny(view) ==
  {t \in DOMAIN view : view[t] # "hidden" /\ turns[t].conv = call.conv}

\* The turns of a view that mention the key.
Found(view) ==
  {t \in DOMAIN view : /\ view[t] # "hidden"
                       /\ turns[t].conv = call.conv /\ turns[t].key = call.key}

Observed(state) ==
  CASE state = "hidden" -> "submitted"
    [] state = "running" -> "active"
    [] OTHER -> state

\* A command line tool says at the end which session the turn was in; the reply of
\* a child process is about the conversation of its request.
Receipt(line) ==
  IF call.tool \in Cli /\ line.conv # call.conv THEN Error ELSE Answer("receipt", line.turn)

\* What the last reply of an operation amounts to.
Outcome(line) ==
  CASE call.op = "submit" -> Receipt(line)
    [] call.op = "observe" -> Answer(Observed(line.view[call.turn]), call.turn)
    [] call.op = "reconcile" ->
         IF Found(line.view) = {} THEN Answer("nothing", 0)
         ELSE Answer("found", Highest(Found(line.view)))
    [] call.op = "discover" -> Answer("models", line.turn)

\* discover_options: whatever list_models raises is noted in the answer, so that
\* a name can be given by hand.
Discovered(result) ==
  CASE call.tool \notin {"codex", "opencode", "claude-code"} -> Answer("manual-only", 0)
    [] call.tool \in {"codex", "opencode", "claude-code"} ->
         Answer(IF result.status = "models" /\ result.turn > 0
                THEN "verified" ELSE "pending", 0)

\* Error replies raise; those of Codex about another thread, too.
Acceptable(line) ==
  /\ line.ok
  /\ line.about \in {"thread/read", "thread/resume"} => line.conv = call.conv

\* select looks at the pipe, a plain readline at both.
Readable == wire.pipe # <<>> \/ ~wire.up \/ (~Timed /\ wire.buffer # <<>>)

\* One readline: lines that answer something else are dropped.
Read ==
  /\ At("await") /\ Readable
  /\ LET lines == wire.buffer \o wire.pipe
         line == Head(lines)
         rest == [wire EXCEPT !.pipe = <<>>, !.buffer = Tail(lines)]
     IN CASE lines = <<>> -> Raise(Unwinding)
          [] lines # <<>> /\ line.about # Head(wire.todo) -> wire' = rest
          [] lines # <<>> /\ line.about = Head(wire.todo) /\ ~Acceptable(line) -> Raise(Unwinding)
          [] OTHER ->
               IF Len(wire.todo) > 1
               THEN wire' = [rest EXCEPT !.at = "send", !.todo = Tail(@)]
               ELSE wire' = [rest EXCEPT !.at = "close", !.result = Outcome(line)]
  /\ UNCHANGED <<turns, call, answer, receipts, left, faults, calls>>

\* Mutant: no deadline.
TimeUpNever ==
  /\ At("await") /\ Timed /\ ~Timed
  /\ UNCHANGED vars

\* The deadline passes while the pipe is empty, also when the line waited for has
\* been read into the buffer.
TimeUp ==
  /\ At("await") /\ Timed
  /\ wire.up /\ wire.pipe = <<>>
  /\ Raise("close")
  /\ UNCHANGED <<turns, call, answer, receipts, left, faults, calls>>

\* The finally clauses.
Close ==
  /\ At("close")
  /\ wire' = [wire EXCEPT !.at = "done", !.up = FALSE, !.asked = None]
  /\ UNCHANGED <<turns, call, answer, receipts, left, faults, calls>>

\* The process ignores the end of its input, or the signal: whatever was achieved,
\* the call raises (a TimeoutExpired, or the code of a terminated process);
\* list_models kills it.
CloseStuck ==
  /\ At("close") /\ wire.up
  /\ call.tool \in {"codex", "deepseek-harness"} /\ call.op # "discover"
  /\ Fault("stuck")
  /\ Raise("done")
  /\ UNCHANGED <<turns, call, answer, receipts, left, calls>>

\* The submission a process still has to do.
Pending ==
  IF wire.up /\ wire.asked \in Starting /\ wire.turn = 0
  THEN {[conv |-> call.conv, key |-> call.key]} ELSE {}

\* A process that is still there stays, with what it was asked.
Return ==
  /\ At("done")
  /\ answer' = IF call.op = "discover" THEN Discovered(wire.result) ELSE wire.result
  /\ receipts' = IF wire.result.status \in {"receipt", "found"}
                 THEN receipts \cup {[tool |-> call.tool, conv |-> call.conv,
                                      key |-> call.key, turn |-> wire.result.turn]}
                 ELSE receipts
  /\ left' = left \cup Pending
  /\ call' = None
  /\ wire' = NoWire
  /\ UNCHANGED <<turns, faults, calls>>

Crash ==
  /\ call # None
  /\ Fault("crash")
  /\ left' = left \cup Pending
  /\ call' = None
  /\ wire' = NoWire
  /\ UNCHANGED <<turns, answer, receipts, calls>>

---------------------------------------------------------------------------
(* The tools.                                                              *)

Working == call # None /\ wire.up /\ wire.asked # None

Write(line) == [wire EXCEPT !.pipe = Append(@, line), !.asked = None]

Reply ==
  /\ Working /\ wire.asked \notin Starting
  /\ \E models \in IF wire.asked \in Listing THEN {0, 1} ELSE {0} :
       wire' = Write(Line(wire.asked, TRUE, call.conv, models))
  /\ UNCHANGED <<turns, call, answer, receipts, left, faults, calls>>

\* An answer about another thread; only those of Codex carry the name of one.
ReplyElsewhere ==
  /\ Working /\ wire.asked \in {"thread/read", "thread/resume"}
  /\ Fault("other")
  /\ \E conv \in Conversations \ {call.conv} :
       wire' = Write(Line(wire.asked, TRUE, conv, 0))
  /\ UNCHANGED <<turns, call, answer, receipts, left, calls>>

Refuse ==
  /\ Working /\ wire.turn = 0
  /\ Fault("refuse")
  /\ wire' = Write(Line(wire.asked, FALSE, call.conv, 0))
  /\ UNCHANGED <<turns, call, answer, receipts, left, calls>>

Take(conv, state) ==
  /\ Working /\ wire.asked \in Starting /\ wire.turn = 0
  /\ turns' = Append(turns, Turn(conv, call.key, state))
  /\ LET started == [wire EXCEPT !.turn = Len(turns) + 1]
     IN wire' = IF wire.asked \in Blocking THEN started
                ELSE [started EXCEPT !.asked = None,
                        !.pipe = Append(@, Line(wire.asked, TRUE, conv, Len(turns) + 1))]
  /\ UNCHANGED <<call, answer, receipts, left, calls>>

TakeUp == Take(call.conv, "running") /\ UNCHANGED faults
TakeUpUnseen == call.tool = "codex" /\ Take(call.conv, "hidden") /\ Fault("lag")

\* A command line tool resumes, or forks, another session.
TakeUpElsewhere ==
  /\ call.tool \in Cli
  /\ \E conv \in Conversations \ {call.conv} : Take(conv, "running")
  /\ Fault("other")

\* The reply to a blocking request says how the turn ended.
Finish ==
  /\ Working /\ wire.turn # 0
  /\ turns[wire.turn].state \in {"completed", "failed"}
  /\ wire' = Write(Line(wire.asked, turns[wire.turn].state = "completed",
                        turns[wire.turn].conv, wire.turn))
  /\ UNCHANGED <<turns, call, answer, receipts, left, faults, calls>>

Notify ==
  /\ call # None /\ wire.up /\ call.tool \notin Cli
  /\ Fault("note")
  /\ wire' = [wire EXCEPT !.pipe = Append(@, Line("notification", TRUE, call.conv, 0))]
  /\ UNCHANGED <<turns, call, answer, receipts, left, calls>>

Exit ==
  /\ call # None /\ wire.up
  /\ Fault("exit")
  /\ wire' = [wire EXCEPT !.up = FALSE, !.asked = None]
  /\ UNCHANGED <<turns, call, answer, receipts, left, calls>>

LateStart(s) ==
  /\ s \in left
  /\ turns' = Append(turns, Turn(s.conv, s.key, "running"))
  /\ left' = left \ {s}
  /\ UNCHANGED <<call, wire, answer, receipts, faults, calls>>

\* The turns run on whoever waits for them.
Proceed(t) ==
  /\ turns[t].state \in {"hidden", "running"}
  /\ \E state \in {"running", "completed", "failed"} :
       turns' = [turns EXCEPT ![t].state = state]
  /\ UNCHANGED <<call, wire, answer, receipts, left, faults, calls>>

\* The user's own turns, shown when they are over; bound: one.
UserTurn(conv) ==
  /\ \A t \in DOMAIN turns : turns[t].key # None
  /\ turns' = Append(turns, Turn(conv, None, "completed"))
  /\ UNCHANGED <<call, wire, answer, receipts, left, faults, calls>>

---------------------------------------------------------------------------

CallStep ==
  Spawn \/ Present \/ SpawnFails \/ Send \/ Read \/ TimeUp \/ Close \/ CloseStuck \/ Return

ToolStep ==
  \/ Reply \/ ReplyElsewhere \/ Refuse \/ Finish \/ Notify \/ Exit
  \/ call # None /\ (TakeUp \/ TakeUpUnseen \/ TakeUpElsewhere)

Next ==
  \/ \E conv \in Registered, key \in Keys :
       \E tool \in Served, op \in {"submit", "reconcile", "present", "discover"} :
         Begin(tool, op, conv, key, 0)
  \/ \E r \in receipts : Begin(r.tool, "observe", r.conv, r.key, r.turn)
  \/ CallStep \/ ToolStep \/ Crash
  \/ \E s \in left : LateStart(s)
  \/ \E t \in DOMAIN turns : Proceed(t)
  \/ \E conv \in Registered : UserTurn(conv)

\* The Runner goes on with its call and clocks run; a tool owes nothing.
Spec == Init /\ [][Next]_vars /\ WF_vars(CallStep)

---------------------------------------------------------------------------
(* Properties.                                                             *)

\* The bridges keep what the coordinator relies on: a submission starts at most one
\* turn, a receipt is for a turn of the registered conversation, a turn said to be
\* over is over (also where observe answers without looking), and reconcile finds
\* the youngest turn of the key that was there to see (PlannerWakeAdapter); and a
\* discovery of models never fails (discover_options).
Tool == INSTANCE PlannerTool WITH
  call <- IF call = None THEN None
          ELSE IF call.op = "submit" THEN [call EXCEPT !.turn = wire.turn] ELSE call,
  loose <- left

KeepsThePromise == Tool!ToolSpec

\* A call with a deadline returns whatever its tool does (deepseek_harness.py
\* _request, adapters/codex.py _read_response).
TimedCallsReturn == (call # None /\ Timed) ~> (call = None)

---------------------------------------------------------------------------
(* What the proofs need besides.                                           *)

Tools == WakeTools
Operations == {"submit", "observe", "reconcile", "present", "discover"}
States == {"hidden", "running", "completed", "failed"}
Turns == [conv : Conversations, key : Keys \cup {None}, state : States]
Calls ==
  [tool : Tools, op : Operations, conv : Conversations, key : Keys, turn : Nat,
   seen : SUBSET Nat]
Receipts == [tool : Tools, conv : Conversations, key : Keys, turn : Nat]
Requests(tool, op) == {Script(tool, op)[i] : i \in DOMAIN Script(tool, op)}
Messages ==
  {"initialize", "thread/read", "thread/resume", "turn/start", "session/resume",
   "session/prompt", "model/list", "models", "run"}
Lines ==
  [about : Messages \cup {"notification"}, ok : BOOLEAN, conv : Conversations, turn : Nat,
   view : Seq(States) \cup {None}]
Results ==
  [status : {"error", "receipt", "found", "nothing", "submitted", "active", "completed",
             "failed", "presented", "experimental", "models"}, turn : Nat]
Wires ==
  [at : {"idle", "spawn", "present", "send", "await", "close", "done"},
   todo : Seq(Messages), asked : Messages \cup {None}, up : BOOLEAN,
   pipe : Seq(Lines), buffer : Seq(Lines), turn : Nat, result : Results]

ASSUME NoneAssumption == None \notin Calls /\ None \notin Starting

TypeOK ==
  /\ turns \in Seq(Turns)
  /\ call \in Calls \cup {None}
  /\ wire \in Wires
  /\ receipts \subseteq Receipts
  /\ left \subseteq [conv : Conversations, key : Keys]

\* What a call has seen it saw, and what it shall observe is there: a receipt is for
\* a turn, which is over but for those of Codex.
CallIsFounded ==
  /\ \A r \in receipts :
       /\ r.turn \in DOMAIN turns
       /\ r.tool # "codex" => turns[r.turn].state = "completed"
  /\ call # None =>
       /\ \A t \in call.seen : t \in DOMAIN turns /\ turns[t].state # "hidden"
       /\ IF call.op = "observe"
          THEN /\ call.turn \in DOMAIN turns
               /\ call.tool # "codex" => turns[call.turn].state = "completed"
          ELSE call.turn = 0

\* The requests to come are a rest of the script, and the last of them is the last.
Final(tool, op) == Script(tool, op)[Len(Script(tool, op))]
ScriptIsFollowed ==
  call # None =>
    /\ wire.todo \in Seq(Requests(call.tool, call.op))
    /\ wire.at \in {"spawn", "send", "await"} =>
         wire.todo # <<>> /\ wire.todo[Len(wire.todo)] = Final(call.tool, call.op)
    /\ wire.asked \in Requests(call.tool, call.op) \cup {None}
    /\ wire.at = "present" => call.op = "present" /\ call.tool # "codex"
    /\ wire.at \in {"spawn", "present"} => ~wire.up

\* The turn a submission has started.
TurnIsOurs ==
  call # None /\ wire.turn # 0 =>
    /\ call.op = "submit" /\ wire.turn \in DOMAIN turns
    /\ turns[wire.turn].conv = call.conv \/ call.tool \in Cli

\* What the turns were when the tool looked: they still are what was over then.
Shows(view) ==
  /\ view \in Seq(States) /\ Len(view) <= Len(turns)
  /\ \A t \in call.seen : t \in DOMAIN view /\ view[t] # "hidden"
  /\ \A t \in DOMAIN view : view[t] \in {"completed", "failed"} => turns[t].state = view[t]
  /\ call.op = "observe" => call.turn \in DOMAIN view

\* A line is true whenever it is read.
Tells(line) ==
  /\ line.about = "thread/read" => Shows(line.view)
  /\ line.about \in Starting /\ line.ok =>
       /\ wire.turn # 0 /\ line.turn = wire.turn
       /\ line.conv = turns[wire.turn].conv
       /\ line.about \in Blocking => turns[wire.turn].state = "completed"
LinesAreTrue ==
  call # None =>
    /\ \A i \in DOMAIN wire.pipe : Tells(wire.pipe[i])
    /\ \A i \in DOMAIN wire.buffer : Tells(wire.buffer[i])

\* What a call may say of a turn.
ResultIsTrue(a) ==
  \/ a = Error
  \/ /\ call.op = "submit" /\ a.status = "receipt"
     /\ wire.turn # 0 /\ a.turn = wire.turn /\ turns[a.turn].conv = call.conv
     /\ call.tool # "codex" => turns[a.turn].state = "completed"
  \/ /\ call.op = "reconcile" /\ call.tool = "codex" /\ a.status = "found"
     /\ a.turn \in DOMAIN turns
     /\ turns[a.turn].conv = call.conv /\ turns[a.turn].key = call.key
     /\ \A t \in call.seen : turns[t].conv = call.conv /\ turns[t].key = call.key => t <= a.turn
  \/ /\ call.op = "reconcile" /\ a = Answer("nothing", 0)
     /\ call.tool = "codex" =>
          \A t \in call.seen : ~(turns[t].conv = call.conv /\ turns[t].key = call.key)
  \/ /\ call.op = "observe" /\ a.turn = call.turn
     /\ \/ a.status = "submitted" /\ call.turn \notin call.seen
        \/ a.status = "active"
        \/ a.status \in {"completed", "failed"} /\ turns[call.turn].state = a.status
  \/ /\ call.op = "present"
     /\ a = Answer(IF call.tool = "codex" THEN "experimental" ELSE "presented", 0)
  \/ call.op = "discover" /\ a.status = "models"

OutcomeIsTrue ==
  /\ call # None /\ wire.at \in {"close", "done"} => ResultIsTrue(wire.result)
  /\ wire.at = "done" /\ wire.up => wire.result = Error

\* The inductive invariant.
BridgesInvariant ==
  /\ TypeOK /\ CallIsFounded /\ ScriptIsFollowed /\ TurnIsOurs
  /\ LinesAreTrue /\ OutcomeIsTrue

=============================================================================
