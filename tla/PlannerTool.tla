------------------------------ MODULE PlannerTool ------------------------------
(***************************************************************************)
(* What a Planner wake adapter (planner_wake/base.py, PlannerWakeAdapter)  *)
(* promises the reporting coordinator: one call at a time, which starts at *)
(* most one turn in a conversation, and answers that are true of the       *)
(* turns.  A call may raise at any time, whatever it has done.  How the    *)
(* four adapters talk to their tools is the subject of PlannerBridges.     *)
(***************************************************************************)
EXTENDS Naturals, Sequences, FiniteSets

CONSTANTS
  Conversations,
  Keys,           \* wake keys
  None

Cli == {"claude-code", "opencode"}
WakeTools == Cli \cup {"codex", "deepseek-harness"}

\* "discover" is configure_runtime.py discover, which talks to the same programs.
Operations == {"submit", "observe", "reconcile", "present", "discover"}

VARIABLES
  turns,     \* the turns of all conversations, in the order they were started
  call,      \* the call in progress
  answer,    \* the answer to the last one
  receipts,  \* the receipts handed out
  loose      \* submissions whose call is over and which a tool may still take up

toolVars == <<turns, call, answer, receipts, loose>>

Turn(conv, key, state) == [conv |-> conv, key |-> key, state |-> state]
Receipt(tool, conv, key, turn) == [tool |-> tool, conv |-> conv, key |-> key, turn |-> turn]
Answer(status, turn) == [status |-> status, turn |-> turn]

\* A turn that runs may not show in its conversation yet.
Underway == {"hidden", "running"}
Visible == {t \in DOMAIN turns : turns[t].state # "hidden"}
Mentions(conv, key) == {t \in DOMAIN turns : turns[t].conv = conv /\ turns[t].key = key}

ToolInit ==
  /\ turns = <<>>
  /\ call = None
  /\ answer = None
  /\ receipts = {}
  /\ loose = {}

\* seen: the turns the conversations show when the call begins.
NewCall(tool, op, conv, key, turn) ==
  [tool |-> tool, op |-> op, conv |-> conv, key |-> key, turn |-> turn, seen |-> Visible]

Begin ==
  /\ call = None
  /\ \/ \E tool \in WakeTools, conv \in Conversations, key \in Keys :
          \E op \in Operations \ {"observe"} : call' = NewCall(tool, op, conv, key, 0)
     \/ \E r \in receipts : call' = NewCall(r.tool, "observe", r.conv, r.key, r.turn)
  /\ UNCHANGED <<turns, answer, receipts, loose>>

\* The tool takes a submission: once, and in the registered conversation, except
\* that a command line tool may run it elsewhere.
Accept ==
  /\ call # None /\ call.op = "submit" /\ call.turn = 0
  /\ \E conv \in Conversations, state \in Underway :
       /\ conv = call.conv \/ call.tool \in Cli
       /\ turns' = Append(turns, Turn(conv, call.key, state))
  /\ call' = [call EXCEPT !.turn = Len(turns) + 1]
  /\ UNCHANGED <<answer, receipts, loose>>

\* Whether a call may answer so.
True(a) ==
  CASE a.status = "error" -> call.op # "discover"
    [] a.status = "receipt" ->
         /\ call.op = "submit" /\ call.turn # 0 /\ a.turn = call.turn
         /\ turns[a.turn].conv = call.conv
         /\ call.tool # "codex" => turns[a.turn].state = "completed"
    [] a.status = "found" ->
         /\ call.op = "reconcile" /\ call.tool = "codex"
         /\ a.turn \in Mentions(call.conv, call.key)
         /\ \A t \in call.seen \cap Mentions(call.conv, call.key) : t <= a.turn
    [] a.status = "nothing" ->
         /\ call.op = "reconcile"
         /\ call.tool = "codex" => call.seen \cap Mentions(call.conv, call.key) = {}
    [] a.status = "submitted" -> call.op = "observe" /\ call.turn \notin call.seen
    [] a.status = "active" -> call.op = "observe"
    [] a.status \in {"completed", "failed"} ->
         call.op = "observe" /\ turns[call.turn].state = a.status
    [] a.status = "presented" -> call.op = "present" /\ call.tool # "codex"
    [] a.status = "experimental" -> call.op = "present" /\ call.tool = "codex"
    [] a.status \in {"verified", "pending"} ->
         call.op = "discover" /\ call.tool # "deepseek-harness"
    [] a.status = "manual-only" -> call.op = "discover" /\ call.tool = "deepseek-harness"

\* A call that raises may leave its submission with the tool.
MayLeave(a) == a.status = "error" /\ call.op = "submit" /\ call.turn = 0

ReturnWith(a) ==
  /\ True(a)
  /\ answer' = a
  /\ receipts' = IF a.status \in {"receipt", "found"}
                 THEN receipts \cup {Receipt(call.tool, call.conv, call.key, a.turn)}
                 ELSE receipts
  /\ \/ loose' = loose
     \/ MayLeave(a) /\ loose' = loose \cup {[conv |-> call.conv, key |-> call.key]}
  /\ call' = None
  /\ UNCHANGED turns

Return ==
  /\ call # None
  /\ \E status \in {"error", "receipt", "found", "nothing", "submitted", "active",
                    "completed", "failed", "presented", "experimental",
                    "verified", "pending", "manual-only"}, t \in 0..Len(turns) :
       ReturnWith(Answer(status, t))

\* The caller dies.
Abandon ==
  /\ call # None
  /\ \/ loose' = loose
     \/ /\ call.op = "submit" /\ call.turn = 0
        /\ loose' = loose \cup {[conv |-> call.conv, key |-> call.key]}
  /\ call' = None
  /\ UNCHANGED <<turns, answer, receipts>>

\* A submission nobody waits for is taken up.
LateStart ==
  \E s \in loose :
    /\ turns' = Append(turns, Turn(s.conv, s.key, "running"))
    /\ loose' = loose \ {s}
    /\ UNCHANGED <<call, answer, receipts>>

\* A turn shows, or comes to its end.
Proceed ==
  /\ \E t \in DOMAIN turns :
       /\ turns[t].state \in Underway
       /\ \E state \in {"running", "completed", "failed"} :
            turns' = [turns EXCEPT ![t].state = state]
  /\ UNCHANGED <<call, answer, receipts, loose>>

\* The user goes on with the conversation.
UserTurn ==
  /\ \E conv \in Conversations : turns' = Append(turns, Turn(conv, None, "completed"))
  /\ UNCHANGED <<call, answer, receipts, loose>>

ToolNext == Begin \/ Accept \/ Return \/ Abandon \/ LateStart \/ Proceed \/ UserTurn

ToolSpec == ToolInit /\ [][ToolNext]_toolVars

=============================================================================
