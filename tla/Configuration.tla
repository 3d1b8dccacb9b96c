----------------------------- MODULE Configuration -----------------------------
(***************************************************************************)
(* The way of a configuration: the answers configure_runtime.py takes, the *)
(* automation-policy.yaml it writes, what the Runner reads back out of the *)
(* file (adapters/factory.py, config.py), and the command an adapter makes *)
(* of it.  A value is a name the user chose, or one of the strings the     *)
(* code treats specially.                                                  *)
(***************************************************************************)
EXTENDS Integers, Sequences

CONSTANTS
  Names,      \* participants, models and reasoning values the user can choose
  None        \* a file, a channel or an answer that is not there

Roles == {"planner", "implementer", "reviewer"}
Automatic == {"codex", "opencode", "claude-code"}
WakeTools == Automatic \cup {"deepseek-harness"}
Agents == WakeTools \cup {"cursor"}

Missing == ""
Placeholder == "<configure-in-chat>"
Values == Names \cup {Missing, "default", Placeholder}
Explicit(v) == v \in Names

CostModes == {"economy", "balanced", "quality", "custom"}

\* The key a tool's reasoning value is stored under; the other agents use the
\* last one.
ReasoningKeys == <<"reasoning_effort", "variant", "effort", "reasoning">>
ReasoningKey(agent) ==
  CASE agent = "codex" -> "reasoning_effort"
    [] agent = "opencode" -> "variant"
    [] agent = "claude-code" -> "effort"
    [] OTHER -> "reasoning"
KeySet == {ReasoningKeys[i] : i \in 1..4}

\* The numbers of the sections automation, cost_control, runtime and reporting:
\* counts may be zero, the others may not.
Counts ==
  {"max_rework_rounds", "max_auto_replans", "max_agent_retries", "model_retry_limit",
   "presentation_retry_limit"}
Positives ==
  {"warn_after_agent_runs", "stop_after_agent_runs", "agent_timeout_minutes",
   "heartbeat_interval_seconds", "heartbeat_stale_seconds", "interrupt_grace_seconds",
   "poll_interval_seconds", "presentation_retry_interval_seconds"}
LimitNames == Counts \cup Positives

\* What the file sets of them, and keys the code does not know; None is a text in
\* the place of a number.
LimitFiles ==
  UNION {[names -> Int \cup {None}] : names \in SUBSET (LimitNames \cup {"unknown"})}

Answers ==
  [secret : BOOLEAN,          \* some key names a token, a password, ...
   confirmed : BOOLEAN,       \* runner_confirmed
   cost : CostModes \cup {"fast"},
   roles : [Roles -> [who : Values, agent : Agents, model : Values, reasoning : Values]],
   conversation : Values \cup {None}]   \* planner_channel

\* AutomationPolicy, CostControl, RuntimeLimits and ReportingPolicy: what a file
\* does not set.
LimitDefaults ==
  [n \in LimitNames |->
    CASE n \in {"max_auto_replans", "max_agent_retries", "model_retry_limit"} -> 1
      [] n \in {"max_rework_rounds", "presentation_retry_limit"} -> 3
      [] n = "warn_after_agent_runs" -> 8
      [] n = "stop_after_agent_runs" -> 12
      [] n \in {"agent_timeout_minutes", "interrupt_grace_seconds"} -> 30
      [] n \in {"heartbeat_stale_seconds", "poll_interval_seconds"} -> 45
      [] OTHER -> 10]

PolicyFiles ==
  [mode : {"automatic", "manual"}, cost : CostModes \cup {"fast"}, limits : LimitFiles,
   roles : [Roles -> [who : Values, agent : Agents \cup {Placeholder}, model : Values,
                      background : BOOLEAN, settings : [KeySet -> Values]]]]

Channels == [who : Values, tool : WakeTools]

LoadedRoles ==
  [Roles -> [who : Names, agent : Agents, model : Names, reasoning : Names,
             background : BOOLEAN]]

\* The file the repository is initialized with.
Template ==
  [mode |-> "manual", cost |-> "balanced", limits |-> LimitDefaults,
   roles |-> [r \in Roles |->
     [who |-> Placeholder, agent |-> Placeholder, model |-> Placeholder,
      background |-> r # "planner",
      settings |-> [k \in KeySet |-> IF k = "reasoning" THEN Placeholder ELSE Missing]]]]

---------------------------------------------------------------------------
(* RuntimeConfigurator.apply.                                              *)

CanApply(a) ==
  /\ ~a.secret
  /\ a.confirmed =>
       \A r \in Roles :
         /\ a.roles[r].who # Missing
         /\ r # "planner" => a.roles[r].agent \in Automatic
         /\ Explicit(a.roles[r].model)
         /\ a.roles[r].reasoning \notin {Missing, Placeholder}
  /\ a.conversation # None =>
       /\ a.conversation # Missing
       /\ a.roles["planner"].who # Missing
       /\ a.roles["planner"].agent \in WakeTools

PolicyOf(a) ==
  [mode |-> IF a.confirmed THEN "automatic" ELSE "manual",
   cost |-> a.cost, limits |-> LimitDefaults,
   roles |-> [r \in Roles |->
     [who |-> a.roles[r].who, agent |-> a.roles[r].agent, model |-> a.roles[r].model,
      background |-> r # "planner",
      settings |-> [k \in KeySet |->
        IF k = ReasoningKey(a.roles[r].agent) THEN a.roles[r].reasoning ELSE Missing]]]]

\* The channel it saves last, if one was asked for.
ChannelAfter(a, channel) ==
  IF a.conversation = None THEN channel
  ELSE [who |-> a.roles["planner"].who, tool |-> a.roles["planner"].agent]

---------------------------------------------------------------------------
(* load_agent_policy and load_runtime_config.                              *)

\* A foreground agent outside the list is read under the first key it has.
KeyRead(entry) ==
  IF entry.agent \in Automatic THEN ReasoningKey(entry.agent)
  ELSE LET given == SelectSeq(ReasoningKeys, LAMBDA k : entry.settings[k] # Missing)
       IN IF given = <<>> THEN "reasoning" ELSE Head(given)

PolicyLoads(file, automatic) ==
  /\ file # None
  /\ automatic => file.mode = "automatic"
  /\ ~file.roles["planner"].background
  /\ \A r \in Roles :
       LET entry == file.roles[r]
       IN /\ entry.background => entry.agent \in Automatic
          /\ Explicit(entry.who) /\ Explicit(entry.model)
          /\ Explicit(entry.settings[KeyRead(entry)])

RolesOf(file) ==
  [r \in Roles |->
    [who |-> file.roles[r].who, agent |-> file.roles[r].agent,
     model |-> file.roles[r].model, background |-> file.roles[r].background,
     reasoning |-> file.roles[r].settings[KeyRead(file.roles[r])]]]

\* Their __post_init__; a key they do not have is a TypeError.
LimitsLoad(limits) ==
  LET limit == [n \in LimitNames |-> IF n \in DOMAIN limits THEN limits[n] ELSE LimitDefaults[n]]
  IN /\ DOMAIN limits \subseteq LimitNames
     /\ \A n \in LimitNames : limit[n] # None /\ limit[n] >= IF n \in Counts THEN 0 ELSE 1
     /\ limit["stop_after_agent_runs"] >= limit["warn_after_agent_runs"]
     /\ limit["heartbeat_stale_seconds"] > limit["heartbeat_interval_seconds"]

RuntimeLoads(file) ==
  file # None => LimitsLoad(file.limits) /\ file.cost \in CostModes

\* configure_runtime.py inspect: complete, and ready_to_start.
Complete(file) == PolicyLoads(file, FALSE)
ReadyToStart(file, channel) ==
  Complete(file) /\ file.mode = "automatic" /\ channel # None

\* The checks of runnerctl.py start on the project.
MayStart(file, channel) ==
  /\ PolicyLoads(file, TRUE)
  /\ channel # None
  /\ channel.who = file.roles["planner"].who
  /\ channel.tool = file.roles["planner"].agent

---------------------------------------------------------------------------
(* RoleRoutingAdapter and the adapters' build_command.                     *)

\* Mutant: any participant may be launched in the role.
ResolvesRole(roles, role, who) == roles[role].background

Resolves(roles, role, who) ==
  roles[role].background /\ roles[role].who = who

\* The request carries what the task record says of model and reasoning; the
\* router puts the configured ones in their place.
Routed(roles, role, request) ==
  [request EXCEPT !.model = roles[role].model, !.reasoning = roles[role].reasoning]

CodexCommand(request) ==
  [program |-> "codex", model |-> request.model,
   flag |-> "model_reasoning_effort", reasoning |-> request.reasoning]

OpenCodeCommand(request) ==
  [program |-> "opencode", model |-> request.model,
   flag |-> "--variant", reasoning |-> request.reasoning]

ClaudeCommand(request) ==
  [program |-> "claude-code", model |-> request.model,
   flag |-> "--effort", reasoning |-> request.reasoning]

Command(roles, role, request) ==
  LET routed == Routed(roles, role, request)
  IN CASE roles[role].agent = "codex" -> CodexCommand(routed)
       [] roles[role].agent = "opencode" -> OpenCodeCommand(routed)
       [] roles[role].agent = "claude-code" -> ClaudeCommand(routed)

=============================================================================
