----------------------------- MODULE RunnerService -----------------------------
(***************************************************************************)
(* The machine-wide service: one Runner process under launchd that visits  *)
(* every registered project in turn (runner.py), tells the user what needs *)
(* attention (notifications.py), and is installed, started and stopped by  *)
(* setup_runner.py and runnerctl.py.  A project's policy is read when its  *)
(* supervisor is built and kept until a tick of the project fails; what a  *)
(* tick does to the task is the subject of Supervisor and Reporting, here  *)
(* it launches the implementer, asks for attention, waits or fails.        *)
(***************************************************************************)
EXTENDS Configuration

CONSTANTS
  Projects,
  ApplyAnswers,    \* answers configure_runtime.py may be given
  FirstAnswers,    \* those the projects may have been set up with
  LimitEdits,      \* limits a user may write into the file
  Versions,        \* releases that may be installed
  Substitutes,     \* implementers replace-agent may assign
  Faults,          \* which faults may occur
  MaxChanges       \* bound: changes of tasks and configurations, commands and faults

\* A volume the service has no access to; the Runner is killed; the Planner's tool
\* does not answer; launchctl refuses; a management command is cut short.
FaultKinds == {"unreadable", "crash", "hang", "refused", "cut"}

ASSUME ServiceAssumption ==
  /\ ApplyAnswers \subseteq Answers
  /\ \A a \in FirstAnswers : a \in ApplyAnswers /\ CanApply(a)
  /\ Substitutes \subseteq Names
  /\ \A limits \in LimitEdits : DOMAIN limits \subseteq LimitNames \cup {"unknown"}
  /\ Faults \subseteq FaultKinds
  /\ None \notin Projects /\ None \notin Versions
  /\ MaxChanges \in Nat

VARIABLES
  policy,      \* automation-policy.yaml of every project
  channel,     \* planner-channel.json of every project
  task,        \* the active task of every project
  unreadable,  \* projects the service may not read (a volume without access)
  journal,     \* notifications.jsonl of every project
  registry,    \* projects.json
  whole,       \* version directories that are completely copied
  current,     \* the link the service starts from
  plist,       \* the launchd job description is there
  loaded,      \* launchd has the job
  runner,      \* the Runner process
  command,     \* the management command in progress
  spent,       \* bound: changes, commands and faults so far
  applied,     \* history: the answers a project was configured with
  launched,    \* history: the last launch in every project
  shown,       \* history: how often a notice was shown
  started      \* history: projects whose start was reported

project == <<policy, channel, task, unreadable, journal>>
machine == <<registry, whole, current, plist, loaded>>
history == <<applied, launched, shown, started>>
vars == <<project, machine, runner, command, spent, history>>

\* Of the statuses that need the user one stands for all.  The tick of a task that
\* is REPORTING asks the Planner's tool; what comes of it is told in Reporting.
Attention == {"PLANNING"}
Statuses == Attention \cup {"IMPLEMENTING", "REPORTING"}
Failures == {"unreadable", "policy", "version", "participant"}

\* The bridges that wait for their tool with a deadline.
Timed == {"deepseek-harness"}

ASSUME NoneAssumption == None \notin LoadedRoles /\ None \notin Failures

\* A notice is named by task, state and revision; the one for a failing project
\* is the same whatever the failure.
Notices == [what : Attention, revision : 1..(MaxChanges + 1)]
           \cup {[what |-> "project_error", revision |-> 0]}
ProjectError == [what |-> "project_error", revision |-> 0]

\* A release is installed and the projects are configured, or nothing is yet.
Init ==
  /\ \E a \in FirstAnswers, v \in Versions, bare \in BOOLEAN :
       /\ task = [p \in Projects |-> [status |-> "PLANNING", revision |-> 1,
                   who |-> a.roles["implementer"].who, running |-> FALSE]]
       /\ policy = [p \in Projects |-> IF bare THEN Template ELSE PolicyOf(a)]
       /\ channel = [p \in Projects |-> IF bare THEN None ELSE ChannelAfter(a, None)]
       /\ applied = [p \in Projects |-> IF bare THEN {} ELSE {a}]
       /\ whole = IF bare THEN {} ELSE {v}
       /\ current = IF bare THEN None ELSE v
       /\ plist = ~bare
  /\ unreadable = {}
  /\ journal = [p \in Projects |-> {}]
  /\ registry = <<>>
  /\ loaded = FALSE
  /\ runner = None
  /\ command = None
  /\ spent = 0
  /\ launched = [p \in Projects |-> None]
  /\ shown = [p \in Projects |-> [n \in Notices |-> 0]]
  /\ started = {}

Registered == {registry[i] : i \in DOMAIN registry}

\* What nobody is obliged to do happens this often.
Change ==
  /\ spent < MaxChanges
  /\ spent' = spent + 1

Fault(kind) == kind \in Faults /\ Change

---------------------------------------------------------------------------
(* The Runner process.                                                     *)

Fresh(version) ==
  [at |-> "sleep", version |-> version, todo |-> <<>>, notice |-> None,
   cache |-> [p \in Projects |-> None], told |-> [p \in Projects |-> None]]

\* launchd starts the job, at load and whenever the process is gone.
Launchd ==
  /\ loaded /\ runner = None
  /\ current # None /\ current \in whole
  /\ runner' = Fresh(current)
  /\ UNCHANGED <<project, machine, command, spent, history>>

BeginPass ==
  /\ runner # None /\ runner.at = "sleep"
  /\ registry # <<>>
  /\ runner' = [runner EXCEPT !.at = "visit", !.todo = registry]
  /\ UNCHANGED <<project, machine, command, spent, history>>

\* The Runner with its visit of the first project on its list over.
Onward(r) ==
  [r EXCEPT !.todo = Tail(@), !.notice = None,
            !.at = IF Len(r.todo) > 1 THEN "visit" ELSE "sleep"]

Here == Head(runner.todo)

\* The policy the supervisor of a project works with: the one it was built from.
Held(p) ==
  IF runner.cache[p] # None THEN runner.cache[p]
  ELSE IF PolicyLoads(policy[p], TRUE) THEN RolesOf(policy[p])
  ELSE None

\* The supervisor is there, or can be built.
Built(p) == runner.cache[p] # None \/ (PolicyLoads(policy[p], TRUE) /\ RuntimeLoads(policy[p]))

\* A module that is loaded when it is needed is found: the Runner's own release is
\* not being replaced.
ModulesLoad == runner.version \in whole

Launches(p) == task[p].status = "IMPLEMENTING" /\ ~task[p].running

\* What a tick of the project raises.
Failure(p) ==
  CASE p \in unreadable -> "unreadable"
    [] p \notin unreadable /\ ~Built(p) -> "policy"
    [] p \notin unreadable /\ Built(p) /\ ~ModulesLoad -> "version"
    [] p \notin unreadable /\ Built(p) /\ ModulesLoad /\ Launches(p)
         /\ ~Resolves(Held(p), "implementer", task[p].who) -> "participant"
    [] OTHER -> None

\* A task record says nothing of model and reasoning.
Request == [model |-> "default", reasoning |-> None]

\* The tick goes through: it launches, or finds that the user is needed.
Tick ==
  /\ runner # None /\ runner.at = "visit"
  /\ Failure(Here) = None
  /\ LET p == Here
         launch == Launches(p)
         kept == [runner EXCEPT !.cache[p] = Held(p), !.told[p] = None]
     IN /\ task' = IF launch THEN [task EXCEPT ![p].running = TRUE] ELSE task
        /\ launched' = IF launch
                       THEN [launched EXCEPT ![p] =
                               [who |-> task[p].who,
                                command |-> Command(Held(p), "implementer", Request)]]
                       ELSE launched
        /\ runner' = IF task[p].status \in Attention
                     THEN [kept EXCEPT !.at = "notify", !.notice = task[p].status]
                     ELSE Onward(kept)
  /\ UNCHANGED <<policy, channel, unreadable, journal, machine, command, spent,
                 applied, shown, started>>

\* The Planner's tool is asked without a deadline, and does not answer: the tick does
\* not end, and only the end of the process ends it.
Hang ==
  /\ runner # None /\ runner.at = "visit"
  /\ Failure(Here) = None
  /\ task[Here].status = "REPORTING"
  /\ channel[Here] # None /\ channel[Here].tool \notin Timed
  /\ Fault("hang")
  /\ runner' = [runner EXCEPT !.at = "hung"]
  /\ UNCHANGED <<project, machine, command, history>>

\* The tick raises: the supervisor is dropped, and the error is reported if it
\* is not the one that was reported last.
ProjectFails ==
  /\ runner # None /\ runner.at = "visit"
  /\ Failure(Here) # None
  /\ LET p == Here
         dropped == [runner EXCEPT !.cache[p] = None, !.told[p] = Failure(p)]
     IN runner' = IF runner.told[p] # Failure(p)
                  THEN [dropped EXCEPT !.at = "notify", !.notice = "project_error"]
                  ELSE Onward(dropped)
  /\ UNCHANGED <<project, machine, command, spent, history>>

\* The notice carries the revision the record has by now.
NoticeNow ==
  IF runner.notice = "project_error" THEN ProjectError
  ELSE [what |-> runner.notice, revision |-> task[Here].revision]

\* The error of a project names no task, and no record is read for it.
CanNote == Here \notin unreadable /\ (runner.notice = "project_error" \/ ModulesLoad)

\* Mutant: the journal is written and not read.
EmitOnceUnread ==
  /\ runner # None /\ runner.at = "notify" /\ CanNote
  /\ runner' = [runner EXCEPT !.at = "show", !.notice = NoticeNow]
  /\ journal' = [journal EXCEPT ![Here] = @ \cup {NoticeNow}]
  /\ UNCHANGED <<policy, channel, task, unreadable, machine, command, spent, history>>

\* NotificationJournal.emit_once.
EmitOnce ==
  /\ runner # None /\ runner.at = "notify" /\ CanNote
  /\ runner' = IF NoticeNow \in journal[Here] THEN Onward(runner)
               ELSE [runner EXCEPT !.at = "show", !.notice = NoticeNow]
  /\ journal' = [journal EXCEPT ![Here] = @ \cup {NoticeNow}]
  /\ UNCHANGED <<policy, channel, task, unreadable, machine, command, spent, history>>

\* The journal of the project, or the module that reads the record, is out of
\* reach; this part of the pass is outside its try statement.
NoticeFails ==
  /\ runner # None /\ runner.at = "notify" /\ ~CanNote
  /\ runner' = None
  /\ UNCHANGED <<project, machine, command, spent, history>>

Show ==
  /\ runner # None /\ runner.at = "show"
  /\ shown' = [shown EXCEPT ![Here][runner.notice] = @ + 1]
  /\ runner' = Onward(runner)
  /\ UNCHANGED <<project, machine, command, spent, applied, launched, started>>

RunnerStep == BeginPass \/ Tick \/ ProjectFails \/ EmitOnce \/ NoticeFails \/ Show

\* The Runner is killed.
RunnerCrash ==
  /\ runner # None
  /\ Fault("crash")
  /\ runner' = None
  /\ UNCHANGED <<project, machine, command, history>>

---------------------------------------------------------------------------
(* The projects.                                                           *)

\* Agents, Planner and user move the task on.
MoveTask(p, status) ==
  /\ Change
  /\ status # task[p].status
  /\ task' = [task EXCEPT ![p].status = status, ![p].revision = @ + 1, ![p].running = FALSE]
  /\ UNCHANGED <<policy, channel, unreadable, journal, machine, runner, command, history>>

\* replace-agent; the policy is not told.
ReplaceImplementer(p, who) ==
  /\ ~task[p].running
  /\ Change
  /\ task[p].who # who
  /\ task' = [task EXCEPT ![p].who = who, ![p].revision = @ + 1]
  /\ UNCHANGED <<policy, channel, unreadable, journal, machine, runner, command, history>>

Apply(p, a) ==
  /\ Change
  /\ CanApply(a)
  /\ policy' = [policy EXCEPT ![p] = PolicyOf(a)]
  /\ channel' = [channel EXCEPT ![p] = ChannelAfter(a, @)]
  /\ applied' = [applied EXCEPT ![p] = @ \cup {a}]
  /\ UNCHANGED <<task, unreadable, journal, machine, runner, command, launched, shown, started>>

\* The user edits the limits in the file, for better or worse.
EditLimits(p, limits) ==
  /\ Change
  /\ policy[p].limits # limits
  /\ policy' = [policy EXCEPT ![p].limits = limits]
  /\ UNCHANGED <<channel, task, unreadable, journal, machine, runner, command, history>>

LoseAccess(p) ==
  /\ p \notin unreadable
  /\ Fault("unreadable")
  /\ unreadable' = unreadable \cup {p}
  /\ UNCHANGED <<policy, channel, task, journal, machine, runner, command, history>>

---------------------------------------------------------------------------
(* runnerctl.py: one command at a time.                                    *)

Issue(record) ==
  /\ command = None
  /\ Change
  /\ command' = record

Return == command' = None

\* start: the gate, before anything is changed.
Start(p) ==
  /\ p \notin unreadable
  /\ MayStart(policy[p], channel[p])
  /\ plist
  /\ Issue([name |-> "start", at |-> "register", project |-> p])
  /\ UNCHANGED <<project, machine, runner, history>>

\* restart of a job launchd does not have is a start; of one it has, the channel
\* is not looked at.
Restart(p) ==
  /\ loaded
  /\ p \notin unreadable
  /\ PolicyLoads(policy[p], TRUE)
  /\ Issue([name |-> "restart", at |-> "register", project |-> p])
  /\ UNCHANGED <<project, machine, runner, history>>

\* Mutant: the registry is written with the one project.
RegisterAlone ==
  /\ command # None /\ command.at = "register"
  /\ registry' = <<command.project>>
  /\ command' = [command EXCEPT !.at = "kickstart"]
  /\ UNCHANGED <<project, whole, current, plist, loaded, runner, spent, history>>

\* ProjectRegistry.register: the projects stay in the order they came.
Register ==
  /\ command # None /\ command.at = "register"
  /\ registry' = IF command.project \in Registered THEN registry
                 ELSE Append(registry, command.project)
  /\ command' = [command EXCEPT !.at = "kickstart"]
  /\ UNCHANGED <<project, whole, current, plist, loaded, runner, spent, history>>

\* launchctl bootstrap, if need be, and kickstart -k: a Runner that is there is
\* killed wherever it is.
Kickstart ==
  /\ command # None /\ command.at = "kickstart"
  /\ loaded' = TRUE
  /\ runner' = IF current # None /\ current \in whole THEN Fresh(current) ELSE None
  /\ command' = IF command.name = "start" THEN [command EXCEPT !.at = "wait"] ELSE None
  /\ UNCHANGED <<project, registry, whole, current, plist, spent, history>>

\* launchctl refuses; the project stays registered.
KickstartRefused ==
  /\ command # None /\ command.at = "kickstart"
  /\ Fault("refused")
  /\ Return
  /\ UNCHANGED <<project, machine, runner, history>>

\* status: a policy that does not load blocks the project whatever launchd says of
\* the service.
Status(p) ==
  CASE ~PolicyLoads(policy[p], TRUE) -> "blocked"
    [] PolicyLoads(policy[p], TRUE) /\ ~loaded -> "not-loaded"
    [] OTHER -> IF runner # None THEN "running" ELSE "failed"

\* start waits for the service and reports success if it is running.
Wait ==
  /\ command # None /\ command.at = "wait"
  /\ started' = IF Status(command.project) = "running"
                THEN started \cup {command.project} ELSE started
  /\ Return
  /\ UNCHANGED <<project, machine, runner, spent, applied, launched, shown>>

Stop ==
  /\ Issue(None)
  /\ loaded' = FALSE
  /\ runner' = None
  /\ UNCHANGED <<project, registry, whole, current, plist, history>>

---------------------------------------------------------------------------
(* setup_runner.py.                                                        *)

\* preflight: an active run anywhere refuses the installation, whether its
\* processes are there (wait_for_active_run) or not (repair_required).
Install(v) ==
  /\ \A p \in Registered : p \notin unreadable /\ ~task[p].running
  /\ Issue([name |-> "install", at |-> "remove", version |-> v])
  /\ UNCHANGED <<project, machine, runner, history>>

InstallStep(from, to) ==
  /\ command # None /\ command.name = "install" /\ command.at = from
  /\ command' = IF to = "done" THEN None ELSE [command EXCEPT !.at = to]
  /\ UNCHANGED <<project, registry, loaded, runner, spent, history>>

RemoveOldCopy ==
  /\ InstallStep("remove", "copy")
  /\ whole' = whole \ {command.version}
  /\ UNCHANGED <<current, plist>>

CopySkill ==
  /\ InstallStep("copy", "unlink")
  /\ whole' = whole \cup {command.version}
  /\ UNCHANGED <<current, plist>>

Unlink ==
  /\ InstallStep("unlink", "switch")
  /\ current' = None
  /\ UNCHANGED <<whole, plist>>

Switch ==
  /\ InstallStep("switch", "plist")
  /\ current' = command.version
  /\ UNCHANGED <<whole, plist>>

WritePlist ==
  /\ InstallStep("plist", "done")
  /\ plist' = TRUE
  /\ UNCHANGED <<whole, current>>

\* uninstall removes the job description and the versions; launchd is not told.
Uninstall ==
  /\ Issue(None)
  /\ plist' = FALSE
  /\ whole' = {}
  /\ current' = None
  /\ UNCHANGED <<project, registry, loaded, runner, history>>

\* A management command is cut short.
CutShort ==
  /\ command # None
  /\ Fault("cut")
  /\ Return
  /\ UNCHANGED <<project, machine, runner, history>>

---------------------------------------------------------------------------

ProjectStep(p) ==
  \/ \E status \in Statuses : MoveTask(p, status)
  \/ \E who \in Substitutes : ReplaceImplementer(p, who)
  \/ \E a \in ApplyAnswers : Apply(p, a)
  \/ \E limits \in LimitEdits : EditLimits(p, limits)
  \/ LoseAccess(p)

CommandStep ==
  \/ Register \/ Kickstart \/ KickstartRefused \/ Wait
  \/ RemoveOldCopy \/ CopySkill \/ Unlink \/ Switch \/ WritePlist

Next ==
  \/ RunnerStep \/ Hang \/ Launchd \/ RunnerCrash
  \/ \E p \in Projects : ProjectStep(p) \/ Start(p) \/ Restart(p)
  \/ CommandStep \/ Stop \/ Uninstall \/ CutShort
  \/ \E v \in Versions : Install(v)

\* The Runner runs on, launchd keeps it alive; nobody is obliged to anything else.
Spec == Init /\ [][Next]_vars /\ WF_vars(RunnerStep) /\ WF_vars(Launchd)

---------------------------------------------------------------------------
(* Properties.                                                             *)

\* The option by which a program takes the effort it shall make.
ReasoningFlag(program) ==
  [codex |-> "model_reasoning_effort", opencode |-> "--variant",
   claude |-> "--effort"][IF program = "claude-code" THEN "claude" ELSE program]

\* Every launch is one somebody configured: program, model and reasoning are
\* those of one accepted set of answers, and the participant is both the one the
\* answers name and the one the task was assigned to (PolicyOf against
\* RolesOf, the cached supervisor, the router).
LaunchWasConfigured ==
  [][\A p \in Projects : launched'[p] # launched[p] =>
       /\ launched'[p].who = task[p].who
       /\ \E a \in applied[p] :
            LET r == a.roles["implementer"]
            IN /\ a.confirmed /\ r.who = task[p].who
               /\ launched'[p].command =
                    [program |-> r.agent, model |-> r.model,
                     flag |-> ReasoningFlag(r.agent), reasoning |-> r.reasoning]]_vars

\* The user is told at most once of a state at a revision, whatever is killed,
\* restarted or reconfigured (emit_once writes before the notifier speaks).
ToldOnce == \A p \in Projects, n \in Notices : shown[p][n] <= 1

Visit(p) == runner # None /\ runner.at = "visit" /\ Here = p /\ (Tick \/ ProjectFails)

\* The projects the Runner comes to earlier in a pass.
Before(p) == {q \in Registered : \E i, j \in DOMAIN registry :
                registry[i] = q /\ registry[j] = p /\ i < j}

\* The ways the Runner may be kept from a project for ever: the tool of some Planner
\* never answers, or a project it comes to earlier is on a volume it cannot read, so
\* that it ends in every pass while it reports the error (references/runner.md
\* promises that such a project does not stop later ones).
HungForEver == <>[](runner # None /\ runner.at = "hung")
StarvedBehind(p) == <>[](Before(p) \cap unreadable # {})

\* A project whose start was reported is visited for ever, as long as the service
\* stays loaded and installed, but for those two ways: its own unreadable directory,
\* that of a later project, the configuration and the registration of other projects,
\* replaced participants, refused installations and restarts do not keep the Runner
\* from it (run_once, register, setup_runner.py).
EveryStartedIsServed ==
  \A p \in Projects :
    <>[](p \in started /\ loaded /\ current \in whole)
      => []<><<Visit(p)>>_vars \/ HungForEver \/ StarvedBehind(p)

---------------------------------------------------------------------------
(* What the proofs need besides.                                           *)

RunnersAt(places, notices) ==
  [at : places, version : Versions, todo : Seq(Projects), notice : notices,
   cache : [Projects -> LoadedRoles \cup {None}], told : [Projects -> Failures \cup {None}]]
Runners ==
  RunnersAt({"sleep", "visit", "hung"}, {None})
  \cup RunnersAt({"notify"}, Attention \cup {"project_error"})
  \cup RunnersAt({"show"}, Notices)

Commands ==
  [name : {"start", "restart"}, at : {"register", "kickstart", "wait"}, project : Projects]
  \cup [name : {"install"}, at : {"remove", "copy", "unlink", "switch", "plist"},
        version : Versions]

TypeOK ==
  /\ task \in [Projects -> [status : Statuses, revision : 1..(spent + 1), who : Values,
                            running : BOOLEAN]]
  /\ journal \in [Projects -> SUBSET Notices]
  /\ registry \in Seq(Projects)
  /\ current \in Versions \cup {None}
  /\ runner \in Runners \cup {None}
  /\ command \in Commands \cup {None}
  /\ spent \in 0..MaxChanges
  /\ applied \in [Projects -> SUBSET ApplyAnswers]
  /\ shown \in [Projects -> [Notices -> Nat]]
  /\ DOMAIN policy = Projects /\ DOMAIN launched = Projects

\* A Runner under way has a project before it.
RunnerIsSomewhere == runner # None /\ runner.at # "sleep" => runner.todo # <<>>

\* What was shown is in the journal; what is about to be shown is, too, and was not
\* shown yet.
JournalKnows ==
  /\ \A p \in Projects, n \in Notices :
       shown[p][n] <= 1 /\ (shown[p][n] # 0 => n \in journal[p])
  /\ runner # None /\ runner.at = "show" =>
       runner.notice \in journal[Here] /\ shown[Here][runner.notice] = 0

\* But for the limits, a file is the template or what accepted answers make of it.
AnswersWereAccepted == \A p \in Projects : \A a \in applied[p] : CanApply(a)
PolicyIsWritten ==
  \A p \in Projects :
    \E file \in {Template} \cup {PolicyOf(a) : a \in applied[p]} :
      policy[p] = [file EXCEPT !.limits = policy[p].limits]

\* A supervisor holds the roles of answers the project was configured with.
CacheIsApplied ==
  runner # None =>
    \A p \in Projects : runner.cache[p] # None =>
      \E a \in applied[p] : a.confirmed /\ runner.cache[p] = RolesOf(PolicyOf(a))

\* The inductive invariant.
ServiceInvariant ==
  /\ TypeOK /\ RunnerIsSomewhere /\ JournalKnows
  /\ AnswersWereAccepted /\ PolicyIsWritten /\ CacheIsApplied

=============================================================================
