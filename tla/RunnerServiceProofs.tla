-------------------------- MODULE RunnerServiceProofs --------------------------
(***************************************************************************)
(* Theorems of RunnerService, for any projects, answers and releases, any  *)
(* faults and any number of changes: nobody is told twice of one state,    *)
(* and every launch is one that somebody configured.                       *)
(***************************************************************************)
EXTENDS RunnerService, TLAPS

---------------------------------------------------------------------------
(* The configuration.                                                      *)

\* The key under which the reasoning of a tool is stored.
LEMMA ReasoningKeyOf ==
  /\ ReasoningKey("codex") = "reasoning_effort"
  /\ ReasoningKey("opencode") = "variant"
  /\ ReasoningKey("claude-code") = "effort"
BY Zenon DEF ReasoningKey

\* The keys of an entry.
LEMMA AllKeys == KeySet = {"reasoning_effort", "variant", "effort", "reasoning"}
<1>1. /\ ReasoningKeys[1] = "reasoning_effort" /\ ReasoningKeys[2] = "variant"
      /\ ReasoningKeys[3] = "effort" /\ ReasoningKeys[4] = "reasoning"
  BY DEF ReasoningKeys
<1>2. 1..4 = {1, 2, 3, 4}
  OBVIOUS
<1>3. KeySet = {ReasoningKeys[i] : i \in {1, 2, 3, 4}}
  BY <1>2 DEF KeySet
<1>. QED
  BY <1>1, <1>3

\* The command of each of the three adapters.
LEMMA CommandOf ==
  ASSUME NEW roles, NEW role, NEW request
  PROVE  /\ roles[role].agent = "codex" =>
              Command(roles, role, request) = CodexCommand(Routed(roles, role, request))
         /\ roles[role].agent = "opencode" =>
              Command(roles, role, request) = OpenCodeCommand(Routed(roles, role, request))
         /\ roles[role].agent = "claude-code" =>
              Command(roles, role, request) = ClaudeCommand(Routed(roles, role, request))
BY Zenon DEF Command

\* What the Runner makes of the implementer in answers that were accepted.
LEMMA ImplementerOf ==
  ASSUME NEW a \in Answers, CanApply(a), a.confirmed
  PROVE  /\ RolesOf(PolicyOf(a))["implementer"].who = a.roles["implementer"].who
         /\ RolesOf(PolicyOf(a))["implementer"].agent = a.roles["implementer"].agent
         /\ RolesOf(PolicyOf(a))["implementer"].model = a.roles["implementer"].model
         /\ RolesOf(PolicyOf(a))["implementer"].reasoning = a.roles["implementer"].reasoning
         /\ a.roles["implementer"].agent \in Automatic
<1>. DEFINE file == PolicyOf(a)
            entry == a.roles["implementer"]
            read == file.roles["implementer"]
            key == ReasoningKey(entry.agent)
<1>1. "implementer" \in Roles /\ "implementer" # "planner"
  BY DEF Roles
<1>2. /\ read.who = entry.who /\ read.agent = entry.agent /\ read.model = entry.model
      /\ \A k \in KeySet : read.settings[k] = IF k = key THEN entry.reasoning ELSE Missing
  BY <1>1 DEF PolicyOf
<1>3. entry.agent \in Automatic
  BY <1>1 DEF CanApply
<1>4. key \in KeySet
  BY <1>3, ReasoningKeyOf, AllKeys DEF Automatic
<1>5. /\ RolesOf(file)["implementer"].who = read.who
      /\ RolesOf(file)["implementer"].agent = read.agent
      /\ RolesOf(file)["implementer"].model = read.model
      /\ RolesOf(file)["implementer"].reasoning = read.settings[KeyRead(read)]
  BY <1>1 DEF RolesOf
<1>. HIDE DEF file
<1>6. KeyRead(read) = key
  BY <1>2, <1>3 DEF KeyRead
<1>. HIDE DEF read, key
<1>7. read.settings[KeyRead(read)] = entry.reasoning
  BY <1>2, <1>4, <1>6
<1>. QED
  BY <1>2, <1>3, <1>5, <1>7 DEF file

\* A policy file that loads holds the roles of accepted answers.
LEMMA LoadedPolicy ==
  ASSUME ServiceInvariant, NEW p \in Projects, PolicyLoads(policy[p], TRUE)
  PROVE  /\ RolesOf(policy[p]) \in LoadedRoles
         /\ \E a \in applied[p] : a.confirmed /\ RolesOf(policy[p]) = RolesOf(PolicyOf(a))
<1>1. PICK file \in {Template} \cup {PolicyOf(a) : a \in applied[p]} :
        policy[p] = [file EXCEPT !.limits = policy[p].limits]
  BY DEF ServiceInvariant, PolicyIsWritten
<1>. DEFINE read == policy[p]
<1>2. /\ read.mode = "automatic"
      /\ \A r \in Roles :
           /\ read.roles[r].who \in Names /\ read.roles[r].model \in Names
           /\ read.roles[r].settings[KeyRead(read.roles[r])] \in Names
  BY DEF PolicyLoads, Explicit
<1>3. CASE file = Template
  BY <1>1, <1>2, <1>3 DEF Template
<1>4. ASSUME NEW a \in applied[p], file = PolicyOf(a)
      PROVE  /\ read.roles = PolicyOf(a).roles /\ a.confirmed
             /\ RolesOf(read) \in LoadedRoles /\ RolesOf(read) = RolesOf(PolicyOf(a))
  <2>1. read.mode = PolicyOf(a).mode /\ read.roles = PolicyOf(a).roles
    BY <1>1, <1>4 DEF PolicyOf
  <2>2. /\ PolicyOf(a).mode = IF a.confirmed THEN "automatic" ELSE "manual"
        /\ \A r \in Roles : /\ PolicyOf(a).roles[r].agent = a.roles[r].agent
                            /\ PolicyOf(a).roles[r].background = (r # "planner")
    BY DEF PolicyOf
  <2>3. \A r \in Roles : a.roles[r].agent \in Agents
    BY ServiceAssumption DEF ServiceInvariant, TypeOK, Answers
  <2>. HIDE DEF read
  <2>4. \A r \in Roles : [who |-> read.roles[r].who, agent |-> read.roles[r].agent,
          model |-> read.roles[r].model, background |-> read.roles[r].background,
          reasoning |-> read.roles[r].settings[KeyRead(read.roles[r])]]
        \in [who : Names, agent : Agents, model : Names, reasoning : Names,
             background : BOOLEAN]
    BY <1>2, <2>1, <2>2, <2>3
  <2>5. RolesOf(read) \in LoadedRoles
    BY <2>4 DEF RolesOf, LoadedRoles
  <2>6. RolesOf(read) = RolesOf(PolicyOf(a))
    BY <2>1 DEF RolesOf
  <2>7. a.confirmed
    BY <1>2, <2>1, <2>2
  <2>. QED
    BY <2>1, <2>5, <2>6, <2>7
<1>. QED
  BY <1>1, <1>3, <1>4

---------------------------------------------------------------------------
(* The Runner.                                                             *)

\* The reasons a tick may fail for.
LEMMA FailureOf ==
  ASSUME NEW p
  PROVE  /\ Failure(p) \in Failures \cup {None}
         /\ Failure(p) = None =>
              /\ p \notin unreadable
              /\ Built(p) /\ ModulesLoad
              /\ Launches(p) => Resolves(Held(p), "implementer", task[p].who)
<1>. DEFINE A == p \in unreadable
            B == p \notin unreadable /\ ~Built(p)
            V == p \notin unreadable /\ Built(p) /\ ~ModulesLoad
            C == p \notin unreadable /\ Built(p) /\ ModulesLoad /\ Launches(p)
                   /\ ~Resolves(Held(p), "implementer", task[p].who)
<1>1. ~(A /\ B) /\ ~(A /\ V) /\ ~(A /\ C) /\ ~(B /\ V) /\ ~(B /\ C) /\ ~(V /\ C)
  OBVIOUS
<1>2. Failure(p) = CASE A -> "unreadable" [] B -> "policy" [] V -> "version"
                     [] C -> "participant" [] OTHER -> None
  BY DEF Failure
<1>3. ~A /\ ~B /\ ~V /\ ~C =>
        /\ p \notin unreadable /\ Built(p) /\ ModulesLoad
        /\ Launches(p) => Resolves(Held(p), "implementer", task[p].who)
  OBVIOUS
<1>. HIDE DEF A, B, V, C
<1>4. /\ Failure(p) \in Failures \cup {None}
      /\ Failure(p) = None => ~A /\ ~B /\ ~V /\ ~C
  BY <1>1, <1>2, NoneAssumption DEF Failures
<1>. QED
  BY <1>3, <1>4

\* What a supervisor holds it was built from: roles that accepted answers made.
LEMMA HeldIs ==
  ASSUME ServiceInvariant, runner # None, NEW p \in Projects
  PROVE  /\ Held(p) \in LoadedRoles \cup {None}
         /\ Held(p) # None =>
              \E a \in applied[p] : a.confirmed /\ Held(p) = RolesOf(PolicyOf(a))
         /\ Failure(p) = None => Held(p) # None
<1>1. CASE runner.cache[p] # None
  <2>1. Held(p) = runner.cache[p]
    BY <1>1 DEF Held
  <2>2. runner.cache \in [Projects -> LoadedRoles \cup {None}]
    BY DEF ServiceInvariant, TypeOK, Runners, RunnersAt
  <2>3. \E a \in applied[p] : a.confirmed /\ runner.cache[p] = RolesOf(PolicyOf(a))
    BY <1>1 DEF ServiceInvariant, CacheIsApplied
  <2>. QED
    BY <1>1, <2>1, <2>2, <2>3
<1>2. CASE runner.cache[p] = None /\ PolicyLoads(policy[p], TRUE)
  <2>1. Held(p) = RolesOf(policy[p])
    BY <1>2 DEF Held
  <2>. QED
    BY <1>2, <2>1, LoadedPolicy, NoneAssumption
<1>3. CASE runner.cache[p] = None /\ ~PolicyLoads(policy[p], TRUE)
  <2>1. Held(p) = None
    BY <1>3 DEF Held
  <2>. QED
    BY <1>3, <2>1, FailureOf DEF Built
<1>. QED
  BY <1>1, <1>2, <1>3

\* What is left of a list without its first element.
LEMMA TailTyping ==
  ASSUME NEW S, NEW s \in Seq(S), s # <<>>
  PROVE  Tail(s) \in Seq(S) /\ (Len(s) > 1 => Tail(s) # <<>>)
<1>1. Tail(s) \in Seq(S) /\ Len(Tail(s)) = Len(s) - 1 /\ Len(s) \in Nat
  OBVIOUS
<1>2. Len(s) > 1 => Len(Tail(s)) # 0
  BY <1>1
<1>3. Len(<<>>) = 0
  OBVIOUS
<1>4. Len(Tail(s)) # 0 => Tail(s) # <<>>
  BY Zenon, <1>3
<1>. QED
  BY <1>1, <1>2, <1>4

\* The end of a visit.
LEMMA OnwardTyping ==
  ASSUME NEW r \in Runners, r.todo # <<>>
  PROVE  /\ Onward(r) \in Runners /\ Onward(r).cache = r.cache
         /\ Onward(r).at \in {"visit", "sleep"}
         /\ Onward(r).at # "sleep" => Onward(r).todo # <<>>
<1>1. r.todo \in Seq(Projects)
  BY DEF Runners, RunnersAt
<1>2. /\ Tail(r.todo) \in Seq(Projects)
      /\ Len(r.todo) > 1 => Tail(r.todo) # <<>>
  BY <1>1, TailTyping
<1>3. /\ r.version \in Versions /\ r.cache \in [Projects -> LoadedRoles \cup {None}]
      /\ r.told \in [Projects -> Failures \cup {None}]
      /\ r = [at |-> r.at, version |-> r.version, todo |-> r.todo, notice |-> r.notice,
              cache |-> r.cache, told |-> r.told]
  BY DEF Runners, RunnersAt
<1>. DEFINE place == IF Len(r.todo) > 1 THEN "visit" ELSE "sleep"
<1>. HIDE DEF place
<1>4. Onward(r) = [at |-> place, version |-> r.version, todo |-> Tail(r.todo),
                   notice |-> None, cache |-> r.cache, told |-> r.told]
  <2>1. Onward(r) = [r EXCEPT !.todo = Tail(r.todo), !.notice = None, !.at = place]
    BY DEF Onward, place
  <2>. QED
    BY <1>3, <2>1
<1>5. place \in {"sleep", "visit"} /\ (place = "visit" => Len(r.todo) > 1)
  BY DEF place
<1>6. Onward(r) \in RunnersAt({"sleep", "visit", "hung"}, {None})
  BY <1>2, <1>3, <1>4, <1>5 DEF RunnersAt
<1>. QED
  BY <1>2, <1>4, <1>5, <1>6 DEF Runners

\* The project a Runner visits.
LEMMA HereIs ==
  ASSUME TypeOK, RunnerIsSomewhere, runner # None, runner.at # "sleep"
  PROVE  /\ runner \in Runners /\ runner.todo # <<>> /\ Here \in Projects
<1>1. runner \in Runners /\ runner.todo # <<>>
  BY DEF TypeOK, RunnerIsSomewhere
<1>2. runner.todo \in Seq(Projects)
  BY <1>1 DEF Runners, RunnersAt
<1>. QED
  BY <1>1, <1>2 DEF Here

\* A Runner as launchd starts it.
LEMMA FreshTyping ==
  ASSUME NEW v \in Versions
  PROVE  Fresh(v) \in Runners /\ Fresh(v).at = "sleep"
         /\ \A p \in Projects : Fresh(v).cache[p] = None
<1>1. <<>> \in Seq(Projects)
  OBVIOUS
<1>. QED
  BY <1>1 DEF Fresh, Runners, RunnersAt

\* Where a runner may come from.
LEMMA RunnerSteps ==
  ASSUME TypeOK, [Next]_vars
  PROVE  \/ RunnerStep
         \/ Hang
         \/ runner' \in {runner, None}
         \/ \E v \in Versions : runner' = Fresh(v)
<1>1. CASE RunnerStep \/ Hang
  BY <1>1
<1>2. CASE Launchd \/ Kickstart
  BY <1>2 DEF TypeOK, Launchd, Kickstart
<1>3. CASE RunnerCrash \/ Stop
  BY <1>3 DEF RunnerCrash, Stop
<1>4. ASSUME NEW p \in Projects, ProjectStep(p) \/ Start(p) \/ Restart(p)
      PROVE  runner' = runner
  BY <1>4 DEF ProjectStep, MoveTask, ReplaceImplementer, Apply, EditLimits, LoseAccess,
              Start, Restart
<1>5. CASE Register \/ KickstartRefused \/ Wait \/ RemoveOldCopy \/ CopySkill \/ Unlink
           \/ Switch \/ WritePlist \/ Uninstall \/ CutShort
  BY <1>5 DEF Register, KickstartRefused, Wait, RemoveOldCopy, CopySkill, Unlink, Switch,
              WritePlist, InstallStep, Uninstall, CutShort
<1>6. CASE \E v \in Versions : Install(v)
  BY <1>6 DEF Install
<1>7. CASE UNCHANGED vars
  BY <1>7 DEF vars
<1>. QED
  BY <1>1, <1>2, <1>3, <1>4, <1>5, <1>6, <1>7 DEF Next, CommandStep

\* What a step may touch.
LEMMA QuietSteps ==
  ASSUME [Next]_vars
  PROVE  /\ EmitOnce \/ journal' = journal
         /\ Show \/ shown' = shown
         /\ (\E p \in Projects, a \in ApplyAnswers : Apply(p, a)) \/ applied' = applied
         /\ \/ \E p \in Projects, a \in ApplyAnswers : Apply(p, a)
            \/ \E p \in Projects, limits \in LimitEdits : EditLimits(p, limits)
            \/ policy' = policy
         /\ \/ Tick
            \/ \E p \in Projects, status \in Statuses : MoveTask(p, status)
            \/ \E p \in Projects, who \in Substitutes : ReplaceImplementer(p, who)
            \/ task' = task
         /\ Tick \/ launched' = launched
         /\ Register \/ registry' = registry
         /\ spent' = spent \/ Change
<1>1. CASE RunnerStep
  BY <1>1 DEF RunnerStep, BeginPass, Tick, ProjectFails, EmitOnce, NoticeFails, Show,
              project, machine, history
<1>2. CASE Hang \/ Launchd \/ Kickstart \/ RunnerCrash \/ Stop
  BY <1>2 DEF Hang, Launchd, Kickstart, RunnerCrash, Stop, Fault, Issue, project, machine,
              history
<1>3. ASSUME NEW p \in Projects, Start(p) \/ Restart(p)
      PROVE  UNCHANGED <<project, machine, runner, history>> /\ Change
  BY <1>3 DEF Start, Restart, Issue
<1>4. ASSUME NEW p \in Projects, ProjectStep(p)
      PROVE  /\ UNCHANGED <<journal, shown, launched, registry>> /\ Change
             /\ \/ \E a \in ApplyAnswers : Apply(p, a)
                \/ applied' = applied
             /\ \/ \E a \in ApplyAnswers : Apply(p, a)
                \/ \E limits \in LimitEdits : EditLimits(p, limits)
                \/ policy' = policy
             /\ \/ \E status \in Statuses : MoveTask(p, status)
                \/ \E who \in Substitutes : ReplaceImplementer(p, who)
                \/ task' = task
  <2>1. CASE \E status \in Statuses : MoveTask(p, status)
    BY <2>1 DEF MoveTask, machine, history
  <2>2. CASE \E who \in Substitutes : ReplaceImplementer(p, who)
    BY <2>2 DEF ReplaceImplementer, machine, history
  <2>3. CASE \E a \in ApplyAnswers : Apply(p, a)
    BY <2>3 DEF Apply, machine
  <2>4. CASE \E limits \in LimitEdits : EditLimits(p, limits)
    BY <2>4 DEF EditLimits, machine, history
  <2>5. CASE LoseAccess(p)
    BY <2>5 DEF LoseAccess, Fault, machine, history
  <2>. QED
    BY <1>4, <2>1, <2>2, <2>3, <2>4, <2>5 DEF ProjectStep
<1>5. CASE Register \/ KickstartRefused \/ Wait \/ RemoveOldCopy \/ CopySkill \/ Unlink
           \/ Switch \/ WritePlist \/ Uninstall \/ CutShort
  BY <1>5 DEF Register, KickstartRefused, Wait, RemoveOldCopy, CopySkill, Unlink, Switch,
              WritePlist, InstallStep, Uninstall, CutShort, Issue, Fault, project, machine,
              history
<1>6. ASSUME NEW v \in Versions, Install(v)
      PROVE  UNCHANGED <<project, machine, runner, history>> /\ Change
  BY <1>6 DEF Install, Issue
<1>7. CASE UNCHANGED vars
  BY <1>7 DEF vars, project, machine, history
<1>8. CASE UNCHANGED <<project, machine, runner, history>> /\ Change
  BY <1>8 DEF project, machine, history
<1>. QED
  BY <1>1, <1>2, <1>3, <1>4, <1>5, <1>6, <1>7, <1>8 DEF Next, CommandStep

---------------------------------------------------------------------------
(* The inductive invariant, part by part.                                  *)

LEMMA RangeGrows ==
  ASSUME NEW a \in Nat, NEW b \in Nat, a <= b
  PROVE  1..(a + 1) \subseteq 1..(b + 1)
OBVIOUS

\* The revisions go up with the changes, which are bounded.
LEMMA StepTask ==
  ASSUME TypeOK, RunnerIsSomewhere, [Next]_vars
  PROVE  /\ spent' \in 0..MaxChanges /\ spent' \in {spent, spent + 1}
         /\ task' \in [Projects -> [status : Statuses, revision : 1..(spent' + 1),
                                    who : Values, running : BOOLEAN]]
<1>. DEFINE Records(n) == [status : Statuses, revision : 1..(n + 1), who : Values,
                           running : BOOLEAN]
<1>1. /\ spent \in 0..MaxChanges /\ MaxChanges \in Nat
      /\ task \in [Projects -> Records(spent)]
  BY ServiceAssumption DEF TypeOK
<1>2. spent' \in 0..MaxChanges /\ spent' \in {spent, spent + 1}
  BY <1>1, QuietSteps DEF Change
<1>3. Records(spent) \subseteq Records(spent')
  <2>1. spent \in Nat /\ spent' \in Nat /\ spent <= spent'
    <3>1. spent \in 0..MaxChanges /\ MaxChanges \in Nat
      BY <1>1
    <3>. QED
      BY <1>2, <3>1
  <2>2. 1..(spent + 1) \subseteq 1..(spent' + 1)
    BY <2>1, RangeGrows
  <2>. QED
    BY <2>2
<1>4. ASSUME task' = task PROVE task' \in [Projects -> Records(spent')]
  <2>1. task \in [Projects -> Records(spent')]
    <3>. HIDE DEF Records
    <3>. QED
      BY <1>1, <1>3
  <2>. QED
    BY <1>4, <2>1
<1>5. ASSUME NEW p \in Projects, NEW r \in Records(spent'), task' = [task EXCEPT ![p] = r]
      PROVE  task' \in [Projects -> Records(spent')]
  <2>. HIDE DEF Records
  <2>1. task \in [Projects -> Records(spent')]
    BY <1>1, <1>3
  <2>. QED
    BY <1>5, <2>1
<1>6. ASSUME Tick PROVE task' \in [Projects -> Records(spent')]
  <2>1. Here \in Projects
    BY <1>6, HereIs DEF Tick
  <2>2. ASSUME task' = [task EXCEPT ![Here].running = TRUE]
        PROVE  task' \in [Projects -> Records(spent')]
    <3>1. [task[Here] EXCEPT !.running = TRUE] \in Records(spent)
      BY <1>1, <2>1
    <3>2. task' = [task EXCEPT ![Here] = [task[Here] EXCEPT !.running = TRUE]]
      BY <2>2
    <3>3. [task[Here] EXCEPT !.running = TRUE] \in Records(spent')
      BY <1>3, <3>1
    <3>. HIDE DEF Records
    <3>. QED
      BY <1>5, <2>1, <3>2, <3>3
  <2>3. task' = task \/ task' = [task EXCEPT ![Here].running = TRUE]
    BY <1>6 DEF Tick
  <2>. QED
    BY <1>4, <2>2, <2>3
<1>7. ASSUME NEW p \in Projects, NEW status \in Statuses, MoveTask(p, status)
      PROVE  task' \in [Projects -> Records(spent')]
  <2>. DEFINE r == [task[p] EXCEPT !.status = status, !.revision = task[p].revision + 1,
                                   !.running = FALSE]
  <2>1. task' = [task EXCEPT ![p] = r] /\ spent' = spent + 1
    <3>1. spent' = spent + 1
      BY <1>7 DEF MoveTask, Change
    <3>2. task[p] = [status |-> task[p].status, revision |-> task[p].revision,
                     who |-> task[p].who, running |-> task[p].running]
      BY <1>1
    <3>3. task' = [task EXCEPT ![p] = r]
      BY <1>1, <1>7, <3>2 DEF MoveTask
    <3>. QED
      BY <3>1, <3>3
  <2>2. task[p] \in Records(spent)
    BY <1>1
  <2>3. task[p].revision + 1 \in 1..(spent' + 1)
    BY <1>1, <2>1, <2>2
  <2>4. r \in Records(spent')
    BY <2>2, <2>3
  <2>. HIDE DEF r
  <2>. QED
    BY <1>5, <2>1, <2>4
<1>8. ASSUME NEW p \in Projects, NEW who \in Substitutes, ReplaceImplementer(p, who)
      PROVE  task' \in [Projects -> Records(spent')]
  <2>. DEFINE r == [task[p] EXCEPT !.who = who, !.revision = task[p].revision + 1]
  <2>1. task' = [task EXCEPT ![p] = r] /\ spent' = spent + 1
    <3>1. spent' = spent + 1
      BY <1>8 DEF ReplaceImplementer, Change
    <3>2. task[p] = [status |-> task[p].status, revision |-> task[p].revision,
                     who |-> task[p].who, running |-> task[p].running]
      BY <1>1
    <3>3. task' = [task EXCEPT ![p] = r]
      BY <1>1, <1>8, <3>2 DEF ReplaceImplementer
    <3>. QED
      BY <3>1, <3>3
  <2>2. task[p] \in Records(spent)
    BY <1>1
  <2>3. task[p].revision + 1 \in 1..(spent' + 1) /\ who \in Values
    BY <1>1, <2>1, <2>2, ServiceAssumption DEF Values
  <2>4. r \in Records(spent')
    BY <2>2, <2>3
  <2>. HIDE DEF r
  <2>. QED
    BY <1>5, <2>1, <2>4
<1>9. task' \in [Projects -> Records(spent')]
  BY <1>4, <1>6, <1>7, <1>8, QuietSteps
<1>. QED
  BY <1>2, <1>9

\* The answers a project was configured with are not forgotten, and its file is made
\* of one of them.
LEMMA StepPolicy ==
  ASSUME ServiceInvariant, [Next]_vars
  PROVE  /\ applied' \in [Projects -> SUBSET ApplyAnswers] /\ DOMAIN policy' = Projects
         /\ \A p \in Projects : applied[p] \subseteq applied'[p]
         /\ AnswersWereAccepted' /\ PolicyIsWritten'
<1>. DEFINE Goal == /\ applied' \in [Projects -> SUBSET ApplyAnswers]
                    /\ DOMAIN policy' = Projects
                    /\ \A p \in Projects : applied[p] \subseteq applied'[p]
                    /\ AnswersWereAccepted' /\ PolicyIsWritten'
<1>0. /\ applied \in [Projects -> SUBSET ApplyAnswers] /\ DOMAIN policy = Projects
      /\ AnswersWereAccepted /\ PolicyIsWritten
  BY DEF ServiceInvariant, TypeOK
<1>1. ASSUME NEW p \in Projects, NEW a \in ApplyAnswers, Apply(p, a) PROVE Goal
  <2>1. /\ CanApply(a) /\ policy' = [policy EXCEPT ![p] = PolicyOf(a)]
        /\ applied' = [applied EXCEPT ![p] = applied[p] \cup {a}]
    BY <1>1 DEF Apply
  <2>2. /\ applied' \in [Projects -> SUBSET ApplyAnswers] /\ DOMAIN policy' = Projects
        /\ \A q \in Projects : applied[q] \subseteq applied'[q]
        /\ \A q \in Projects : q # p => policy'[q] = policy[q] /\ applied'[q] = applied[q]
        /\ policy'[p] = PolicyOf(a) /\ applied'[p] = applied[p] \cup {a}
    BY <1>0, <2>1
  <2>3. AnswersWereAccepted'
    BY <1>0, <2>1, <2>2 DEF AnswersWereAccepted
  <2>4. policy'[p] = [PolicyOf(a) EXCEPT !.limits = policy'[p].limits]
    BY <2>2 DEF PolicyOf
  <2>5. ASSUME NEW q \in Projects
        PROVE  \E file \in {Template} \cup {PolicyOf(b) : b \in applied'[q]} :
                 policy'[q] = [file EXCEPT !.limits = policy'[q].limits]
    <3>1. CASE q = p
      <4>1. PolicyOf(a) \in {Template} \cup {PolicyOf(b) : b \in applied'[q]}
        BY <2>2, <3>1
      <4>. QED
        BY <2>4, <3>1, <4>1
    <3>2. CASE q # p
      <4>1. policy'[q] = policy[q] /\ applied'[q] = applied[q]
        BY <2>2, <3>2
      <4>. QED
        BY <1>0, <4>1 DEF PolicyIsWritten
    <3>. QED
      BY <3>1, <3>2
  <2>6. PolicyIsWritten'
    BY <2>5 DEF PolicyIsWritten
  <2>. QED
    BY <2>2, <2>3, <2>6
<1>2. ASSUME NEW p \in Projects, NEW limits \in LimitEdits, EditLimits(p, limits),
             applied' = applied
      PROVE  Goal
  <2>1. policy' = [policy EXCEPT ![p].limits = limits]
    BY <1>2 DEF EditLimits
  <2>2. PICK file \in {Template} \cup {PolicyOf(a) : a \in applied[p]} :
          policy[p] = [file EXCEPT !.limits = policy[p].limits]
    BY <1>0 DEF PolicyIsWritten
  <2>3. file = [mode |-> file.mode, cost |-> file.cost, limits |-> file.limits,
                roles |-> file.roles]
    BY <2>2 DEF Template, PolicyOf
  <2>4. /\ DOMAIN policy' = Projects
        /\ policy'[p] = [policy[p] EXCEPT !.limits = limits]
        /\ \A q \in Projects : q # p => policy'[q] = policy[q]
    BY <1>0, <2>1
  <2>5. policy'[p] = [file EXCEPT !.limits = policy'[p].limits]
    <3>. DEFINE old == policy[p].limits
    <3>1. policy[p] = [mode |-> file.mode, cost |-> file.cost, limits |-> old,
                       roles |-> file.roles]
      <4>. HIDE DEF old
      <4>1. [file EXCEPT !.limits = old] =
              [mode |-> file.mode, cost |-> file.cost, limits |-> old, roles |-> file.roles]
        BY <2>3
      <4>. QED
        BY <2>2, <4>1 DEF old
    <3>. HIDE DEF old
    <3>2. policy'[p] = [mode |-> file.mode, cost |-> file.cost, limits |-> limits,
                        roles |-> file.roles]
      BY <2>4, <3>1
    <3>3. [file EXCEPT !.limits = limits] =
            [mode |-> file.mode, cost |-> file.cost, limits |-> limits, roles |-> file.roles]
      BY <2>3
    <3>4. policy'[p].limits = limits
      BY <3>2
    <3>. QED
      BY <3>2, <3>3, <3>4
  <2>6. ASSUME NEW q \in Projects
        PROVE  \E f \in {Template} \cup {PolicyOf(b) : b \in applied'[q]} :
                 policy'[q] = [f EXCEPT !.limits = policy'[q].limits]
    <3>1. CASE q = p
      BY <1>2, <2>2, <2>5, <3>1
    <3>2. CASE q # p
      <4>1. policy'[q] = policy[q]
        BY <2>4, <3>2
      <4>. QED
        BY <1>0, <1>2, <4>1 DEF PolicyIsWritten
    <3>. QED
      BY <3>1, <3>2
  <2>. QED
    BY <1>0, <1>2, <2>4, <2>6 DEF PolicyIsWritten, AnswersWereAccepted
<1>3. CASE policy' = policy /\ applied' = applied
  BY <1>0, <1>3 DEF PolicyIsWritten, AnswersWereAccepted
<1>4. ASSUME NEW p \in Projects, NEW limits \in LimitEdits, EditLimits(p, limits)
      PROVE  applied' = applied
  BY <1>4 DEF EditLimits, history
<1>. QED
  BY <1>1, <1>2, <1>3, <1>4, QuietSteps

\* The notice of a Runner about to tell.
LEMMA NoticeNowIs ==
  ASSUME TypeOK, RunnerIsSomewhere, runner # None, runner.at = "notify"
  PROVE  NoticeNow \in Notices
<1>1. runner \in Runners /\ Here \in Projects
  BY HereIs
<1>2. runner.notice \in Attention \cup {"project_error"}
  BY <1>1 DEF Runners, RunnersAt
<1>3. task[Here].revision \in 1..(spent + 1) /\ spent \in 0..MaxChanges
  BY <1>1 DEF TypeOK
<1>4. task[Here].revision \in 1..(MaxChanges + 1)
  BY <1>3, ServiceAssumption
<1>. QED
  BY <1>2, <1>4 DEF NoticeNow, Notices, ProjectError

\* The Runner keeps its shape, has a project to visit, and holds what accepted
\* answers made.
LEMMA StepRunner ==
  ASSUME ServiceInvariant, [Next]_vars
  PROVE  runner' \in Runners \cup {None} /\ RunnerIsSomewhere' /\ CacheIsApplied'
<1>. DEFINE Kept(r) == \A p \in Projects : r.cache[p] # None =>
                         \E a \in applied[p] : a.confirmed /\ r.cache[p] = RolesOf(PolicyOf(a))
            Goal == runner' \in Runners \cup {None} /\ RunnerIsSomewhere' /\ CacheIsApplied'
<1>0. TypeOK /\ RunnerIsSomewhere /\ (runner # None => Kept(runner))
  BY DEF ServiceInvariant, CacheIsApplied
<1>1. \A p \in Projects : applied[p] \subseteq applied'[p]
  BY StepPolicy
<1>2. ASSUME NEW r, r \in Runners, Kept(r), r.at # "sleep" => r.todo # <<>>, runner' = r
      PROVE  Goal
  BY <1>1, <1>2 DEF RunnerIsSomewhere, CacheIsApplied
<1>3. CASE BeginPass
  <2>. DEFINE r == [runner EXCEPT !.at = "visit", !.todo = registry]
  <2>1. /\ runner \in Runners /\ runner # None /\ runner.at = "sleep" /\ registry # <<>>
        /\ registry \in Seq(Projects) /\ runner' = r
    BY <1>0, <1>3 DEF BeginPass, TypeOK
  <2>2. runner \in RunnersAt({"sleep", "visit", "hung"}, {None})
    BY <2>1 DEF Runners, RunnersAt
  <2>3. r \in RunnersAt({"sleep", "visit", "hung"}, {None})
    BY <2>1, <2>2 DEF RunnersAt
  <2>4. r.cache = runner.cache /\ r.todo = registry
    BY <2>2 DEF RunnersAt
  <2>. HIDE DEF r
  <2>. QED
    BY <1>0, <1>2, <2>1, <2>3, <2>4 DEF Runners
<1>4. CASE Tick
  <2>1. runner # None /\ runner.at = "visit" /\ Failure(Here) = None
    BY <1>4 DEF Tick
  <2>2. runner \in Runners /\ runner.todo # <<>> /\ Here \in Projects
    BY <1>0, <2>1, HereIs
  <2>. DEFINE p == Here
              kept == [runner EXCEPT !.cache[p] = Held(p), !.told[p] = None]
  <2>3. /\ Held(p) \in LoadedRoles \cup {None}
        /\ Held(p) # None => \E a \in applied[p] : a.confirmed /\ Held(p) = RolesOf(PolicyOf(a))
    BY <2>1, <2>2, HeldIs
  <2>4. /\ runner \in RunnersAt({"sleep", "visit", "hung"}, {None})
        /\ runner.cache \in [Projects -> LoadedRoles \cup {None}]
        /\ runner.told \in [Projects -> Failures \cup {None}]
    BY <2>1, <2>2 DEF Runners, RunnersAt
  <2>. DEFINE cache == [runner.cache EXCEPT ![p] = Held(p)]
              told == [runner.told EXCEPT ![p] = None]
  <2>5. cache \in [Projects -> LoadedRoles \cup {None}] /\ told \in [Projects -> Failures \cup {None}]
    BY <2>2, <2>3, <2>4
  <2>6. \A q \in Projects : cache[q] = IF q = p THEN Held(p) ELSE runner.cache[q]
    BY <2>2, <2>4
  <2>7. kept = [runner EXCEPT !.cache = cache, !.told = told]
    BY <2>2, <2>4 DEF RunnersAt
  <2>8. \/ task[p].status \in Attention
           /\ runner' = [kept EXCEPT !.at = "notify", !.notice = task[p].status]
        \/ runner' = Onward(kept)
    BY <1>4 DEF Tick
  <2>. HIDE DEF cache, told, kept, p
  <2>9. /\ kept \in RunnersAt({"visit"}, {None})
        /\ kept.cache = cache /\ kept.todo = runner.todo
    BY <2>1, <2>4, <2>5, <2>7 DEF RunnersAt
  <2>10. Kept(kept)
    <3>1. Kept(runner)
      BY <1>0, <2>1
    <3>. QED
      BY <2>3, <2>6, <2>9, <3>1
  <2>11. CASE runner' = Onward(kept)
    <3>1. kept \in Runners
      BY <2>9 DEF Runners, RunnersAt
    <3>2. /\ Onward(kept) \in Runners /\ Onward(kept).cache = kept.cache
          /\ Onward(kept).at # "sleep" => Onward(kept).todo # <<>>
      BY <2>2, <2>9, <3>1, OnwardTyping
    <3>3. Kept(Onward(kept))
      BY <2>10, <3>2
    <3>. QED
      BY <1>2, <2>11, <3>2, <3>3
  <2>12. CASE task[p].status \in Attention
              /\ runner' = [kept EXCEPT !.at = "notify", !.notice = task[p].status]
    <3>. DEFINE r == [kept EXCEPT !.at = "notify", !.notice = task[p].status]
    <3>1. r \in RunnersAt({"notify"}, Attention \cup {"project_error"})
      BY <2>9, <2>12 DEF RunnersAt
    <3>2. r.cache = kept.cache /\ r.todo = kept.todo
      BY <2>9 DEF RunnersAt
    <3>3. runner' = r
      BY <2>12
    <3>. HIDE DEF r
    <3>4. Kept(r)
      BY <2>10, <3>2
    <3>. QED
      BY <1>2, <2>2, <2>9, <3>1, <3>2, <3>3, <3>4 DEF Runners
  <2>. QED
    BY <2>8, <2>11, <2>12
<1>5. CASE ProjectFails
  <2>1. runner # None /\ runner.at = "visit"
    BY <1>5 DEF ProjectFails
  <2>2. runner \in Runners /\ runner.todo # <<>> /\ Here \in Projects
    BY <1>0, <2>1, HereIs
  <2>. DEFINE p == Here
              dropped == [runner EXCEPT !.cache[p] = None, !.told[p] = Failure(p)]
  <2>3. Failure(p) \in Failures \cup {None}
    BY FailureOf
  <2>4. /\ runner \in RunnersAt({"sleep", "visit", "hung"}, {None})
        /\ runner.cache \in [Projects -> LoadedRoles \cup {None}]
        /\ runner.told \in [Projects -> Failures \cup {None}]
    BY <2>1, <2>2 DEF Runners, RunnersAt
  <2>. DEFINE cache == [runner.cache EXCEPT ![p] = None]
              told == [runner.told EXCEPT ![p] = Failure(p)]
  <2>5. cache \in [Projects -> LoadedRoles \cup {None}] /\ told \in [Projects -> Failures \cup {None}]
    BY <2>2, <2>3, <2>4
  <2>6. \A q \in Projects : cache[q] \in {None, runner.cache[q]}
    BY <2>2, <2>4
  <2>7. dropped = [runner EXCEPT !.cache = cache, !.told = told]
    BY <2>2, <2>4 DEF RunnersAt
  <2>8. \/ runner' = [dropped EXCEPT !.at = "notify", !.notice = "project_error"]
        \/ runner' = Onward(dropped)
    BY <1>5 DEF ProjectFails
  <2>. HIDE DEF cache, told, dropped, p
  <2>9. /\ dropped \in RunnersAt({"visit"}, {None})
        /\ dropped.cache = cache /\ dropped.todo = runner.todo
    BY <2>1, <2>4, <2>5, <2>7 DEF RunnersAt
  <2>10. Kept(dropped)
    <3>1. Kept(runner)
      BY <1>0, <2>1
    <3>. QED
      BY <2>6, <2>9, <3>1
  <2>11. CASE runner' = Onward(dropped)
    <3>1. dropped \in Runners
      BY <2>9 DEF Runners, RunnersAt
    <3>2. /\ Onward(dropped) \in Runners /\ Onward(dropped).cache = dropped.cache
          /\ Onward(dropped).at # "sleep" => Onward(dropped).todo # <<>>
      BY <2>2, <2>9, <3>1, OnwardTyping
    <3>3. Kept(Onward(dropped))
      BY <2>10, <3>2
    <3>. QED
      BY <1>2, <2>11, <3>2, <3>3
  <2>12. CASE runner' = [dropped EXCEPT !.at = "notify", !.notice = "project_error"]
    <3>. DEFINE r == [dropped EXCEPT !.at = "notify", !.notice = "project_error"]
    <3>1. r \in RunnersAt({"notify"}, Attention \cup {"project_error"})
      BY <2>9 DEF RunnersAt
    <3>2. r.cache = dropped.cache /\ r.todo = dropped.todo
      BY <2>9 DEF RunnersAt
    <3>3. runner' = r
      BY <2>12
    <3>. HIDE DEF r
    <3>4. Kept(r)
      BY <2>10, <3>2
    <3>. QED
      BY <1>2, <2>2, <2>9, <3>1, <3>2, <3>3, <3>4 DEF Runners
  <2>. QED
    BY <2>8, <2>11, <2>12
<1>6. CASE runner # None /\ runner.at # "sleep" /\ runner' = Onward(runner)
  <2>1. runner \in Runners /\ runner.todo # <<>>
    BY <1>0, <1>6, HereIs
  <2>2. /\ Onward(runner) \in Runners /\ Onward(runner).cache = runner.cache
        /\ Onward(runner).at # "sleep" => Onward(runner).todo # <<>>
    BY <2>1, OnwardTyping
  <2>3. Kept(Onward(runner))
    BY <1>0, <1>6, <2>2
  <2>. QED
    BY <1>2, <1>6, <2>2, <2>3
<1>7. CASE /\ runner # None /\ runner.at = "notify"
           /\ runner' = [runner EXCEPT !.at = "show", !.notice = NoticeNow]
  <2>. DEFINE r == [runner EXCEPT !.at = "show", !.notice = NoticeNow]
  <2>1. runner \in Runners /\ runner.todo # <<>> /\ NoticeNow \in Notices
    BY <1>0, <1>7, HereIs, NoticeNowIs
  <2>2. runner \in RunnersAt({"notify"}, Attention \cup {"project_error"})
    BY <1>7, <2>1 DEF Runners, RunnersAt
  <2>3. r \in RunnersAt({"show"}, Notices)
    BY <2>1, <2>2 DEF RunnersAt
  <2>4. r.cache = runner.cache /\ r.todo = runner.todo
    BY <2>2 DEF RunnersAt
  <2>5. runner' = r
    BY <1>7
  <2>. HIDE DEF r
  <2>6. Kept(r)
    BY <1>0, <1>7, <2>4
  <2>. QED
    BY <1>2, <2>1, <2>3, <2>4, <2>5, <2>6 DEF Runners
<1>8. CASE EmitOnce
  BY <1>6, <1>7, <1>8 DEF EmitOnce
<1>9. CASE Show
  BY <1>6, <1>9 DEF Show
<1>10. CASE NoticeFails
  BY <1>10 DEF NoticeFails, RunnerIsSomewhere, CacheIsApplied
<1>11. CASE RunnerStep
  BY <1>3, <1>4, <1>5, <1>8, <1>9, <1>10, <1>11 DEF RunnerStep
<1>12. CASE Hang
  <2>1. runner # None /\ runner.at = "visit" /\ runner' = [runner EXCEPT !.at = "hung"]
    BY <1>12 DEF Hang
  <2>2. runner \in Runners /\ runner.todo # <<>>
    BY <1>0, <2>1, HereIs
  <2>. DEFINE r == [runner EXCEPT !.at = "hung"]
  <2>3. runner \in RunnersAt({"sleep", "visit", "hung"}, {None})
    BY <2>1, <2>2 DEF Runners, RunnersAt
  <2>4. r \in RunnersAt({"sleep", "visit", "hung"}, {None})
    BY <2>3 DEF RunnersAt
  <2>5. r.cache = runner.cache /\ r.todo = runner.todo
    BY <2>3 DEF RunnersAt
  <2>6. runner' = r
    BY <2>1
  <2>. HIDE DEF r
  <2>7. Kept(r)
    BY <1>0, <2>1, <2>5
  <2>8. r \in Runners
    BY <2>4 DEF Runners
  <2>. QED
    BY <1>2, <2>2, <2>5, <2>6, <2>7, <2>8
<1>13. CASE runner' \in {runner, None}
  <2>1. CASE runner' = None
    BY <2>1 DEF RunnerIsSomewhere, CacheIsApplied
  <2>2. CASE runner' = runner /\ runner # None
    BY <1>0, <1>2, <2>2 DEF TypeOK, RunnerIsSomewhere
  <2>. QED
    BY <1>13, <2>1, <2>2
<1>14. CASE \E v \in Versions : runner' = Fresh(v)
  <2>1. PICK v \in Versions : runner' = Fresh(v)
    BY <1>14
  <2>2. /\ Fresh(v) \in Runners /\ Fresh(v).at = "sleep"
        /\ \A p \in Projects : Fresh(v).cache[p] = None
    BY FreshTyping
  <2>3. Kept(Fresh(v))
    BY <2>2
  <2>. QED
    BY <1>2, <2>1, <2>2, <2>3
<1>. QED
  BY <1>0, <1>11, <1>12, <1>13, <1>14, RunnerSteps

\* A notice goes into the journal before it is shown, and only if it is not there.
LEMMA StepJournal ==
  ASSUME TypeOK, RunnerIsSomewhere, JournalKnows, [Next]_vars
  PROVE  /\ JournalKnows' /\ journal' \in [Projects -> SUBSET Notices]
         /\ shown' \in [Projects -> [Notices -> Nat]]
<1>. DEFINE Goal == /\ JournalKnows' /\ journal' \in [Projects -> SUBSET Notices]
                    /\ shown' \in [Projects -> [Notices -> Nat]]
<1>0. /\ journal \in [Projects -> SUBSET Notices]
      /\ shown \in [Projects -> [Notices -> Nat]]
  BY DEF TypeOK
<1>1. \A p \in Projects, n \in Notices :
        shown[p][n] <= 1 /\ (shown[p][n] # 0 => n \in journal[p])
  BY DEF JournalKnows
<1>2. ASSUME EmitOnce PROVE Goal
  <2>1. runner # None /\ runner.at = "notify"
    BY <1>2 DEF EmitOnce
  <2>2. runner \in Runners /\ runner.todo # <<>> /\ Here \in Projects /\ NoticeNow \in Notices
    BY <2>1, HereIs, NoticeNowIs
  <2>3. /\ journal' = [journal EXCEPT ![Here] = journal[Here] \cup {NoticeNow}]
        /\ shown' = shown
        /\ runner' = IF NoticeNow \in journal[Here] THEN Onward(runner)
                     ELSE [runner EXCEPT !.at = "show", !.notice = NoticeNow]
    BY <1>2 DEF EmitOnce, history
  <2>4. /\ journal' \in [Projects -> SUBSET Notices]
        /\ \A p \in Projects : journal[p] \subseteq journal'[p]
        /\ NoticeNow \in journal'[Here]
    BY <1>0, <2>2, <2>3
  <2>5. CASE NoticeNow \in journal[Here]
    <3>1. runner' = Onward(runner) /\ Onward(runner).at \in {"visit", "sleep"}
      BY <2>2, <2>3, <2>5, OnwardTyping
    <3>. QED
      BY <1>0, <1>1, <2>3, <2>4, <3>1 DEF JournalKnows
  <2>6. CASE NoticeNow \notin journal[Here]
    <3>. DEFINE r == [runner EXCEPT !.at = "show", !.notice = NoticeNow]
    <3>1. shown[Here][NoticeNow] = 0
      BY <1>1, <2>2, <2>6
    <3>2. r.notice = NoticeNow /\ r.todo = runner.todo
      BY <2>2 DEF Runners, RunnersAt
    <3>3. runner' = r
      BY <2>3, <2>6
    <3>. HIDE DEF r
    <3>4. Here' = Here
      BY <3>2, <3>3 DEF Here
    <3>5. \A p \in Projects, n \in Notices :
            shown'[p][n] <= 1 /\ (shown'[p][n] # 0 => n \in journal'[p])
      BY <1>1, <2>3, <2>4
    <3>6. runner'.notice \in journal'[Here'] /\ shown'[Here'][runner'.notice] = 0
      BY <2>3, <2>4, <3>1, <3>2, <3>3, <3>4
    <3>. QED
      BY <1>0, <2>3, <2>4, <3>5, <3>6 DEF JournalKnows
  <2>. QED
    BY <2>5, <2>6
<1>3. ASSUME Show PROVE Goal
  <2>1. runner # None /\ runner.at = "show"
    BY <1>3 DEF Show
  <2>2. runner \in Runners /\ runner.todo # <<>> /\ Here \in Projects
    BY <2>1, HereIs
  <2>3. runner.notice \in Notices
    BY <2>1, <2>2 DEF Runners, RunnersAt
  <2>4. runner.notice \in journal[Here] /\ shown[Here][runner.notice] = 0
    BY <2>1 DEF JournalKnows
  <2>5. /\ shown' = [shown EXCEPT ![Here][runner.notice] = @ + 1]
        /\ journal' = journal /\ runner' = Onward(runner)
    BY <1>3 DEF Show, project
  <2>6. Onward(runner).at \in {"visit", "sleep"}
    BY <2>2, OnwardTyping
  <2>. DEFINE of == shown[Here]
              counts == [of EXCEPT ![runner.notice] = 1]
  <2>7. of \in [Notices -> Nat]
    BY <1>0, <2>2
  <2>8. counts \in [Notices -> Nat]
    BY <2>3, <2>7
  <2>9. \A n \in Notices : counts[n] = IF n = runner.notice THEN 1 ELSE of[n]
    BY <2>3, <2>7
  <2>10. shown' = [shown EXCEPT ![Here] = counts]
    BY <1>0, <2>2, <2>4, <2>5
  <2>. HIDE DEF counts
  <2>11. /\ shown' \in [Projects -> [Notices -> Nat]]
         /\ shown'[Here] = counts
         /\ \A p \in Projects : p # Here => shown'[p] = shown[p]
    BY <1>0, <2>2, <2>8, <2>10
  <2>12. ASSUME NEW p \in Projects, NEW n \in Notices
         PROVE  shown'[p][n] <= 1 /\ (shown'[p][n] # 0 => n \in journal[p])
    BY <1>1, <2>3, <2>4, <2>9, <2>11
  <2>. QED
    BY <1>0, <2>5, <2>6, <2>11, <2>12 DEF JournalKnows
<1>4. ASSUME journal' = journal, shown' = shown,
             runner' = runner \/ runner' = None \/ runner'.at # "show"
      PROVE  Goal
  BY <1>0, <1>1, <1>4 DEF JournalKnows, Here
<1>5. CASE RunnerStep
  <2>1. ASSUME BeginPass PROVE runner'.at # "show" /\ journal' = journal /\ shown' = shown
    <3>1. runner \in Runners /\ runner' = [runner EXCEPT !.at = "visit", !.todo = registry]
      BY <2>1 DEF BeginPass, TypeOK
    <3>2. runner'.at = "visit"
      BY <3>1 DEF Runners, RunnersAt
    <3>. QED
      BY <2>1, <3>2 DEF BeginPass, project, history
  <2>2. ASSUME Tick \/ ProjectFails
        PROVE  runner'.at # "show" /\ journal' = journal /\ shown' = shown
    <3>1. runner # None /\ runner.at = "visit"
      BY <2>2 DEF Tick, ProjectFails
    <3>2. runner \in Runners /\ runner.todo # <<>> /\ Here \in Projects
      BY <3>1, HereIs
    <3>3. /\ runner = [at |-> runner.at, version |-> runner.version, todo |-> runner.todo,
                       notice |-> runner.notice, cache |-> runner.cache, told |-> runner.told]
      BY <3>2 DEF Runners, RunnersAt
    <3>4. PICK cache, told, notice :
            LET r == [runner EXCEPT !.cache = cache, !.told = told]
            IN runner' \in {[r EXCEPT !.at = "notify", !.notice = notice], Onward(r)}
      <4>1. CASE Tick
        <5>1. LET r == [runner EXCEPT !.cache = [runner.cache EXCEPT ![Here] = Held(Here)],
                                      !.told = [runner.told EXCEPT ![Here] = None]]
              IN runner' \in {[r EXCEPT !.at = "notify", !.notice = task[Here].status],
                              Onward(r)}
          BY <3>3, <4>1 DEF Tick
        <5>. QED
          BY <5>1
      <4>2. CASE ProjectFails
        <5>1. LET r == [runner EXCEPT !.cache = [runner.cache EXCEPT ![Here] = None],
                                      !.told = [runner.told EXCEPT ![Here] = Failure(Here)]]
              IN runner' \in {[r EXCEPT !.at = "notify", !.notice = "project_error"],
                              Onward(r)}
          BY <3>3, <4>2 DEF ProjectFails
        <5>. QED
          BY <5>1
      <4>. QED
        BY <2>2, <4>1, <4>2
    <3>5. runner'.at \in {"notify", "visit", "sleep"}
      BY <3>3, <3>4 DEF Onward
    <3>. QED
      BY <2>2, <3>5 DEF Tick, ProjectFails, project, history
  <2>3. ASSUME NoticeFails PROVE runner' = None /\ journal' = journal /\ shown' = shown
    BY <2>3 DEF NoticeFails, project, history
  <2>. QED
    BY <1>2, <1>3, <1>4, <1>5, <2>1, <2>2, <2>3 DEF RunnerStep
<1>6. CASE Hang
  <2>1. runner # None /\ runner.at = "visit" /\ runner' = [runner EXCEPT !.at = "hung"]
    BY <1>6 DEF Hang
  <2>2. runner \in Runners
    BY <2>1, HereIs
  <2>3. runner'.at = "hung"
    BY <2>1, <2>2 DEF Runners, RunnersAt
  <2>. QED
    BY <1>4, <1>6, <2>3 DEF Hang, project, history
<1>7. CASE runner' \in {runner, None} \/ \E v \in Versions : runner' = Fresh(v)
  <2>1. CASE EmitOnce \/ Show
    BY <1>2, <1>3, <2>1
  <2>2. CASE journal' = journal /\ shown' = shown
    <3>1. \A v \in Versions : Fresh(v).at # "show"
      BY DEF Fresh
    <3>. QED
      BY <1>4, <1>7, <2>2, <3>1
  <2>. QED
    BY <2>1, <2>2, QuietSteps
<1>. QED
  BY <1>5, <1>6, <1>7, RunnerSteps

\* The rest of the machine.
LEMMA StepMachine ==
  ASSUME TypeOK, RunnerIsSomewhere, [Next]_vars
  PROVE  /\ registry' \in Seq(Projects)
         /\ current' \in Versions \cup {None}
         /\ command' \in Commands \cup {None}
         /\ DOMAIN launched' = Projects
<1>0. /\ registry \in Seq(Projects) /\ current \in Versions \cup {None}
      /\ command \in Commands \cup {None} /\ DOMAIN launched = Projects
  BY DEF TypeOK
<1>. DEFINE Starts == [name : {"start", "restart"}, at : {"register", "kickstart", "wait"},
                       project : Projects]
            Installs == [name : {"install"}, version : Versions,
                         at : {"remove", "copy", "unlink", "switch", "plist"}]
<1>1. DOMAIN launched' = Projects
  <2>1. CASE Tick
    BY <1>0, <2>1 DEF Tick
  <2>. QED
    BY <1>0, <2>1, QuietSteps
<1>2. registry' \in Seq(Projects)
  <2>1. ASSUME Register PROVE registry' \in Seq(Projects)
    <3>1. command \in Commands /\ command.at = "register"
      BY <1>0, <2>1 DEF Register
    <3>2. command.project \in Projects
      BY <3>1 DEF Commands
    <3>3. Append(registry, command.project) \in Seq(Projects)
      BY <1>0, <3>2
    <3>. QED
      BY <1>0, <2>1, <3>3 DEF Register
  <2>. QED
    BY <1>0, <2>1, QuietSteps
<1>3. ASSUME NEW from, NEW to \in {"copy", "unlink", "switch", "plist", "done"},
             InstallStep(from, to)
      PROVE  command' \in Commands \cup {None} /\ command \in Installs
  <2>1. /\ command \in Commands /\ command.name = "install"
        /\ command' = IF to = "done" THEN None ELSE [command EXCEPT !.at = to]
    BY <1>0, <1>3 DEF InstallStep
  <2>2. command \in Installs
    BY <2>1 DEF Commands
  <2>3. to # "done" => [command EXCEPT !.at = to] \in Installs
    BY <2>2
  <2>. QED
    BY <2>1, <2>2, <2>3 DEF Commands
<1>4. ASSUME RemoveOldCopy \/ CopySkill \/ Unlink \/ Switch \/ WritePlist
      PROVE  command' \in Commands \cup {None} /\ current' \in Versions \cup {None}
  <2>1. command' \in Commands \cup {None} /\ command \in Installs
    BY <1>3, <1>4 DEF RemoveOldCopy, CopySkill, Unlink, Switch, WritePlist
  <2>. QED
    BY <1>0, <1>4, <2>1 DEF RemoveOldCopy, CopySkill, Unlink, Switch, WritePlist
<1>5. ASSUME Register \/ Kickstart \/ KickstartRefused \/ Wait
      PROVE  command' \in Commands \cup {None} /\ current' \in Versions \cup {None}
  <2>1. current' = current
    BY <1>5 DEF Register, Kickstart, KickstartRefused, Wait, machine
  <2>2. CASE command' = None
    BY <1>0, <2>1, <2>2
  <2>3. CASE \E at \in {"kickstart", "wait"} :
               /\ command \in Starts /\ command' = [command EXCEPT !.at = at]
    <3>1. command' \in Starts
      BY <2>3
    <3>. QED
      BY <1>0, <2>1, <3>1 DEF Commands
  <2>4. ASSUME Register \/ (Kickstart /\ command.name = "start") PROVE command \in Starts
    <3>1. command \in Commands /\ command.at \in {"register", "kickstart"}
      BY <1>0, <2>4 DEF Register, Kickstart
    <3>. QED
      BY <3>1, <2>4 DEF Commands
  <2>5. CASE Register
    <3>1. command \in Starts
      BY <2>4, <2>5
    <3>2. command' = [command EXCEPT !.at = "kickstart"]
      BY <2>5 DEF Register
    <3>. HIDE DEF Starts
    <3>. QED
      BY <2>3, <3>1, <3>2
  <2>6. CASE Kickstart
    BY <2>2, <2>3, <2>4, <2>6 DEF Kickstart
  <2>7. CASE KickstartRefused \/ Wait
    BY <2>2, <2>7 DEF KickstartRefused, Wait, Return
  <2>. QED
    BY <1>5, <2>5, <2>6, <2>7
<1>6. ASSUME Stop \/ Uninstall \/ CutShort
      PROVE  command' \in Commands \cup {None} /\ current' \in Versions \cup {None}
  BY <1>0, <1>6 DEF Stop, Uninstall, CutShort, Issue, Return, machine
<1>7. ASSUME NEW p \in Projects, Start(p) \/ Restart(p)
      PROVE  command' \in Commands \cup {None} /\ current' \in Versions \cup {None}
  <2>1. \E name \in {"start", "restart"} :
          command' = [name |-> name, at |-> "register", project |-> p]
    BY <1>7 DEF Start, Restart, Issue
  <2>2. command' \in Starts
    BY <2>1
  <2>3. current' = current
    BY <1>7 DEF Start, Restart, machine
  <2>. QED
    BY <1>0, <2>2, <2>3 DEF Commands
<1>8. ASSUME NEW v \in Versions, Install(v)
      PROVE  command' \in Commands \cup {None} /\ current' \in Versions \cup {None}
  BY <1>0, <1>8 DEF Install, Issue, machine, Commands
<1>9. ASSUME command' = command /\ current' = current
      PROVE  command' \in Commands \cup {None} /\ current' \in Versions \cup {None}
  BY <1>0, <1>9
<1>10. ASSUME RunnerStep \/ Hang \/ Launchd \/ RunnerCrash
       PROVE  command' = command /\ current' = current
  BY <1>10 DEF RunnerStep, BeginPass, Tick, ProjectFails, EmitOnce, NoticeFails, Show,
               Hang, Launchd, RunnerCrash, machine
<1>11. ASSUME NEW p \in Projects, ProjectStep(p)
       PROVE  command' = command /\ current' = current
  BY <1>11 DEF ProjectStep, MoveTask, ReplaceImplementer, Apply, EditLimits, LoseAccess,
               machine
<1>12. ASSUME UNCHANGED vars PROVE command' = command /\ current' = current
  BY <1>12 DEF vars, machine
<1>13. command' \in Commands \cup {None} /\ current' \in Versions \cup {None}
  BY <1>4, <1>5, <1>6, <1>7, <1>8, <1>9, <1>10, <1>11, <1>12 DEF Next, CommandStep
<1>. QED
  BY <1>1, <1>2, <1>13

LEMMA StepService ==
  ASSUME ServiceInvariant, [Next]_vars
  PROVE  ServiceInvariant'
<1>1. TypeOK /\ RunnerIsSomewhere /\ JournalKnows
  BY DEF ServiceInvariant
<1>. QED
  BY <1>1, StepTask, StepPolicy, StepRunner, StepJournal, StepMachine
     DEF ServiceInvariant, TypeOK

LEMMA InitService == ASSUME Init PROVE ServiceInvariant
<1>1. PICK a \in FirstAnswers, v \in Versions, bare \in BOOLEAN :
        /\ task = [p \in Projects |-> [status |-> "PLANNING", revision |-> 1,
                     who |-> a.roles["implementer"].who, running |-> FALSE]]
        /\ policy = [p \in Projects |-> IF bare THEN Template ELSE PolicyOf(a)]
        /\ channel = [p \in Projects |-> IF bare THEN None ELSE ChannelAfter(a, None)]
        /\ applied = [p \in Projects |-> IF bare THEN {} ELSE {a}]
        /\ whole = IF bare THEN {} ELSE {v}
        /\ current = IF bare THEN None ELSE v
        /\ plist = ~bare
  BY DEF Init
<1>2. /\ journal = [p \in Projects |-> {}] /\ registry = <<>> /\ runner = None
      /\ command = None /\ spent = 0 /\ launched = [p \in Projects |-> None]
      /\ shown = [p \in Projects |-> [n \in Notices |-> 0]]
  BY DEF Init
<1>3. a \in ApplyAnswers /\ a \in Answers /\ CanApply(a)
  BY ServiceAssumption
<1>4. task \in [Projects -> [status : Statuses, revision : 1..(spent + 1), who : Values,
                             running : BOOLEAN]]
  <2>1. a.roles["implementer"].who \in Values
    BY <1>3 DEF Answers, Roles
  <2>2. "PLANNING" \in Statuses /\ 1 \in 1..(spent + 1)
    BY <1>2 DEF Statuses, Attention
  <2>. QED
    BY <1>1, <2>1, <2>2
<1>5. applied \in [Projects -> SUBSET ApplyAnswers] /\ AnswersWereAccepted
  BY <1>1, <1>3 DEF AnswersWereAccepted
<1>6. shown \in [Projects -> [Notices -> Nat]] /\ journal \in [Projects -> SUBSET Notices]
  BY <1>2
<1>7. spent \in 0..MaxChanges /\ registry \in Seq(Projects)
  BY <1>2, ServiceAssumption
<1>8. TypeOK
  BY <1>1, <1>2, <1>4, <1>5, <1>6, <1>7 DEF TypeOK
<1>9. ASSUME NEW p \in Projects
      PROVE  \E file \in {Template} \cup {PolicyOf(b) : b \in applied[p]} :
               policy[p] = [file EXCEPT !.limits = policy[p].limits]
  <2>1. CASE bare
    <3>1. policy[p] = Template
      BY <1>1, <2>1
    <3>2. Template = [Template EXCEPT !.limits = Template.limits]
      BY DEF Template
    <3>. QED
      BY <3>1, <3>2
  <2>2. CASE ~bare
    <3>1. policy[p] = PolicyOf(a) /\ a \in applied[p]
      BY <1>1, <2>2
    <3>2. PolicyOf(a) = [PolicyOf(a) EXCEPT !.limits = PolicyOf(a).limits]
      BY DEF PolicyOf
    <3>. QED
      BY <3>1, <3>2
  <2>. QED
    BY <2>1, <2>2
<1>10. PolicyIsWritten
  BY <1>9 DEF PolicyIsWritten
<1>. QED
  BY <1>2, <1>5, <1>8, <1>10
     DEF ServiceInvariant, RunnerIsSomewhere, JournalKnows, CacheIsApplied

---------------------------------------------------------------------------
(* The theorems.                                                           *)

\* Every reachable state satisfies the inductive invariant.
THEOREM ServiceSafety == Spec => []ServiceInvariant
<1>1. Init => ServiceInvariant
  BY InitService
<1>2. ServiceInvariant /\ [Next]_vars => ServiceInvariant'
  BY StepService
<1>. QED
  BY <1>1, <1>2, PTL DEF Spec

\* The user is told at most once of a state at a revision, whatever is killed,
\* restarted or reconfigured (NotificationJournal.emit_once).
THEOREM NoticeSafety == Spec => []ToldOnce
<1>1. ServiceInvariant => ToldOnce
  BY DEF ServiceInvariant, JournalKnows, ToldOnce
<1>. QED
  BY <1>1, ServiceSafety, PTL

\* What a tick launches is what one accepted set of answers says, for the
\* participant the task was assigned to.
LEMMA StepLaunch ==
  ASSUME ServiceInvariant, [Next]_vars, NEW p \in Projects, launched'[p] # launched[p]
  PROVE  /\ launched'[p].who = task[p].who
         /\ \E a \in applied[p] :
              LET r == a.roles["implementer"]
              IN /\ a.confirmed /\ r.who = task[p].who
                 /\ launched'[p].command =
                      [program |-> r.agent, model |-> r.model,
                       flag |-> ReasoningFlag(r.agent), reasoning |-> r.reasoning]
<1>1. Tick
  BY QuietSteps
<1>2. TypeOK /\ runner # None /\ runner.at = "visit" /\ Failure(Here) = None
  BY <1>1 DEF Tick, ServiceInvariant
<1>3. Here \in Projects
  BY <1>2, HereIs DEF ServiceInvariant
<1>4. /\ task[Here].status = "IMPLEMENTING" /\ ~task[Here].running
      /\ launched' = [launched EXCEPT ![Here] =
           [who |-> task[Here].who, command |-> Command(Held(Here), "implementer", Request)]]
  BY <1>1 DEF Tick, Launches
<1>5. p = Here
  BY <1>3, <1>4, <1>2 DEF TypeOK
<1>6. launched'[p] =
        [who |-> task[p].who, command |-> Command(Held(p), "implementer", Request)]
  BY <1>4, <1>5, <1>2 DEF TypeOK
<1>7. Held(p) # None
  BY <1>2, <1>3, <1>5, HeldIs
<1>8. PICK a \in applied[p] : a.confirmed /\ Held(p) = RolesOf(PolicyOf(a))
  BY <1>2, <1>3, <1>5, <1>7, HeldIs
<1>9. Resolves(Held(p), "implementer", task[p].who)
  BY <1>2, <1>4, <1>5, <1>7, FailureOf DEF Launches
<1>10. a \in Answers /\ CanApply(a)
  <2>1. a \in ApplyAnswers
    BY <1>2, <1>8 DEF TypeOK
  <2>2. CanApply(a)
    BY <1>8 DEF ServiceInvariant, AnswersWereAccepted
  <2>. QED
    BY <2>1, <2>2, ServiceAssumption
<1>. DEFINE r == a.roles["implementer"]
            held == Held(p)
<1>11. /\ held["implementer"].who = r.who /\ held["implementer"].agent = r.agent
       /\ held["implementer"].model = r.model /\ held["implementer"].reasoning = r.reasoning
       /\ r.agent \in {"codex", "opencode", "claude-code"}
  BY <1>8, <1>10, ImplementerOf DEF Automatic
<1>. HIDE DEF held
<1>12. r.who = task[p].who
  BY <1>9, <1>11 DEF Resolves, held
<1>13. Routed(held, "implementer", Request) = [model |-> r.model, reasoning |-> r.reasoning]
  <2>. DEFINE model == held["implementer"].model
              reasoning == held["implementer"].reasoning
  <2>. HIDE DEF model, reasoning
  <2>1. [Request EXCEPT !.model = model] = [model |-> model, reasoning |-> None]
    BY DEF Request
  <2>2. [[model |-> model, reasoning |-> None] EXCEPT !.reasoning = reasoning]
          = [model |-> model, reasoning |-> reasoning]
    OBVIOUS
  <2>3. Routed(held, "implementer", Request)
          = [model |-> model, reasoning |-> reasoning]
    BY <2>1, <2>2 DEF Routed, model, reasoning
  <2>. QED
    BY <1>11, <2>3 DEF model, reasoning
<1>14. /\ ReasoningFlag("codex") = "model_reasoning_effort"
       /\ ReasoningFlag("opencode") = "--variant"
       /\ ReasoningFlag("claude-code") = "--effort"
  BY DEF ReasoningFlag
<1>15. Command(held, "implementer", Request) =
         [program |-> r.agent, model |-> r.model,
          flag |-> ReasoningFlag(r.agent), reasoning |-> r.reasoning]
  <2>1. CASE r.agent = "codex"
    <3>1. Command(held, "implementer", Request) =
            CodexCommand([model |-> r.model, reasoning |-> r.reasoning])
      BY <1>11, <1>13, <2>1, CommandOf
    <3>. QED
      BY <1>14, <2>1, <3>1 DEF CodexCommand
  <2>2. CASE r.agent = "opencode"
    <3>1. Command(held, "implementer", Request) =
            OpenCodeCommand([model |-> r.model, reasoning |-> r.reasoning])
      BY <1>11, <1>13, <2>2, CommandOf
    <3>. QED
      BY <1>14, <2>2, <3>1 DEF OpenCodeCommand
  <2>3. CASE r.agent = "claude-code"
    <3>1. Command(held, "implementer", Request) =
            ClaudeCommand([model |-> r.model, reasoning |-> r.reasoning])
      BY <1>11, <1>13, <2>3, CommandOf
    <3>. QED
      BY <1>14, <2>3, <3>1 DEF ClaudeCommand
  <2>. QED
    BY <1>11, <2>1, <2>2, <2>3
<1>. QED
  BY <1>6, <1>8, <1>12, <1>15 DEF held

\* Every launch is one somebody configured.
THEOREM LaunchSafety == Spec => LaunchWasConfigured
<1>1. ServiceInvariant /\ [Next]_vars =>
        [\A p \in Projects : launched'[p] # launched[p] =>
           /\ launched'[p].who = task[p].who
           /\ \E a \in applied[p] :
                LET r == a.roles["implementer"]
                IN /\ a.confirmed /\ r.who = task[p].who
                   /\ launched'[p].command =
                        [program |-> r.agent, model |-> r.model,
                         flag |-> ReasoningFlag(r.agent), reasoning |-> r.reasoning]]_vars
  BY StepLaunch
<1>. QED
  BY <1>1, ServiceSafety, PTL DEF Spec, LaunchWasConfigured

=============================================================================
