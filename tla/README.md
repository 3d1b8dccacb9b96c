# Agent Relay Auto: a verification project

TLA+ models of the relay in `src/shared/.agents/skills/agent-relay-auto/scripts/`
(called `S/` below; the copy under `assets/project-template` is the same code), TLC
runs on small instances, and TLAPS proofs for any number of participants, runs and
retries.

## 1. The system

A repository that uses the relay keeps its tasks in `docs/agent/`. One task goes
`PLANNING → IMPLEMENTING → REVIEWING → REPORTING → DONE`, back on
`changes_requested` and `replan_required`, aside on `WAITING_USER`, `BLOCKED`,
`CANCELLED`. The Planner is a person's foreground conversation. Implementer and
reviewer are command-line agents started, one turn at a time, by the Runner, a
service that polls every 45 seconds. Nobody sends messages: everything goes through
files, and every program may die at any moment.

| Part | State | Operations | Talks to |
|---|---|---|---|
| Task record (`state_store.py`, `relay_state.py`, `workflow_state.py`) | `STATE.md`: status, revision, role, participant, assignments, run lease, failure count, question, references, reporting wake | `plan-done`, `implementation-done`, `verdict`, `report-done`, `wait-user`, `answer`, `cancel`, `replace-agent`, `claim`, `finish_run`, `prepare_reporting_wake`, `set_reporting_phase` | called by agents, Planner, user and Runner |
| State store (same files) | lock file, `PROJECT_STATUS.md`, `.agent-relay-auto/transactions` | lock, read, compare-and-set, write one file after the other, recover, `release-stale-lock` | file system |
| Supervisor (`supervisor.py`, `process_manager.py`, `run_worker.py`, `run_store.py`) | worker handle in memory; run directory, `process.json`, `exit.json` | `tick`: launch, poll, time out, reconcile, finalize | state store, worker and agent processes |
| Reporting coordinator (`reporting.py`, `wake_store.py`, `planner_channel.py`) | wake journal, Planner channel | submit, reconcile, observe, retry, present | wake bridges, state store |
| Wake bridges (`planner_wake/*`) | a child process per call | `submit_report`, `observe`, `reconcile`, `present` | Codex, Claude Code, OpenCode, DeepSeek Harness |
| Runner service (`runner.py`, `registry.py`, `notifications.py`, `runnerctl.py`, `setup_runner.py`) | registry, supervisors per project, notification journal, installed release, launchd job | `run_once`, `serve`, register, start, restart, stop, install | supervisors, launchd |
| `replace-agent` (`workflow_state.py`) | management records, `role-bindings.md`, participant profiles, index row, channel | replacement with three scopes | state store |
| Configuration and adapters (`configure_runtime.py`, `config.py`, `adapters/*`) | `automation-policy.yaml`, `local.yaml`, channel | apply, inspect, load, route, build command lines | Runner service |
| Markdown records (`markdown_state.py`, `workflow_state.py`), index and queue | the YAML block of `STATE.md` and `PROJECT_STATUS.md` | parse, set a value, complete, activate, enlist | all |

What is hard here:

* **Read, then act.** Every caller learns its arguments (the expected revision above
  all) from a read without the lock; the tick re-reads between its steps.
* **One lock, two implementations.** `state_store._lock_path` and
  `workflow_state.lock_paths` compute the lock file each by its own rules.
* **Several files per operation.** `report-done` writes a journal and two files,
  `replace-agent` up to seven, in order, with crashes possible in between.
* **Lingering processes.** Worker and agent have sessions of their own and survive
  the Runner; an agent may submit a stage long after its run was given up.
* **Results told from state.** `classify_run_result` knows only the status at the
  start and the status when the Runner comes to look.
* **Volatile against durable.** Any exception in a tick drops the supervisor and its
  handles; the next tick goes by the files. The other way round, a supervisor that works
  keeps a configuration that has changed since.
* **A conversation that is not ours.** The Planner's conversation belongs to the user and
  to a tool in another process: turns of others, late, unseen, refused or half done.
* **Two writers of one text.** Helper and Runner rewrite the same YAML lines with code of
  their own, and one parser reads both.

What makes it correct: one owner per stage and one lease per run; no lost update; a
revision that orders the history; one handover per run; failures counted once, and a
retry budget that ends in `BLOCKED`; closed tasks stay closed; only reviewed
deliveries are reported; the index follows the task through crashes; every lease is
ended by somebody; one agent at a time; references that lead to their records; what is
launched is what was configured; every started project is served; what is read is what
was written. `PROJECT.json` lists each hazard at its line.

## 2. Modules

| Module | What it is |
|---|---|
| `TaskRecord` | The record and, for every operation, `CanOp` (its checks) and `AfterOp` (the record it writes), as plain operators. The `Mutant:` operators beside them are the same code with a plausible bug, used to show that the properties notice it. |
| `TaskRecordProofs` | The TLAPS lemmas about these operators: each maps a record to a record. Every module that keeps records rests its proofs on them. |
| `RelayTask` | **Abstract specification of the store**: each operation is one atomic step of its actor (Planner, agent of a run, Runner, user). History variables count handovers and failures per run. |
| `RelayTaskProofs` | The TLAPS proofs about `RelayTask`. |
| `StateStore` | The same operations as the code runs them: unlocked read (`Call`), `O_EXCL` lock file (`Acquire`, `LockExists`), check under the lock (`Check`, `Refuse`), one step per file (`Journal`, `Write`, `WriteIndex`, `UnlinkTransaction`), unlink (`Release`), process death anywhere under the lock (`Crash`) and `ReleaseStaleLock`. Implements `RelayTask`. |
| `Supervisor` | `ProjectSupervisor.tick` as a sequence of steps on `RelayTask`'s operations, with the worker and agent processes, the files between them, the timeout, durable reconciliation and a set of faults. |
| `RelayCallersProofs` | The TLAPS proofs about the two modules that say how the operations of `RelayTask` are called. `StateStore`: the lock in either layout, the rest in a checkout, with the refinement of `RelayTask`. `Supervisor`: it implements `RelayTask`, and which faults each of its promises survives. |
| `Reporting` | `ReportingCoordinator.tick` as a sequence of steps over the task record, the wake journal and the Planner channel, and the turns it starts in the Planner's tool, which outlive it. Checked to implement `RelayTask`. |
| `ReportingProofs` | The TLAPS proofs about `Reporting`, on top of those about `RelayTask`. |
| `ReplaceAgent` | `replace-agent` as a transaction over seven files and two tasks: everything is computed under the lock at the start (`Begin`), then one step per file in the order of the code, with a crash between any two; the other commands move the tasks with the operators of `TaskRecord`. |
| `ReplaceAgentProofs` | The TLAPS proofs about `ReplaceAgent`. |
| `PlannerTool` | **Abstract specification of a wake bridge**: at most one turn per call, and answers that are true of the turns. |
| `PlannerBridges` | The four bridges, and `discover`, as request and reply with a child process: the pipe and the reader's buffer, deadlines, exits, notifications, turns that start or show late. Checked to implement `PlannerTool` under a refinement mapping (`Tool`, `INSTANCE PlannerTool WITH`). |
| `PlannerBridgesProofs` | The TLAPS proof of that refinement. |
| `Configuration` | What `configure_runtime.py apply` accepts and writes, what the two loaders read back, and the command an adapter makes of it, as operators. |
| `RunnerService` | The service on top of it: the pass over the registered projects, cached supervisors, errors, notices, and `runnerctl` and `setup_runner` step by step, with the Runner killed and commands cut short. |
| `RunnerServiceProofs` | The TLAPS proofs about `RunnerService`. |
| `MarkdownState` | The parser, the relay's writer and the helper's writer over lines; the operations on `STATE.md`, on an older `STATE.md` and on the project index as sequences of writes; `execution.md` beside them. |
| `MarkdownStateProofs` | The TLAPS proofs about `MarkdownState`. |
| `MC*` | The small instances. |

`Reporting` uses the bridges at a coarser grain (one step to submit, one to observe): an
answer is lost, refused or true of the turns, as `PlannerTool` promises. `RunnerService`
treats a tick as one step; `Supervisor` and `Reporting` take it apart.

### How state and actions correspond to the code

`task` is the front matter of `STATE.md`. Fields no operation reads (timestamps,
progress references, blocked reasons, round counters) are left out; a delivery, a
verdict and a question are named by the revision that recorded them, which keeps what
the guards compare: same or different, older or younger. `turn[r]` is the launch
context of run `r`: role, participant and start status. `expected_revision` is not a
variable: an operation that passes the compare-and-set acts on the record it was
asked about; `StateStore` models the check itself (`SameRevision`) and
`ActsOnWhatWasSeen` and `ImplementsRelayTask` show that this is so.

Some behaviour is subtler than a field assignment:

* `AfterCompleteReport` drops the wake key. `prepare_reporting_wake` writes
  `reporting` as a one-line mapping; `set_yaml_value(("reporting", "phase"), …)`
  looks for a line `reporting:`, does not find it and appends a second section; the
  parser keeps the later one, which holds only the phase.
* `AfterAnswer` falls back to `PLANNING` without a suspended status.
* `finish_run` with three arguments (`AbandonLaunch`) releases the lease and counts
  no failure; with a start status it classifies.
* An agent knows its participant and run from its launch context and acts for no
  other, but at any time while it lives, and `RelayTask` lets it live for ever.
* In `Supervisor`, `Faults` names what may go wrong: `busy` (a store call finds the
  lock file), `build` (no command line), `slow` (no identity in two seconds), `kill`
  (worker killed, agent not), `restart` and `crash` (Runner gone between two steps
  of the service, or in the middle of a tick). Each run names the faults it allows.
* A finalization that raises (its run does not hold the lease any more) ends the
  tick and changes nothing, so `Finalize` and `Abandon` leave the record alone then.

In `Reporting` (`reporting.py`, `wake_store.py`, `planner_wake/`):

* `coord[c]` is what the tick of Runner `c` holds: where it is, the revision its next
  compare-and-set names, the channel it loaded, the wake key, the attempt and the turn.
  A tick that ends, by `return` or by an exception, goes back to `Idle`; every step
  that follows a file or a call is a separate action.
* `remote` is the turns that run outside the relay. A turn may report (`TurnReports`)
  while it lives, with the key of its prompt. That the prompt also names an expected
  revision is not enforced by anything and is left out: the turn reads the record anew.
* There are two kinds of tool (`ToolOf`). `codex` starts a turn and is asked after it
  later (`Observed`, `TurnsFound`); the other three, `cli`, run the turn to its end
  inside `submit_report` (`waiting`, `TurnReturns`) and cannot be asked.
* `WhatNext` is the dispatch on the last event of the wake; of the three statuses
  `find_submission` looks for, only `submitted` is ever written.
* The record and the channel are read in one step (`ReadTask`). A replacement between
  the two reads shows as a channel of another Planner, and the tick ends either way.
* Appending an event is one step: one short `write` to a file opened for appending.
  Nothing guards the read of the journal before it, so two Runners submit twice
  (section 5).
* The pause before a presentation retry is left out: a tick that finds it pending
  changes nothing.
* `Faults`: `abort` (the Runner dies in the tick, or a step raises), `refuse` (the tool
  does not take the submission), `lost` (it does and the answer is lost), `ui` (the
  window does not open), `lag` (a new turn shows in its conversation only later),
  `helper` (replace-agent dies before it rebinds the channel). `MaxFaults` bounds them.

In `ReplaceAgent`, `PlannerBridges`, `RunnerService` and `MarkdownState`:

* `call.todo` is the files still to be written; `WriteOrder` is the order of the code,
  where the two profiles come in the order of a set of strings, hence in any order.
  `Moves` is what other commands make of a task while the lock is free. A task past
  `MaxRevision` is not moved any more.
* `wire` is the child process of a bridge call: `pipe` is what `select` sees, `buffer`
  what `readline` has taken in. `Script` lists the requests of an operation; a call with
  none starts no process. `left` holds the children that outlive their call.
  The tool's own steps (`Accept` and the like) are free to happen, fail or be late within
  `Faults`: `missing`, `refuse`, `other` (a reply about another conversation), `exit`,
  `note` (a notification between the replies), `lag`, `stuck` (does not exit), `crash`.
* `Values` are names the user chose and the strings the code treats specially (empty,
  `default`, the placeholder). `launched[p]` is the command of the last launch in a
  project; a tick that launches goes by the supervisor's cached policy (`Held`).
* `runner` is the process: the registry it read, where in the pass it is, its cache and
  what it reported last. The statuses that ask for attention are one (`Attention`). A tick
  fails (`Failure`) because the volume cannot be read, the policy does not load, the
  Runner's own release is gone (it loads modules when it needs them) or nobody may launch
  the participant. It may also not end: a Planner's tool that is asked without a deadline
  (all but those of `Timed`) does not answer (`Hang`), and the process with all its projects waits.
* A line of a record is a key with a raw text: quoted or bare. `SetYamlValue` and
  `SetScalar`, `SetNested` are the two writers, `Parse` the reader; a value is told from a
  text as the patterns of the code do (digits, `null`, brackets, plain). `record` is what a
  reader should find. `Wake`, `SetPhase` and `Report` are the life of `reporting`: a mapping
  on one line, rewritten as a whole, until `report-done` writes `reporting.phase` and begins
  a section with it, behind the line that is still there. Other operations differ in what
  they require of the values they read and in what they write (`RelayOperations`,
  `HelperOperations`, `Rest`). Whatever text the code accepts is given to a writer
  (`Storable`): `record` keeps it as it was meant, `Understood` says what the parser makes
  of it if the relay helper wrote it, and a guard that compares (`IsText`, `Admitted`,
  `Has`) goes by what was read. `Deliver` and the operations of a review repeat the checks of `complete_stage`,
  so a second delivery needs a verdict that asks for changes, and a new claim, before it.
* On the index the Planner's own edits are steps too: a new task (`Enlist`), the documented
  switch of the active task (`references/protocol.md:89`; `Switch`, `Unblock`). `Complete`
  does what `_complete_project_index` does, wherever the task is listed; `early` remembers
  the tasks that were completed while they waited in `queued` or `blocked`.

Assumptions. A release of a stale lock is used on dead holders, as the helper asks
its user to confirm. A participant named in an assignment is registered for that
role. A task starts at rest (`AtRest`): freshly planned, or taken up from a clone at
a later stage, with no lease. The replay branch of `claim` (same claim key and run
id) is left out: every tick draws a new run id. The statuses `DRAFT` (before the
Planner starts a task by hand) and `CHANGES_REQUESTED` (nobody writes it) are left
out. In `Supervisor` a store call is one step, which `StateStore` justifies, or
fails (`busy`). In `ReplaceAgent` the other commands are one step each, for the same
reason. In `MarkdownState` the ids of tasks are words (`TASK-YYYYMMDD-NNN`,
`docs/agent/tasks/README.md:3`); every other text may be digits, `null` or `true`.

## 3. Runs

| Run | Instance | What it shows |
|---|---|---|
| `relay_task` | 2 Planners, 2 implementers, 1 reviewer, 3 runs, 1 retry, start fresh or reviewed, revisions < 12 | Seven invariants and two action properties of the task record. |
| `store_report` | plain checkout, Runner + 1 helper, 2 Planners, 1 run, 1 crash, task in its first review or ready to report, revisions < 7 | Exclusion, no lost update, calls that act on what was seen, journal and index, refinement of `RelayTask`, and repair of the index under fairness. |
| `sup_turns` | faults busy, build, slow, kill, restart (2), 3 runs, revisions < 12 | An agent whose worker waits keeps its lease; a handle belongs to the leased run. |
| `sup_live` | faults build, slow, kill (2), 2 runs, revisions < 9, fairness | Somebody can always end a lease, every lease is released, every watched agent is timed out. |
| `reporting` | 1 Runner, a Codex Planner and a command-line substitute, 2 conversations, all faults (3), 1 model retry, revisions < 9, fairness | No turn beside a living one that nobody called failed, attempts in the limit, keys, receipts and `DONE` in agreement with the record, refinement of `RelayTask`, every wake settled. |
| `replace` | 2 tasks, 2 Planners, 3 implementers (one retired), 2 replacements, revisions < 7 | References resolve, the index is not ahead, a standby is nobody's, records are kept, through crashes between the files. |
| `service` | 2 projects, 3 sets of answers (a Planner on Codex, two on the Harness), 1 release, 4 changes or faults, fairness | Nobody is told twice, launches are what was configured, every started project is served unless a tool hangs or an earlier project cannot be read. |
| `bridges` | Codex, OpenCode, DeepSeek Harness, 2 conversations, 3 calls, 1 fault of 8 kinds, fairness | The bridges implement `PlannerTool`; those with a deadline return. |
| `documents` | the template, an older `STATE.md`, the index with 3 tasks, 2 deliveries, 1 wake key; a participant and a delivery named `2`, an authorization `null` | What is read is what was meant, from the claim to `report-done`, with two kinds of exception; the index stays valid but for tasks completed early. |
| `store_worktree` | worktree, as `store_report` without fairness | **Violated**: replace-agent and the store lock different files and lose updates. |
| `sup_second_turn` | 1 crash | **Violated**: a crash between spawn and `process.json` leads to two living agents. |
| `documents_delivery` | 2 deliveries with a review between | **Violated**: delivery, `changes_requested`, delivery; the record keeps the delivery id of the first one. |

The violated properties are what the documentation says; `PROJECT.json` quotes it.

**Bounds.** `MaxRevision` caps the only unbounded counter. A full pass through the
stages takes six revisions (two handovers with a claim and a finalization each, the
plan, the report), so 12 leaves room for a rework, a replacement, a question and the
retries; with one retry, two failures reach `BLOCKED`. Three runs allow one agent
that lingers, one that fails and one that works. In the store one crash and two or
three processes are enough for every pair of steps to meet; the store has no counter
that another process would change. In
`reporting` three faults allow a lost answer, a refused retry and a failing window in
one behaviour, and the revisions after the review leave room for the wake, two phases and
the report, for a question and its answer in between, or for a Planner who is replaced and
replaced back under a wake that was submitted: `MaxRevision = 9` is the least bound with
that case (442,300 states). By hand the properties were also checked with `MaxRevision = 12`
and no faults (682,000 states) and with 11 and one fault (1,283,000). `ModelRetryLimit` is 1, the
default (`model_retry_limit`). The limit matters: with 2 and the fault `lag` a retry whose
receipt is lost can be reconciled with the turn of the attempt before it
(`codex.py:112` takes the youngest turn it sees that mentions the key), and then a third
turn is started beside the second, so `OneLiveTurn` fails for policies with more retries
than the default. Nor does it hold with two Runners (section 5). In `replace` two replacements let a second one start on what a dead first
one left, on the other task or back again. In `service` four changes are enough for a
configuration, a start, a task's move and a kill or a hanging tool, in any order; the Runner's own steps and
those of a management command are not counted (769,000 states, under three minutes: a fifth
change is out of the run's time). In `bridges` three calls are a submission
and two questions about it; a command-line tool is OpenCode, of which Claude Code differs
in nothing the model keeps (it is left out of `Served`). `documents` needs no bound but
its small texts: its documents are finite in number (18,152). Run ids are interchangeable, so safety runs use
symmetry; the runs with liveness do not. `CHECK_DEADLOCK FALSE` everywhere: the bound
stops the model, and a closed task stops the system.

**Fairness.** `StateStore`: a process that does not die finishes its call (`WF` on its
steps). Every tick starts with the recovery and the service ticks for ever; the lock
is held for milliseconds and the ticks are 45 seconds apart, so a Runner does not meet
the lock at every attempt (`SF` on calling and acquiring for the recovery). A user
releases a stale lock that the helper shows (`WF`). `Supervisor`: the service polls
(`WF` on the tick's steps), an overdue agent is interrupted (`WF` on `TimeOut`: the
30 minutes pass), a signalled group dies (`SIGKILL` last), an unkilled worker runs
on. `Reporting`: the service ticks (`WF` on the steps of a tick), a turn of the
Planner's tool ends some time (`WF` on `TurnEnds` of each turn), a replace-agent that
does not die finishes (`WF` on `RebindChannel`); whether the turn reports, and whether a
person does, is left open. `RunnerService`: the Runner runs on and launchd restarts it
(`WF` on `RunnerStep` and `Launchd`); a Runner that hangs in a call of a Planner's tool has
no step, so nothing obliges it to go on. `PlannerBridges`: the caller's own steps
(`WF` on `CallStep`); nothing obliges a tool. No fairness for agents, the Planner or the user: an agent may hang for ever.

**Mutants.** Each property of a passing run has a mutant in `PROJECT.json`: one
definition replaced by its `Mutant:` variant makes TLC report that property.

## 4. Proofs

`RelayTaskProofs` proves, for every set of participants, runs and conversations,
every retry limit, every bound and every set of starting tasks at rest:

| Theorem | Property |
|---|---|
| `Typing` | `TypeOK` |
| `Safety` | `RelayInvariant`, the inductive invariant |
| `OwnerSafety`, `LeaseSafety` | `OwnerIsAssigned`, `LeaseConsistent` |
| `HandoverSafety`, `HandoverSuccess` | `OneHandoverPerTurn`, `HandoverIsNoFailure` |
| `FailureCount`, `RetrySafety` | `FailuresAreRuns`, `RetryBudget` |
| `ReportSafety` | `ReportsReviewedDelivery` |
| `ClosedForGood`, `RevisionHistory` | the two action properties |

Assumptions: `MaxAgentRetries` is a natural number, starting tasks are at rest, and
`None` is none of the runs, wake keys, statuses and turns. TLC evaluates all of them.

Why the safety properties are not inductive, and what `RelayInvariant` adds:

* `OneHandoverPerTurn` needs to know why a run that handed over cannot do so again:
  the lease it still holds is now on another role (`HandedOver`), which in turn
  needs that a stage fixes the role, through questions too (`StageHasRole`,
  `QuestionHasStage`), and that a turn starts in its own stage
  (`TurnStartsInItsStage`).
* `HandoverIsNoFailure` and `FailuresAreRuns` need that a finalized run never gets
  the lease back (`ReleasedRuns`, with `LeaseConsistent`).
* `RetryBudget` needs that a blocked task cannot be talked back to a stage by a
  question asked before (`SpentBudgetBlocks`).
* `ReportsReviewedDelivery` needs that references are not from the future and that a
  task in review has a delivery (`ReferencesAreOld`).

The proof that a step keeps the invariant is divided by part (`StepTyping`,
`StepOwner`, `StepLease`, …), each with one step per action of `Next`; `StepInvariant`
puts them together. `TerminalStep` and `RevisionStep` are the action properties of a
single step.

`ReportingProofs` proves, for any number of Runners, every kind and number of faults,
every retry limit and every assignment of tools to Planners:

| Theorem | Property |
|---|---|
| `ServiceSafety` | `ServiceInvariant`, the inductive invariant (with `ReportingTypeOK`) |
| `ReportingRefines` | `ImplementsRelayTask`: the service implements `RelayTask` |
| `WakeKeySafety` | `TurnsCarryTheKey` |
| `ReceiptSafety`, `CompletionSafety` | `PhaseHasReceipt`, `CompletedIsDone` |
| `ServiceKeepsRelay` | `RelayInvariant`, so every safety property above, of the service |
| `AttemptSafety` (one Runner) | `AttemptsWithinLimit` |
| `SecondTurnSafety` (one Runner, at most one retry) | `OneLiveTurn` |
| `OneTurnSafety` (besides, one tool) | `OneReporter`: never two turns that could report |

The refinement needs to know that a tick acts rightly on an old read: `Knows(c)` says that
while the record still has the revision a tick has seen, it is still `REPORTING`, and that
an open task still has the tick's key. It holds because the status changes with the
revision only (`StatusMovesRevision`) and an open task never changes the key it has
(`OpenTaskKeepsKey`). `PhaseHasReceipt` and `CompletedIsDone` need that at some places a
tick has a receipt or has seen `DONE`, and that the journal only grows
(`ReceiptComesFirst`, `StepJournal`). `ServiceInvariant` also excludes a leased task: the
service runs between two turns of background agents. The proof goes action by action
(`StepMoves`), with one lemma for those that need more than a line. Assumptions besides
those of `RelayTask`: `ReportingAssumption` (constants of the right type) and that `None`
is neither a journal event nor a phase.

`AttemptsInvariant` rests on the journal. With one Runner its last event carries the
number of attempts announced (`Spent`), all its events are of the one key an open task
keeps, no turn starts without an announced attempt (`Len(remote) <= Spent`, strictly less
where a call is about to be made), and an attempt is announced only after the limit was
looked at (`CountsAttempts`). Once the journal is settled nothing is started any more.
`OneTurnInvariant` adds that a second attempt means a first one that was called failed (`FailedOnce`),
which is all `OneLiveTurn` claims of any tools and replacements. `model_failed` is written
after the adapter of the channel as it is now found the turn over (`IsOver`). Where all
Planners use one tool that is the adapter of the turn's own tool, so the first turn is dead
and there is one reporter at most; where they do not, `OneReporter` is false: in the
instance of `reporting` TLC finds the trace of section 5. The retry limit matters because with a
single retry there is no third attempt that could take the youngest turn for its own. TLC
refutes either theorem without one of its hypotheses.

`RelayCallersProofs` proves of `StateStore`, for any number of Runners, helpers and crashes and every
constant of `RelayTask`, in either layout:

| Theorem | Property |
|---|---|
| `LockSafety` | `InsideHoldsLock` |

and in a checkout (`Layout = "checkout"`, the layout without lost updates):

| Theorem | Property |
|---|---|
| `StoreSafety` | `StoreInvariant`, the inductive invariant (with `StoreTypeOK`) |
| `StoreRefines` | `ImplementsRelayTask`: the store implements `RelayTask` |
| `UpdateSafety`, `RevisionGuard` | `NoLostUpdate`, `ActsOnWhatWasSeen` |
| `CrashSafety`, `IndexSafety` | `ClosedIsIndexedOrJournaled`, `IndexedIsClosed` |

`LockSafety` needs nothing but the types of the lock: a lock file that is there is
nobody's to create, and only its holder or the end of a dead holder removes it. In a
checkout every call has the same file, hence one process is inside (`OneInside`).
`UnderTheLock` says what that process knows: `STATE.md` is what it read until it writes it,
its transaction is there when it writes `DONE`, the task is `DONE` when it completes the
index, and the index is complete when it removes the transaction. `SeenIsPast` is about
all the callers that are not inside: what a caller read is an older record, or this one,
the phase aside, if the revision is the same, and its request fits what it read
(`WellFormed`). `PastStays` keeps it under every operation of `RelayTask`, because the
revision orders the history (`RevisionStep`) and the context of a run is written once
(`TurnsStay`). Both together let a write be the operation its caller meant
(`WriteImplements`, one case per operation). That the index does not fall behind needs,
besides, that only the report closes a task (`OnlyReportCloses`), and this that no closed
task is ever suspended (`SuspendedIsOpen`). Assumptions besides those of `RelayTask`: the
two values of the layout, `Free` and `Stale` are no process, crashes are bounded by a
natural number, and `None` is no stage rule. In a worktree `UpdateSafety` is false:
`store_worktree` is the counterexample.

Of `Supervisor` it proves, for any number of runs and of faults, on the assumptions of
`RelayTask` and that `Faults` are kinds of faults:

| Theorem | Faults | Property |
|---|---|---|
| `SupervisorSafety` | any | `SupInvariant`, the inductive invariant |
| `SupervisorRefines` | any | `SupSpec => Spec`: the Runner at work, its workers and agents implement `RelayTask` |
| `HandleSafety` | any | `HandleHasLease` |
| `AgentLease` | no `crash` | `AgentKeepsLease` |
| `LeaseRecovery` | neither `crash` nor `busy` | `LeaseIsRecoverable` |
| `OneTurn` | only `busy`, `build`, `restart` | `OneTurnAtATime`, which `sup_second_turn` refutes under `crash` |

The core is `TickHasLease`: from the claim on the run a tick works on is the leased one.
It holds because nobody else ends or takes a lease: agents, Planner and user keep it
(`OthersKeepLease`), and a task whose Planner is being woken, which `report-done` could
close, has none (`WokenIsUnleased`, proved of every step of `RelayTask` in `StepWoken`).
`HandleIsWatched`, `ProcessLives` and `LaunchIsFresh` say that a tick which launches has no
handle and a worker is started once for a fresh run. The conditional theorems each add one
part: without a crash every working worker belongs to the lease and has its identity on
disk, or the tick is waiting for it (`WorkersAreKnown`); without `kill` and `slow` every
living agent has its worker (`AgentHasWorker`); without a crash and a busy lock a launch in progress
has its directory (`LaunchHasDirectory`). The hypotheses of `OneTurn` cannot be dropped:
TLC finds two living agents with each of `kill`, `slow` and `crash`.

`ReplaceAgentProofs` proves, for any tasks, participants and conversations, any deaths
between two writes and any moves of the tasks by other commands:

| Theorem | Property |
|---|---|
| `ReplaceSafety` | `ReplaceInvariant`, the inductive invariant |
| `ReferenceSafety` | `RefsResolve` |
| `RowSafety` | `RowIsNotAhead` |
| `StandbySafety` | `StandbyIsUnreferenced` |
| `RecordsKept` | `RecordsAreKept` |

Hypothesis: at most a thousand replacements (`MaxCalls \in 0..1000`). It is the code's
limit, not the proof's: the next number is looked for among names with three digits, so
after record 999 the number 1000 is given again and again. `NumbersCountCalls` says that the
records of a task are numbered up to some number no higher than the number of calls, so
the number a call has chosen stays free until it writes (`CallRecords`). `CallIsCurrent` is
what the lock gives: task and bindings are as the call has read them until it writes them
itself, so what it writes is computed from what is there. `DeadAreTorn` remembers what a dead call left
undone, for `StandbyIsUnreferenced`, which allows a name on standby only where a running or a dead call
was about to activate it. Assumptions: the starting tasks are records whose
assignments are registered for their roles, and `None` is no call.

`RunnerServiceProofs` proves, for any projects, answers, releases, faults and number of
changes:

| Theorem | Property |
|---|---|
| `ServiceSafety` | `ServiceInvariant`, the inductive invariant |
| `NoticeSafety` | `ToldOnce` |
| `LaunchSafety` | `LaunchWasConfigured` |

`ToldOnce` needs that the journal is written before the notice is shown (`JournalKnows`)
and that a Runner which is killed in between loses the notice and does not repeat it.
`LaunchWasConfigured` follows the answers through three conversions: accepted by the tool
(`AnswersWereAccepted`), written to the policy, which is the template or made of applied
answers (`PolicyIsWritten`), and loaded into a supervisor that keeps it (`CacheIsApplied`,
which allows it to be older than the file). The lemmas about the configuration
(`ImplementerOf`, `LoadedPolicy`, `CommandOf`) say that participant, tool, model and
reasoning survive them. Assumptions: `ServiceAssumption` (constants of the right type,
`MaxChanges` a natural number) and that `None` is neither a loaded role nor a failure.

`PlannerBridgesProofs` proves, for any conversations, keys, tools, faults and number of
calls:

| Theorem | Property |
|---|---|
| `BridgesSafety` | `BridgesInvariant`, the inductive invariant |
| `BridgesRefine` | `KeepsThePromise`: the bridges implement `PlannerTool` |

The mapping shows `PlannerTool` the turns, the call and its outcome; requests, replies,
notifications and exits are stutters. A step that ends a call must be one of the answers
`PlannerTool` allows, so the proof has to carry the truth of every line from where it was
written, through pipe and buffer, to where it is read, while the turns go on. `LinesAreTrue`
does that: a line tells of a state that later states only continue (`Grows`), so what was
over stays over and what was seen stays to be seen (`TellsStays`). `ScriptIsFollowed` says
that the requests are a rest of the script, hence that only the last reply is taken for the
result, `TurnIsOurs` which turn a submission started, and `OutcomeIsTrue` that the answer
is true when it is given. The youngest turn (`Highest`) exists by the well-ordering of the
naturals. Assumptions: `BridgesAssumption`, and that `None` is neither a call nor a request.

`MarkdownStateProofs` proves, for any keys, texts, templates, tasks and deliveries, and any
sequences of writes the operations may make:

| Theorem | Property |
|---|---|
| `DocumentInvariant` | `DocumentInv`, the inductive invariant |
| `WritesReadBack` | `ReadsBack` |
| `IndexValidity` | `IndexIsValid` |

`ReadsBack` speaks of any text, not only of those that survive: for every key of the
document the value read is `Understood` of the value meant and its writer, and only
`reporting` may differ, once `report-done` has come, where the property says what is read instead. It is
not inductive: a line written over or inserted
says what it should only where the lines around it are in their places. `Shape` is what a
document keeps: a nested line stands under the head of its section or under a nested line,
and a key stands at column 0 once. `report-done` breaks it: the section it begins for `reporting`
comes behind the line of that key, and only the parser's rule
that the later one counts makes it readable; another write of the key would find the first
line and be read by nobody. Hence `DocumentInv` claims the shape until `report-done`
(`Reported`), and the run finds it broken afterwards: that every
operation refuses a closed task is what keeps its record readable (`NotDone`).

The argument goes from the line to the operation. `AlikeBehind` says that two
texts with the same lines from some point on, where one has read a few entries more than
the other, stay that much apart to their ends if no later line touches these entries. From
it follows what each kind of edit changes of what is read: a line at column 0 (`PutAtRootReads`), in a section that is there
(`PutInSectionReads`), a new section at the end (`SectionAtEndReads`) or between two others,
where only replace-agent puts one (`SectionBetweenReads`). `ValueReads` says what
comes back of a value through either quoting and the parser's patterns, `PutReads` joins
the two, and `WrittenReads` goes through the writes of an operation one after the other.
`ReportIsRead` is about the one write that loses something. For the index, `IndexOf` says which four
lists and which mirror it holds, and `CompleteKeeps`, `ActivateKeeps`, `EnlistKeeps`,
`SwitchKeeps` and `UnblockKeeps` that each operation leaves lists of which only a task
completed early is in two. No operation checks that a task it completes is active, so none is assumed to.
The parser and the writers go over lines and writes as recursive functions, which the module
unfolds (`ReadingsUnfold`, `TextsUnfold`) and goes along by induction over sets of
numbers (`CountUp`), for which the well-ordering of the naturals is enough.

Assumptions: `TextAssumption` (the classes of texts are told apart: the relay helper quotes
phrases, not digits and bare words; ids of tasks are words),
`KeyAssumption` (a key is on its line or heads a section, in every document; the templates
are in shape, and the index begins valid) and `OperationAssumption` (operations write keys of
the document, none but those the module spells out writes a task that is `DONE`, and only the
index's own operations write its lists). No assumption is about the texts that operations
write. TLC evaluates them for the three documents of the run.

Type invariants are part of the proofs (`TypeOK`, `ReportingTypeOK`, `StoreTypeOK`,
`SupTypeOK`); the runs spend their properties on what types do not say.

Only model-checked: all liveness (the prover has no fairness), that is
`ClosedGetsIndexed`, `LeaseIsReleased`, `AgentIsTimedOut`, `WakeGetsSettled`, `EveryStartedIsServed`
and `TimedCallsReturn`. Every other property of a passing run is stated by a theorem,
those of the conditional theorems under the hypotheses named above.

## 5. Not modelled

`RecoveryManager`, `StateStore.transition`, `RunStore.cleanup` and `unregister`, which only
tests call. Log rotation, redaction, heartbeats, usage: nothing reads them back. The
migration of older configurations, the systemd files, `doctor`, the remaining arguments of
the command lines and the line formats of the tools: straight-line code or formatting.
Process ids: a process is alive or not, so a reused pid (`supervisor.py:146`) is out of
the models' reach. Two management commands at the same time (`registry.json` has no lock). The
limits on rework rounds, replans and run counts of the configuration are enforced by no
code. Of the reporting coordinator: a channel of another repository, the disabled policy
and the rejection of torn journal lines, all of which end the tick at its beginning.

Behaviour the models have, or would have with another fault or instance, that disagrees
with the documents and has no run of its own:

* Supervisor. A Runner that dies between `claim` and the run directory leaves a lease
  nobody can end (`LeaseIsRecoverable` with the fault `crash`), and so does a lock met
  while a failed launch gives its lease back (`busy`). After a restart a run is watched
  through its files only and has no timeout (`LeaseIsReleased` and `AgentIsTimedOut` with
  `restart`). A slow worker is terminated without its agent while the lease is released
  (`WorkerSlow`; `AgentKeepsLease` speaks of waiting workers only).
* Reporting. The journal is read, and `submitting` appended, under no lock: two Runners on
  one project both find the journal of a prepared wake empty and wake the Planner twice
  (`OneLiveTurn` and `AttemptsWithinLimit` fail with `Coordinators <- MCTwoRunners` and
  `Faults <- MCNoFaults`), although
  `docs/superpowers/plans/2026-09-20-agent-relay-auto-original-planner-auto-reporting.md:33`
  wants this deduplicated and `tests/test_planner_reporting_e2e.py:128` tests one order of
  it. A tick asks after a receipt through the adapter of the tool that is registered now
  (`reporting.py:182`), and those of the command-line tools answer `completed` to any
  receipt (`claude_code.py:55`, `opencode.py:54`, `deepseek_harness.py:159`): a Codex Planner
  replaced by one on such a tool before the phase is set is called failed while he works,
  and replaced back he is woken a second time beside the living turn. `OneLiveTurn` allows
  this case and no other; `OneReporter`, which does not, fails with the constants of
  `reporting` in 25 states. If he is replaced back in another conversation, the submitted turn is
  looked for where it is not, and the wake stays as it is (`OutOfReach`, which
  `WakeGetsSettled` names among its ends). A Planner replaced while the wake is pending
  inherits the old wake key; one replaced between the submission and the phase, or with
  the scope `project-default` at any time, leaves its turn running, and unable to report.
  A report that a Codex turn makes between two ticks is never presented, because
  `report-done` loses the wake key and takes the task out of the index. A submission the
  tool refuses leaves the wake at `submitting` for good (`Unresolvable`).
* Task record. A second `wait-user` stores `WAITING_USER` as the suspended stage, so the
  answer leads nowhere. A question answered before the Runner looks at the run makes the
  run count as one that finished without a handover. In a worktree `release-stale-lock`
  does not see the store's lock, so `ClosedGetsIndexed` fails there.
* Service. The report of a failing project reads its files outside the `try`
  (`runner.py:88`), so an unreadable volume ends the pass, in every pass anew, for the projects
  after it, although `references/runner.md:42` says that it "must not stop later registered
  repositories". `EveryStartedIsServed` names this case (`StarvedBehind`; TLC refutes the
  property without it), and with it the other one, a Planner's tool asked without a deadline
  inside the tick, which holds up every project for ever (`HungForEver`, refuted without
  it too). `restart` does not look at the channel; `start` registers a project before
  launchd accepts the job.
* Bridges. `select` does not see a line that `readline` has taken into its buffer, so a
  reply that came may still time out (`TimeUp`); Codex, Claude Code and OpenCode turns are
  waited for without a deadline.
* Records. A second delivery keeps the first id (`documents_delivery`). The relay helper
  writes digits, `null`, `true` and `false` bare (`markdown_state.py:102`), whatever they
  were: a delivery id, a participant, an authorization of that kind is read as a
  number, nothing or a truth value. It is never equal to what a command line gives, so
  `complete_stage`, the wake or `report-done` refuse, and a `cancel` with the authorization
  `null` has no reason (`Understood` in `ReadsBack`). `report-done` loses
  `reporting.wake_key`, which `schema.py:111`-`113` requires and
  `tests/test_relay_state_cli.py:192` expects: the test writes `reporting` as a section
  beforehand, the wake as a mapping on one line. A task that is switched to `queued` or
  `blocked` while its wake lives and is reported then is in that list and in `completed`
  (`early` in `IndexIsValid`): `validate_project_state` refuses such an index
  (`schema.py:57`), and `activate_next_queued_task` would take the finished task up again. A cancelled task stays
  in `tasks.active` and holds up the queue.

## 6. Plan

1. Done: all modules of section 2; the proofs of section 4, which state every safety
   property of every passing run.
2. Two instances of `Reporting` with a lock around the tick, to show what would be enough
   for `OneTurnSafety` with several Runners.
3. `RecoveryManager` and `StateStore.transition`, should something besides the tests
   begin to call them.
