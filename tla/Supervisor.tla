------------------------------ MODULE Supervisor ------------------------------
(***************************************************************************)
(* ProjectSupervisor.tick, the run worker it starts and the agent the      *)
(* worker starts, with the files that connect them: the run directory,     *)
(* process.json and exit.json.  The operations on the task record are      *)
(* those of RelayTask, each a single step (StateStore shows why).  A tick  *)
(* is a sequence of steps: what it read, it acts on later.  Any exception  *)
(* in a tick makes run_once drop the supervisor, and with it the handle of *)
(* the worker; the next tick goes by the files alone.                      *)
(***************************************************************************)
EXTENDS RelayTask

CONSTANTS
  Faults,       \* what may go wrong besides the agents' own failures
  MaxFaults     \* bound: how often

FaultKinds ==
  {"busy",      \* the lock file exists: a store call of the tick raises
   "build",     \* the adapter cannot build the command
   "slow",      \* the worker publishes no identity within two seconds
   "kill",      \* the worker is killed and its agent is not
   "restart",   \* the Runner is restarted between two ticks
   "crash"}     \* the Runner dies in the middle of a tick

ASSUME FaultsAssumption == Faults \subseteq FaultKinds /\ MaxFaults \in Nat

VARIABLES
  tick,         \* where the tick is, on which run, from which record
  handle,       \* _active: the run whose worker this supervisor started
  runDirs,      \* runs with a directory and metadata.json
  worker,       \* run -> its worker process
  agent,        \* run -> its agent process, or how it exited
  published,    \* runs with process.json
  exits,        \* run -> the code in exit.json, or None
  faults

processes == <<worker, agent, published, exits>>
supVars == <<vars, tick, handle, runDirs, processes, faults>>

Idle == [at |-> "idle", run |-> None, seen |-> 0, code |-> 0, reason |-> "exit"]

SupInit ==
  /\ Init
  /\ tick = Idle
  /\ handle = None
  /\ runDirs = {}
  /\ worker = [r \in Runs |-> "none"]
  /\ agent = [r \in Runs |-> "none"]
  /\ published = {}
  /\ exits = [r \in Runs |-> None]
  /\ faults = 0

\* The bound, with room for the finalization of the last run.
Open == task.revision + 1 < MaxRevision

Fault(kind) == kind \in Faults /\ faults < MaxFaults /\ faults' = faults + 1

At(place) == tick.at = place
Reach(place) == tick' = [tick EXCEPT !.at = place]

---------------------------------------------------------------------------
(* The tick without an active run: read, claim, create the run directory,  *)
(* start the worker, wait for process.json.                                *)

DecideLaunch ==
  /\ At("idle") /\ handle = None
  /\ Open
  /\ ~RunActive(task)
  /\ task.status \in {"IMPLEMENTING", "REVIEWING"}
  /\ tick' = [Idle EXCEPT !.at = "claiming", !.seen = task.revision]
  /\ UNCHANGED <<vars, handle, runDirs, processes, faults>>

ClaimRun(r) ==
  /\ At("claiming")
  /\ Open
  /\ task.revision = tick.seen
  /\ Claim(r)
  /\ tick' = [tick EXCEPT !.at = "claimed", !.run = r]
  /\ UNCHANGED <<handle, runDirs, processes, faults>>

\* RevisionConflict: the record moved since it was read.
ClaimRefused ==
  /\ At("claiming")
  /\ task.revision # tick.seen
  /\ tick' = Idle
  /\ UNCHANGED <<vars, handle, runDirs, processes, faults>>

\* Mutant: the record is read again before the try block.
OpenRunUnguarded ==
  /\ At("claimed")
  /\ IF task.writer = tick.run
     THEN Reach("created") /\ runDirs' = runDirs \cup {tick.run}
     ELSE tick' = Idle /\ UNCHANGED runDirs
  /\ UNCHANGED <<vars, handle, processes, faults>>

\* The record is read again; a launch context needs the writer session.
OpenRun ==
  /\ At("claimed")
  /\ IF task.writer = tick.run
     THEN Reach("created") /\ runDirs' = runDirs \cup {tick.run}
     ELSE Reach("abandoning") /\ UNCHANGED runDirs
  /\ UNCHANGED <<vars, handle, processes, faults>>

BuildFails ==
  /\ At("created")
  /\ Fault("build")
  /\ Reach("abandoning")
  /\ UNCHANGED <<vars, handle, runDirs, processes>>

SpawnWorker ==
  /\ At("created")
  /\ Reach("spawned")
  /\ worker' = [worker EXCEPT ![tick.run] = "starting"]
  /\ UNCHANGED <<vars, handle, runDirs, agent, published, exits, faults>>

WorkerIdentified ==
  /\ At("spawned")
  /\ tick.run \in published
  /\ handle' = tick.run
  /\ tick' = Idle
  /\ UNCHANGED <<vars, runDirs, processes, faults>>

\* The worker died without a process.json.
WorkerLost ==
  /\ At("spawned")
  /\ tick.run \notin published
  /\ worker[tick.run] = "gone"
  /\ Reach("abandoning")
  /\ UNCHANGED <<vars, handle, runDirs, processes, faults>>

\* Two seconds without a process.json: the worker, and only the worker, is
\* terminated.
WorkerSlow ==
  /\ At("spawned")
  /\ tick.run \notin published
  /\ worker[tick.run] # "gone"
  /\ Fault("slow")
  /\ worker' = [worker EXCEPT ![tick.run] = "gone"]
  /\ Reach("abandoning")
  /\ UNCHANGED <<vars, handle, runDirs, agent, published, exits>>

\* Mutant: the exception goes on and the lease stays.
AbandonSilent ==
  /\ At("abandoning")
  /\ tick' = Idle
  /\ UNCHANGED <<vars, handle, runDirs, processes, faults>>

\* except: finish_run releases the lease, and the exception goes on.
Abandon ==
  /\ At("abandoning")
  /\ tick' = Idle
  /\ IF CanFinishRun(task, tick.run)
     THEN AbandonLaunch(tick.run)
     ELSE UNCHANGED vars
  /\ UNCHANGED <<handle, runDirs, processes, faults>>

---------------------------------------------------------------------------
(* The tick on an active run.                                              *)

\* A run whose directory is missing is unknown: every reader of it raises.
Known(r) == r \in runDirs

\* read_exit and read_process: a record that is missing or empty is none.
Exited(r) == exits[r] # None

\* One of the two processes that process.json names is there.
ProcessAlive(r) == r \in published /\ (worker[r] = "running" \/ agent[r] = "alive")

Ending(r, code, reason) ==
  tick' = [Idle EXCEPT !.at = "finishing", !.run = r, !.code = code, !.reason = reason]

ExitCode(r) == IF Exited(r) THEN exits[r] ELSE 1

\* poll: the worker this supervisor started has exited.
CollectResult ==
  /\ At("idle") /\ handle # None
  /\ worker[handle] = "gone"
  /\ Ending(handle, ExitCode(handle), "exit")
  /\ handle' = None
  /\ UNCHANGED <<vars, runDirs, processes, faults>>

\* agent_timeout_minutes are over: the agent's process group is signalled.
TimeOut ==
  /\ At("idle") /\ handle # None
  /\ worker[handle] # "gone"
  /\ tick' = [Idle EXCEPT !.at = "interrupting", !.run = handle]
  /\ UNCHANGED <<vars, handle, runDirs, processes, faults>>

\* The group is gone already: killpg raises.
TimeOutTooLate ==
  /\ At("idle") /\ handle # None
  /\ worker[handle] # "gone"
  /\ agent[handle] # "alive"
  /\ tick' = Idle /\ handle' = None
  /\ UNCHANGED <<vars, runDirs, processes, faults>>

\* Mutant: the finalization forgets to pop the handle.
InterruptedKeepsHandle ==
  /\ At("interrupting")
  /\ worker[tick.run] = "gone"
  /\ Ending(tick.run, ExitCode(tick.run), "timeout")
  /\ UNCHANGED <<vars, handle, runDirs, processes, faults>>

\* The agent of an interrupted run may still finish what it is doing.
Interrupted ==
  /\ At("interrupting")
  /\ worker[tick.run] = "gone"
  /\ Ending(tick.run, ExitCode(tick.run), "timeout")
  /\ handle' = None
  /\ UNCHANGED <<vars, runDirs, processes, faults>>

\* Mutant: without an exit record the run counts as interrupted, alive or not.
ReconcileBlind ==
  /\ At("idle") /\ handle = None
  /\ RunActive(task)
  /\ Known(task.runId)
  /\ IF Exited(task.runId)
     THEN Ending(task.runId, exits[task.runId], "exit")
     ELSE Ending(task.runId, 1, "interrupted")
  /\ UNCHANGED <<vars, handle, runDirs, processes, faults>>

\* _reconcile_durable, with no handle: exit.json, else process.json and a live
\* process, else interrupted.  Without a run directory it raises.
Reconcile ==
  LET r == task.runId
  IN /\ At("idle") /\ handle = None
     /\ RunActive(task)
     /\ Known(r)
     /\ IF Exited(r) THEN Ending(r, exits[r], "exit")
        ELSE ~ProcessAlive(r) /\ Ending(r, 1, "interrupted")
     /\ UNCHANGED <<vars, handle, runDirs, processes, faults>>

\* finish_run; a finalization of a run that does not hold the lease raises, or
\* repeats what was done.
Finalize ==
  /\ At("finishing")
  /\ tick' = Idle
  /\ IF CanFinishRun(task, tick.run)
     THEN EndRun(tick.run, tick.code, tick.reason)
     ELSE UNCHANGED vars
  /\ UNCHANGED <<handle, runDirs, processes, faults>>

\* ReportingCoordinator.tick moves the record in REPORTING.
Report ==
  /\ At("idle") /\ handle = None
  /\ Open
  /\ SetReportingPhase \/ \E conv \in Conversations : PrepareWake(conv)
  /\ UNCHANGED <<tick, handle, runDirs, processes, faults>>

---------------------------------------------------------------------------
(* What goes wrong with the Runner.                                        *)

\* A store call finds the lock file, be it the recovery every tick starts with:
\* the exception ends the tick, the supervisor is dropped.
StoreBusy ==
  /\ tick.at \in {"idle", "claiming", "abandoning", "finishing"}
  /\ Fault("busy")
  /\ tick' = Idle /\ handle' = None
  /\ UNCHANGED <<vars, runDirs, processes>>

\* The workers and their agents have sessions of their own and live on.
RunnerStops ==
  /\ Fault(IF At("idle") THEN "restart" ELSE "crash")
  /\ tick' = Idle /\ handle' = None
  /\ UNCHANGED <<vars, runDirs, processes>>

---------------------------------------------------------------------------
(* run_worker.execute and the agent.                                       *)

StartAgent(r) ==
  /\ worker[r] = "starting"
  /\ worker' = [worker EXCEPT ![r] = "running"]
  /\ agent' = [agent EXCEPT ![r] = "alive"]
  /\ UNCHANGED <<vars, tick, handle, runDirs, published, exits, faults>>

Publish(r) ==
  /\ worker[r] = "running"
  /\ r \notin published
  /\ published' = published \cup {r}
  /\ UNCHANGED <<vars, tick, handle, runDirs, worker, agent, exits, faults>>

AgentExits(r) ==
  /\ agent[r] = "alive"
  /\ \E how \in {"exit0", "exit1"} : agent' = [agent EXCEPT ![r] = how]
  /\ UNCHANGED <<vars, tick, handle, runDirs, worker, published, exits, faults>>

\* Mutant: the worker is signalled in place of the agent's process group.
WorkerInterrupted ==
  /\ At("interrupting")
  /\ agent[tick.run] = "alive"
  /\ worker' = [worker EXCEPT ![tick.run] = "gone"]
  /\ UNCHANGED <<vars, tick, handle, runDirs, agent, published, exits, faults>>

\* SIGINT, SIGTERM and SIGKILL reach the agent's process group.
AgentInterrupted ==
  /\ At("interrupting")
  /\ agent[tick.run] = "alive"
  /\ agent' = [agent EXCEPT ![tick.run] = "exit1"]
  /\ UNCHANGED <<vars, tick, handle, runDirs, worker, published, exits, faults>>

WriteExit(r) ==
  /\ worker[r] = "running"
  /\ r \in published
  /\ agent[r] # "alive"
  /\ exits' = [exits EXCEPT ![r] = IF agent[r] = "exit0" THEN 0 ELSE 1]
  /\ worker' = [worker EXCEPT ![r] = "gone"]
  /\ UNCHANGED <<vars, tick, handle, runDirs, agent, published, faults>>

WorkerKilled(r) ==
  /\ worker[r] \in {"starting", "running"}
  /\ Fault("kill")
  /\ worker' = [worker EXCEPT ![r] = "gone"]
  /\ UNCHANGED <<vars, tick, handle, runDirs, agent, published, exits>>

\* A live agent works on the task; so do the foreground Planner and the user.
AgentActs(r) ==
  /\ Open
  /\ agent[r] = "alive"
  /\ ImplementationDone(r) \/ Verdict(r) \/ AgentWaitUser(r)
  /\ UNCHANGED <<tick, handle, runDirs, processes, faults>>

ForegroundActs ==
  /\ Open
  /\ \/ \E p \in Planners : PlanDone(p) \/ ReportDone(p)
     \/ WaitUser \/ Answer \/ Cancel
     \/ \E role \in Roles, to \in Participants : ReplaceAgent(role, to)
  /\ UNCHANGED <<tick, handle, runDirs, processes, faults>>

---------------------------------------------------------------------------

TickStep ==
  \/ DecideLaunch \/ ClaimRefused \/ OpenRun \/ SpawnWorker
  \/ \E r \in Runs : ClaimRun(r)
  \/ WorkerIdentified \/ WorkerLost \/ Abandon
  \/ CollectResult \/ Interrupted \/ Reconcile \/ Finalize

WorkerStep(r) == StartAgent(r) \/ Publish(r) \/ WriteExit(r)

SupNext ==
  \/ TickStep \/ TimeOut \/ TimeOutTooLate \/ Report
  \/ BuildFails \/ WorkerSlow \/ StoreBusy \/ RunnerStops
  \/ \E r \in Runs : WorkerStep(r) \/ AgentExits(r) \/ WorkerKilled(r) \/ AgentActs(r)
  \/ AgentInterrupted
  \/ ForegroundActs

SupSpec == SupInit /\ [][SupNext]_supVars

---------------------------------------------------------------------------
(* Fairness.  The service polls for ever, a worker that is not killed runs *)
(* on, an overdue run is interrupted and a signalled agent dies.  Nothing  *)
(* makes an agent exit by itself.                                          *)

FairSupSpec ==
  /\ SupSpec
  /\ WF_supVars(TickStep)
  /\ WF_supVars(TimeOut)
  /\ WF_supVars(AgentInterrupted)
  /\ \A r \in Runs : WF_supVars(WorkerStep(r))

---------------------------------------------------------------------------
(* Properties.                                                             *)

\* A run keeps its lease as long as its worker waits for its agent: no
\* finalization, timeout, failing tick, restart or reconciliation gives the task
\* away under a working agent (_finalize, _reconcile_durable).  An agent whose
\* worker was killed or given up is not covered: its lease is released under it.
AgentKeepsLease ==
  \A r \in Runs : agent[r] = "alive" /\ worker[r] = "running" => task.runId = r

\* A lease always belongs to somebody who can end it: to the tick that is
\* launching it, or to a run directory the next tick can reconcile
\* (claim before run_store.create).
LeaseIsRecoverable ==
  RunActive(task) =>
    task.runId \in runDirs \/ (tick.run = task.runId /\ tick.at \in {"claimed", "abandoning"})

\* A worker this supervisor has a handle of is the worker of the leased run, also
\* after other ticks failed (_active against the record).
HandleHasLease == handle # None => task.runId = handle

\* One background turn at a time, across restarts of the Runner.
OneTurnAtATime ==
  \A q, r \in Runs : agent[q] = "alive" /\ agent[r] = "alive" => q = r

\* Every lease is released in the end.
LeaseIsReleased == RunActive(task) ~> ~RunActive(task)

\* No agent works for ever: it exits, or the timeout interrupts it; only one that
\* this Runner does not watch, its worker or the Runner itself having died, may
\* (_poll, ProcessManager.interrupt).
AgentIsTimedOut ==
  \A r \in Runs :
    agent[r] = "alive" ~> agent[r] # "alive" \/ (handle # r /\ faults > 0)

---------------------------------------------------------------------------
(* What the proofs need besides.                                           *)

Places == {"idle", "claiming", "claimed", "created", "spawned", "abandoning",
           "interrupting", "finishing"}

SupTypeOK ==
  /\ tick \in [at : Places, run : Runs \cup {None}, seen : Nat, code : {0, 1},
               reason : {"exit", "timeout", "interrupted"}]
  /\ handle \in Runs \cup {None}
  /\ runDirs \subseteq Runs
  /\ worker \in [Runs -> {"none", "starting", "running", "gone"}]
  /\ agent \in [Runs -> {"none", "alive", "exit0", "exit1"}]
  /\ published \subseteq Runs
  /\ exits \in [Runs -> {0, 1, None}]

\* A worker that will still do something.
Working(r) == worker[r] \in {"starting", "running"}

\* From the claim on, the run a tick works on is the leased one: no other actor
\* releases a lease.
TickHasLease ==
  tick.at \notin {"idle", "claiming"} => tick.run \in Runs /\ task.runId = tick.run

\* A tick that is launching or finalizing has no handle, and the run it interrupts
\* is the one it has a handle of.
HandleIsWatched ==
  handle # None => At("idle") \/ (At("interrupting") /\ tick.run = handle)

\* A worker is started once, for a claimed run; its agent and its files follow it.
ProcessLives ==
  \A r \in Runs :
    /\ worker[r] # "none" => turn[r] # None
    /\ worker[r] \in {"none", "starting"} => agent[r] = "none"
    /\ r \in published => worker[r] \in {"running", "gone"}
    /\ Exited(r) => worker[r] = "gone"

\* A tick that launches a run has not started its worker before, and one that
\* gives the launch up has no worker at work.
LaunchIsFresh ==
  /\ tick.at \in {"claimed", "created"} => worker[tick.run] = "none"
  /\ At("abandoning") => ~Working(tick.run)

\* While no tick is cut short: a worker without identity is the one the tick is
\* waiting for, a tick finalizes no working worker, and every working worker
\* belongs to the lease.
WorkersAreKnown ==
  /\ \A r \in Runs : Working(r) =>
       /\ task.runId = r
       /\ r \in published \/ (At("spawned") /\ tick.run = r)
  /\ At("finishing") => ~Working(tick.run)

\* While no worker is killed or given up, a living agent has its worker.
AgentHasWorker == \A r \in Runs : agent[r] = "alive" => worker[r] = "running"

\* While no tick is cut short and no store call of a tick fails, the directory of
\* a run whose launch goes on is there.
LaunchHasDirectory ==
  /\ tick.at \in {"created", "spawned"} => tick.run \in runDirs
  /\ LeaseIsRecoverable

\* The inductive invariant, whatever the faults.
SupInvariant ==
  /\ SupTypeOK /\ RelayInvariant /\ WokenIsUnleased
  /\ TickHasLease /\ HandleHasLease /\ HandleIsWatched
  /\ ProcessLives /\ LaunchIsFresh

=============================================================================
