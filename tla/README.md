# Stapler: a verification project in TLA+

Stapler is a control plane for companies of AI agents: a Node.js server
(`server/`) over a PostgreSQL schema (`packages/db`), a web UI, a CLI, adapters
that run agents' CLIs as child processes, and a plugin host.  This directory
models the parts of it that carry the program's own coordination logic: who
queues, claims, executes, ends, cancels, reaps and retries an agent's runs; who
may work on an issue; how budgets stop work; how recurring tasks create issues;
how plugins' workers and jobs are started, stopped and restarted; how runs share
the services of a workspace; and how an issue's documents are written.  The models
are TLA+ modules, checked with TLC on small
instances; every safety property the runs check is also proved with TLAPS, for every
value of the constants that the theorem allows.

All paths below are relative to the root of the repository; `heartbeat.ts`,
`issues.ts` and the other service files live in `server/src/services/`.

## 1. The system

### Parts, state, operations

| Component | State | Operations |
|---|---|---|
| Run orchestrator (`heartbeat.ts`) | rows `heartbeat_runs`, `agent_wakeup_requests`, the lock columns of `issues`, `agents.status`; in memory `activeRunExecutions`, `startLocksByAgent`, and `runningProcesses` of the adapter utilities | `enqueueWakeup`, `startNextQueuedRunForAgent`, `claimQueuedRun`, `executeRun`, `releaseIssueExecutionAndPromote`, `finalizeAgentStatus`, `cancelRun`, `cancelActiveForAgent`, `reapOrphanedRuns`, `enqueueProcessLossRetry`, `resumeQueuedRuns`, `clearDetachedRunWarning` |
| Issue checkout (`issues.ts`) | `issues.status`, `assignee_agent_id`, `checkout_run_id`, `execution_run_id` | `checkout`, `assertCheckoutOwner`, `adoptStaleCheckoutRun`, `release`, `update` |
| Agent lifecycle (`agents.ts`, `routes/agents.ts`) | `agents.status` | pause, resume, terminate, approve |
| Local child processes (`packages/adapter-utils/src/server-utils.ts`) | `runningProcesses` | `runChildProcess`, exit, timeout |
| Budgets (`budgets.ts`, `costs.ts`) | `budget_policies`, `budget_incidents` with their approvals, the pause columns of companies, projects and agents | `createEvent`, `evaluateCostEvent`, `upsertPolicy`, `resolveIncident`, `getInvocationBlock`, `cancelBudgetScopeWork` |
| Workflows (`workflows.ts`) | `workflow_cases` with their artifacts, reviews and route rules; mirrors of each (intakes, briefs, decisions, handoffs) | `createCase`, `updateCase`, `createArtifact`, `submitReview`, `approve` (which creates the issue or the approval), `reject`, `upsertRouteRule` |
| Routines (`routines.ts`) | `routines`, `routine_triggers`, `routine_runs`, the execution issues | `tickScheduledTriggers`, `runRoutine`, `firePublicTrigger`, `dispatchRoutineRun`, `syncRunStatusForIssue`, `update`, `updateTrigger` |
| Delegations (`agent-delegations.ts`) | delegation rows with an idempotency key | create, update, claim, report, cancel |
| Approvals (`approvals.ts`) | approval rows | approve, reject, request a revision, resubmit |
| Plugin workers (`plugin-worker-manager.ts`) | the registry of handles, startup locks; per handle its child, pending calls, crash counter and backoff timer | `startWorker`, `stopWorker`, `call`, `restart`; exit, answer, timeout, backoff |
| Plugin lifecycle (`plugin-lifecycle.ts`, `plugin-loader.ts`, `plugin-registry.ts`) | `plugins.status` | install, load, enable, disable, unload, upgrade, restart, mark error |
| Plugin jobs (`plugin-job-scheduler.ts`, `plugin-job-store.ts`) | `plugin_jobs`, `plugin_job_runs`; in memory `activeJobs`, `tickInProgress` | `tick`, `dispatchJob`, `triggerJob`, `registerPlugin`, `unregisterPlugin`, `syncJobDeclarations` |
| Workspace runtime (`workspace-runtime.ts`) | in memory the services by id and by reuse key, the leases of each run, idle timers; rows `workspace_runtime_services` | `ensureRuntimeServicesForRun`, `releaseRuntimeServicesForRun`, the idle stop, the exit of a service, `stopRuntimeServicesForExecutionWorkspace`, `reconcilePersistedRuntimeServicesOnStartup` |
| Documents (`documents.ts`) | `documents`, `document_revisions`, `issue_documents` | `upsertIssueDocument` with a base revision, `deleteIssueDocument` |

The rest (costs, companies, portability, skills, secrets, UI, desktop shell, CLI,
adapters' parsers) is row access, data conversion, I/O or presentation; it is
listed with the reason in `PROJECT.json` under `components`.

### How they interact

* A wakeup comes from the scheduler's timer, from an issue assignment or comment,
  from a mention, a message, a delegation, a decided approval, a plugin, or the board.
  All of them call
  `enqueueWakeup`, which coalesces, defers or queues a run and then awaits
  `startNextQueuedRunForAgent`.
* A start runs under a per-agent promise chain (`withAgentStartLock`,
  `heartbeat.ts:71`).  It claims queued runs one by one and launches `executeRun`
  for each, without awaiting it.
* `executeRun` spawns a child through an adapter and awaits it.  The child calls
  back into the HTTP API: it checks out issues, comments, releases.
* The run's end, a cancellation, a pause and the reaper all share a tail: terminal
  status, release of the issue lock with promotion of a deferred wakeup, the
  agent's status, and a new start.
* At server start and every scheduler tick, `reapOrphanedRuns` and then
  `resumeQueuedRuns` run (`server/src/index.ts`); ticks may overlap.  The same
  interval ticks the routines; a routine's dispatch creates an issue and awaits
  `enqueueWakeup` for it, inside its own transaction.
* A cost event evaluates the budgets that cover it; a hard stop pauses the scope
  and cancels its runs through the orchestrator, whose wakeups and claims ask
  `getInvocationBlock` before.
* The plugin routes call a lifecycle manager, which unloads and activates through
  the loader; the loader starts workers, registers jobs, and reports a failed
  activation to a second lifecycle manager, which has no loader.  The job scheduler
  calls the worker; the worker's exit rejects the call.
* `executeRun` ensures the services of its workspace before it calls the adapter and
  releases them in its `finally`; archiving the workspace stops them; the server's
  start reconciles their rows.

### What is hard

Nothing serializes these calls except three things: the start lock of an agent
(in one process), the `WHERE` clause of a conditional `UPDATE`, and the
transactions of `enqueueWakeup` and `releaseIssueExecutionAndPromote` (which lock
the issue's row).  Between two awaits anything else runs: a pause after the agent
was read, a cancellation before the child was spawned, two reapers on the same
snapshot, an issue edit between a deferral and its promotion.  A restart loses
all memory, keeps the rows, and may leave children alive.  `PROJECT.json` lists
these hazards at their lines, with the properties that cover each.

### What correctness means

* Run orchestrator: a run is launched once; an agent is within its limit; a run
  ends once and keeps its end; a pause stops what runs; a lost run is retried
  once; live work is not reaped; an issue has one active run; a deferred wakeup
  has somebody to promote it; queued runs leave the queue, running runs end.
* Issue checkout: two live runs never both own an issue; who was told it owns the
  issue is in the row and holds the execution lock.
* Budgets: no run that is checked against a budget works on over it, a crossing is on
  record, a pause by hand stays.  Routines: one live execution issue unless the policy
  says otherwise, one run per idempotency key, a coalesced run points at a real one, a
  dispatch gives its lock back.  Plugins: one process per plugin, none that nobody knows
  of, none of a disabled plugin; every call settles once, every operation ends, a crash
  loop ends.  Plugin jobs: a tick keeps its limit and runs no job twice; every row and
  mark has a dispatch that will end it.
* Workflows, approvals: a case or an approval is decided once, and what follows from
  it is created once.  Delegations: one per idempotency key, and a closed one stays
  closed.  Documents: no write is lost, and a document exists under its key only.
* Workspace runtime: a leased service is stopped by nobody who does not lease it; an
  unused one stops; a run that is over has no lease; a reuse key leads to a live
  service.

## 2. The modules

| Module | Models |
|---|---|
| `RunStore` | the rows of the orchestrator and its statements and transactions, one atomic operator each |
| `HeartbeatService` | the calls in progress, as tasks that interleave between those statements; the specification, its fairness and its properties |
| `RunQueue` | the abstract queue that `HeartbeatService` implements: submit, start within the limit, end, once each |
| `MCHeartbeat` | the sets of wakeups for TLC |
| `IssueCheckout` | requests on one issue, reading, deciding and writing in separate steps |
| `MCIssueCheckout` | callers, runs and expected statuses for TLC |
| `PluginWorkers` | the handle of a plugin's worker, its processes, calls and timers, and the registry |
| `PluginLifecycle` | extends it with the row of the plugin and the operations on it |
| `PluginJobs` | the job scheduler over the rows of jobs and runs |
| `Budgets` | policies, incidents, pauses, and the runs they stop |
| `Routines` | ticks, requests and dispatches of one routine, its issues and runs |
| `WorkspaceRuntime` | the services of a workspace, their leases, keys, timers and rows |
| `Documents` | the document of an issue under one key: transactions that create, replace and delete it, with the locks of their statements |
| `Register` | the abstract register that `Documents` implements: a write names the last revision |
| `MCPlugins`, `MCPluginJobs`, `MCBudgets`, `MCRoutines`, `MCWorkspace`, `MCDocuments` | model values, functions and symmetries for TLC |
| `HeartbeatInvariant` | the inductive invariants of the orchestrator, and the steps that keep them for a reason they share (calm, mild, plain) |
| `HeartbeatServiceProofs` | lemmas on the statements of `RunStore`, one lemma per action and invariant, and the theorems |
| `CheckoutProofs`, `BudgetsProofs`, `RoutinesProofs`, `WorkspaceProofs`, `DocumentsProofs`, `PluginLifecycleProofs`, `PluginJobsProofs` | the invariants, lemmas and theorems of these seven modules |

### RunStore and HeartbeatService

The variables `runs`, `lock`, `lockKey`, `deferred` and `agentStatus` are the
database: `heartbeat_runs`, `issues.execution_run_id`,
`issues.execution_agent_name_key`, the wakeup requests in status
`deferred_issue_execution`, `agents.status`.  Runs are numbered in the order of
`created_at`.  `active`, `procs` and `child` are `activeRunExecutions`,
`runningProcesses` and the operating system's processes; only the last survives
`Crash`.

`task` is the calls in progress.  Each call is a task with a program counter; a
step is the code between two awaits that matter.

| Tasks | Code | Steps |
|---|---|---|
| wakers | `enqueueWakeup` | checks, then the transaction, then the kick |
| starters, one per agent: the holder of its start lock | `startNextQueuedRunForAgent`, `claimQueuedRun` | read the agent; count and select; per run: re-read the agent and its budget, the conditional update, the lock's stamp; launch |
| executors, one per run | `executeRun` | begin (claiming a run that is still queued is unreachable from the callers and left out); prepare; spawn or run in-process; return or throw; terminal status; tail; cleanup |
| cancellers | `cancelRunInternal` | read; status; tail |
| pausers | the pause route: `agents.pause`, `cancelActiveForAgentInternal` | status; snapshot; per run: status and release |
| reapers | `reapOrphanedRuns`, `resumeQueuedRuns` | snapshot; per row: skip, mark detached, or fail; retry; tail; resume |

A caller that awaits `startNextQueuedRunForAgent` waits until the starter is free,
becomes its `caller`, and goes on when the starter has finished with it; so a
starter that awaits its own agent's lock waits forever, as the code does.

### IssueCheckout

`row` is the issue's row, `live` the runs that are queued or running, `claimed`
those that have started (a run calls the API only after that), `call` each
caller's request in progress, and `owns` a history variable: the runs that a
response told they own the issue and that nobody told otherwise.  The run
orchestrator appears as the environment: it claims runs, stamps a free execution
lock, ends runs and frees their lock.

`edit` is an editor's `update`: it reads the issue (`UpdateRead`), compares the
assignee with what it read, and writes by id some awaits later (`UpdateWrite`,
`issues.ts:982`, `:1049`, `:1077`).  When its patch clears the locks, the run whose
checkout goes is told.  When it was judged to change no assignee and a checkout came in
between, it writes over the assignee and leaves the locks: `strayed` remembers this,
and `OwnerIsRecorded` then promises the checkout and the status, not the assignee.

### PluginWorkers and PluginLifecycle

`handle` is the closure of each worker handle (status, child, crash counter,
backoff timer, `intentionalStop`), `workers` the manager's map, `proc` the
processes and the requests they have received, `plugin` the row's status.  `task`
is the calls in progress: a handle's own task is its backoff timer's restart, an
operator's is a lifecycle operation, a caller's is one RPC.  Node.js runs every
continuation whose await has settled before it takes the next event, so exits,
answers, timers and new operations wait for a `Quiet` state; without that the model
would stop a worker between its start and the continuation that says so.

An operation reads the row (`ReadPlugin`), stops or starts the worker through the
stages of `stopInternal` and `startInternal`, and writes the row by id
(`WriteStatus`), as it was judged at the read.  The route's manager unloads through
`unloadSingle`, which only stops a worker that is `running`; the loader's own
manager (`markError`) has no loader and stops whatever is registered.  After the worker
is up, the activation still syncs jobs and registers tools (`Register`), which may fail
and mark the row as well.  A child that cannot be spawned is not modelled: the handle
emits `error` (`plugin-worker-manager.ts:654`) and nobody listens, so the exception ends
the server.

### PluginJobs

A number in `run` is a row of `plugin_job_runs` with the dispatch that works on it;
`activeJobs` is the set that prevents overlap, `tick` the tick in progress.  The
activation (`WorkerStarts`, `SyncJob`, `RegisterPlugin`, `EnsureNextRun`) and the
unloading (`UnregisterPlugin`, `CancelRun`, `ForgetMarks`, `WorkerStops`) go row by
row; of the worker only `isRunning` remains.  After a restart `orphans` remembers
the jobs with a running row that no dispatch will end: the next unloading cancels
it, and until then the job cannot be triggered by hand.

### Budgets

`policy`, `incident` and `scope` are a policy, its hard incident of the window with the
approval, and the scope's pause with its reason; `spent` the window's costs.  An
evaluation (`CostEvent` to `CancelWork`) and a request of the board (`UpsertPolicy`,
`RaiseBudget`, `DismissIncident`) go statement by statement; `run` is checked, then
inserted, then checked and claimed; a promotion or a retry is inserted without a check
(`Requeue`).  Scopes are agents, companies and projects.  `Closed` is what
`getInvocationBlock` finds of a scope; a wakeup asks it of every scope, its issue's
project included (`heartbeat.ts:3188`), but a claim passes on only the project that the
run's context names (`:1677`), and a run of an issue names none: `ClaimChecked` is the
runs whose claim checks a scope, and `IssueRuns` the others of a project.  `FundedWork`
is about `ClaimChecked`; a wakeup of an issue that was inserted after the sweep runs
over the spent budget of its project (`AllWorkFunded`, refuted below).  `unchecked`
remembers that an evaluation has thrown on the unique index of incidents, or that a
raise was spent while it was being written; both leave a spent budget that nobody looks
at until the next event.

### Routines

`holder` is the row lock of `select ... for update`; a dispatch holds it, and a
connection, from `Lock` to its commit, while the issue's creation and the wakeup use a
second connection.  `issue` is an execution issue with its live heartbeat run (`hb`),
and whether the row names that run (`bound`), which is what the unique index counts; a
hidden issue counts as closed.  What a dispatch writes in its transaction is seen at its
commit only; the issue and its run are seen at once, and survive a restart that undoes
the rest.  A tick computes the next occurrence from the time it selects at, and writes
it when it claims.

### WorkspaceRuntime

`record` is a service with what is known of it elsewhere: whether it is in
`runtimeServicesById` (`live`), its `leasedBy` and idle timer, its process (`child`:
up, and not told to stop), its row (`running`) and the write nobody awaits
(`writing`).  `reuse` is `runtimeServicesByReuseKey`, by name, and `leases`
`runtimeServiceLeasesByRun`.  A run ensures its services one by one (`Reuse`, or
`Start`, `Ready` and `Acquired`), uses them, and releases them (`Release`,
`Released`, `StopWrites`).  The status changes of a stop (`Stopped`, `Forgotten`) come
before its first await, the row's write after it.  `failures` counts the statements
that have failed, in the places where the code goes on.  A restart keeps the rows and
loses the processes, which are detached.

### Documents

`link` is the row of `issue_documents` under one key, `rows` are the latest revision's
number and id in `documents`, and `revisions` is `document_revisions`, with the base
each was written from.  A request is a transaction of several statements, each an
action: `UpsertRequest` reads and compares; `InsertRevision`, `UpdateDocument`,
`TouchLink` and `CommitUpdate` replace the last revision; `InsertDocument`,
`InsertLink` and `CommitCreate` create the document; `DeleteRequest`, `DeleteLink`,
`DeleteDocument` and `CommitDelete` delete it.  Until its commit a transaction shows
nothing to others but makes them wait: for the number it inserts, for the key, for the
rows it has written or deleted (`Awaited`, `KeyIsAwaited`, `Replacing`, `Touching`,
`Unlinking`, `Removing`; these are PostgreSQL's rules at READ COMMITTED, and
the unique indexes and the cascade are those of the schema).  `Rollback` is any
failure, a deadlock broken by the database included.  `Seen` is what a reader of the
key finds, and maps the model to `Register`.

### What is abstracted

* `timed_out` is counted as `failed`; `paused` stands for `paused`, `terminated`
  and `pending_approval`, which the guards of the orchestrator treat alike, save one:
  `finalizeAgentStatus` (`heartbeat.ts:1750`) does not know `pending_approval`.  An agent
  has this status from its creation (`server/src/routes/agents.ts:1315`), before it has
  runs; a board that sets it by hand while the agent has a run is not modelled.
* Contents: context snapshots, comments, sessions, logs, costs.  Wakeup rows other
  than the deferred ones are not kept.  Agent names are distinct, so the name key
  is the agent.
* Atomicity coarser than the code: the count and the select of a start; the reap's
  checks and its update; the scoped (not issue-locked) SELECT and INSERT of
  `enqueueWakeup`.
* Signals only make `ChildExit` happen sooner.  Process ids are not recycled.
* Rows claimed moments ago count as fresh for the periodic reap (its threshold is
  five minutes); any other subset of rows may be fresh.
* `budgets.getInvocationBlock` answers what the environment chose (`blocked`).
* Statements do not fail, except in `WorkspaceRuntime`.  Agents and issues are not
  deleted.
* Plugins: one plugin; the crash counter stops at its limit plus one; a process
  that was sent SIGKILL exits before the wait for it does; output lines of an old
  child that reach a new one, streams, requests of the worker to the host, `stopAll`,
  a failed spawn,
  purging and `markUpgradePending` are left out.  `PluginJobs` leaves out the job
  coordinator: it listens to the lifecycle manager built in `app.ts`, and the routes
  operate on another (`routes/plugins.ts:313`), so its handlers are not called.
* Budgets: one window, one policy per scope, hard stops only, and costs that every
  scope shares; the board's requests are about the scopes of `Addressed`; an incident of
  the window stays when it is resolved, so `CrossingRecorded` is about the first crossing
  (and those after a dismissal) only; a series of reads is
  one step; a manual pause sweeps its runs in one step (`PausedIsSwept` is the
  interleaved version); cancelling a run is one step.
* Routines: one routine with one schedule trigger; a unit of time is a cron minute; each
  of `Updaters` sends one issue update; requests read in one step; nothing moves an
  issue out of the statuses above but the issue's update.
* `WorkspaceRuntime`: one execution workspace; a readiness check that succeeds may
  have been answered by another process; worktrees, commands, ports, environments and
  the services an adapter reports itself are left out.
* `Documents`: one key of one issue; bodies, titles and the answers of refused requests
  are left out; a rolled-back id is not used again.  The removal of an issue, which
  deletes its documents, belongs to `issues.ts` and is left out.
* `IssueCheckout` leaves out `assertAssignableAgent` and the statuses that no
  condition tells apart.

## 3. The runs

All bounds are CONSTANTS: `MaxRuns` rows of `heartbeat_runs`, `MaxWork` outside wakeups
(promotions and retries may use the rows that remain), `MaxConcurrent`, `MaxCrashes`,
the sets of concurrent requests, `MaxEdits` in `IssueCheckout`, `Addressed`, `MaxAmount`
and `MaxSpend` in `Budgets`, `Updaters` and `MaxTime` in `Routines`, and the calls: each
caller of `PluginWorkers` makes one. Deadlock is not checked, except in
`documents`: once the bounds are reached and all work is done, the system rests.  In
`documents` it never does, and the check is vacuous: a request may always begin;
that a transaction does not wait for ever for another one is the database's to ensure,
which breaks deadlocks (`Rollback`).

| Run | Instance | Shows |
|---|---|---|
| `heartbeat_cancel` | one agent with a local child, two mention wakeups (the second is not merged into a run that has started), limit 1 (so no batch: what a batch of claims may do to the limit is said by the theorem `LimitIsKept` alone), one cancel request | `RunningWithinLimit`, `LaunchedOnce`, `ChildHasExecutor`, and that the orchestrator implements `RunQueue` |
| `heartbeat_pause` | one agent, limit 2 (so batches of two), mentions, pauses, resumes, budget blocks, issue edits | `PausedIsSwept` |
| `heartbeat_issue` | two agents on one issue, wakeups with and without a comment and by timers, two runs, no reaper | `OneActiveRunPerIssue`, `DeferredHasOwner`, `CoalescedIntoOwnRun`, `DeferredWakesLeave` |
| `heartbeat_recovery` | one restart at any point, one reaper with startup and periodic reaps, one retry | `RetriedOnce`, `ReaperSparesLiveRuns`, `RunningRunsEnd`, `QueuedRunsLeave` |
| `plugin_lifecycle` | one administrator who may request every operation, one call, two handles and processes, restarts after one crash in a row, upgrades that succeed | `OneWorker`, `UnregisteredIsDead`, `ReadyHasWorker`, `PendingHasProcess`, `CallSettlesOnce`, `OperationsEnd`, `BackoffEnds` |
| `plugin_jobs` | two jobs, two versions of the manifest, one manual trigger, limit 1, any number of crashes, unloadings and restarts | `ScheduledOnce`, `WithinLimit`, `WorkHasDispatch`, `TicksEnd` |
| `budgets` | a project whose budget the board sets, with a run that names it and a run of an issue of it, the latter by an agent with a policy; one cost event and one request at a time, amounts to 2, spending to 3 | `FundedWork`, `CrossingRecorded`, `ManualPauseKept` |
| `routines` | one tick, two requests with or without a key, one issue update that closes or hides an issue, two runs and issues, three connections, restarts | `OneFreshIssue`, `OncePerKey`, `CoalescedIntoCreated`, `LockIsReleased` |
| `workspace` | two runs that lease one shared service, one archive request, two records, one statement that fails, restarts | `LeasesEnd`, `KeyIsLive`, `LeasedIsSpared`, `UnusedStops` |
| `documents` | two writers, two deletions, two documents, four revisions of at most three per document, symmetric in each | `ImplementsRegister`, `ExistsUnderKey` |
| `checkout` | three runs: two of one agent and the board send requests, a run of another agent only takes the execution lock; checkouts that expect `todo` or `in_progress`, one update that reads before it writes, runs that end | `OneLiveOwner`, `OwnerIsRecorded`, `OwnerHoldsLock` |

The plugin modules forget handles, processes and rows that nothing refers to
and use their numbers again, so their bounds limit what exists at a time and not the
length of a behaviour.  In `plugin_lifecycle`, two of each are enough for an old process
beside a new one; the run of a second operator is in the table below.  In `budgets` an
event and a request are enough for each pair of racing writers; the spending goes beyond
the largest budget, so that a budget is raised and spent again.  The routine's runs and
issues are not reused: two of each are enough for two dispatches that should be one, and
a larger instance (`MaxTime = 2`, `enqueue_missed_with_cap`, `always_enqueue` and
`skip_if_active`, 11 million states) holds the safety properties as well.

Two runs per agent are enough for a batch, a slot that is freed and reused, and a
retry.  On an issue, two are enough for an owner and the promotion of a deferred
wakeup; three runs with wakeups by issue and comment (1.8 million states) hold the
safety properties of `heartbeat_issue` as well.  Two agents are needed wherever names
are compared.  In `workspace`, two records are enough for a stopped service whose
write is still to come beside the one that replaces it.

In `documents`, two writers and two deletions are enough for each pair that races, and
a second document for one that is created while the first is deleted; three writers
and five revisions hold the properties as well.  The symmetry is sound: the two
properties are a state invariant and a safety property that name no value.

One further run is a counterexample: TLC refutes a statement of the repository
(quoted in `PROJECT.json` under `findings`).

| Run | What happens |
|---|---|
| `start_lock_deadlock` | a budget block found while claiming cancels the run under the start lock; the cancellation awaits that lock |

TLC refutes these as well; they are not kept as runs, and the constants here
reproduce them (other constants as in the nearest cfg):

| Property | Constants | What happens |
|---|---|---|
| `CoalescedIntoOwnRun` | `IssueWakes`, two agents, `Editable = {i1}`, `MaxRuns = MaxWork = 3` | an edit clears the lock and keeps its name key; a wakeup of the old agent is merged into the new agent's run |
| `OneActiveRunPerIssue` | `Cancellers = {c1}` | the lock is stamped after the claimed run was cancelled, and names a run that is over |
| `SpawnedWhileRunning` | `Pausers = {p1}`, `LocalAgents = {alice}` | the pause finds no process yet; the child is spawned later for a cancelled run |
| `DeferredHasOwner` | `MaxCrashes = 1` | a restart between the terminal status and the release strands the deferred wakeup |
| `RunningWithinLimit` | `Reapers = {k1}`, `Cancellers = {c1}`, `MaxCrashes = 1` | the reaper's detached mark revives a run that was cancelled meanwhile |
| `TerminalIsFinal` | `Cancellers = {c1}`, or `Reapers = {k1}` and `LocalAgents = {}` | the executor's end, a cancellation and the reaper write by id; the last one wins |
| `LockIsNotStolen` | three callers, `Releasers = {}` | adopting a stale checkout takes the execution lock of a live run |
| `OneActiveRunPerIssue` | `Reapers = {k1}`, `LocalAgents = {alice}`, `MaxCrashes = 1`, `MaxRuns = 3` | a wakeup queues a run of the issue between the reaper's `failed` and the retry it queues for the same issue |
| `DeferredHasOwner` | `Blockable = {alice}`, `MaxRuns = MaxWork = 3` | a budget block cancels a queued run that has not taken the free lock; its release finds no issue, and the wakeup deferred behind it stays |
| `OneActiveRunPerIssue` | `Agents = {alice, bob}`, `LocalAgents = {}`, `AllWakes` | a mention queues a run of a second agent on an issue that has an active one (`doc/plans/2026-02-20-issue-run-orchestration-plan.md:136`) |
| `DeferredHasOwner` | two agents, `LocalAgents = {}`, `MaxRuns = MaxWork = 3`, `IssueWakes`, `Editable = {i1}` | an issue edit clears the lock; the run that ends no longer finds the issue and promotes nobody |
| `PauseSticks` | `Pausers = {p1}`, `Resumable = {alice}`, `LocalAgents = {}` | an executor, or a finalization, writes the agent status it computed before the pause |
| `RetriedOnce` | `Reapers = {k1, k2}`, `MaxCrashes = 1`, `MaxRuns = 3`, `MaxWork = 1` | two overlapping reaps fail the same run and queue a retry each |
| `OneLiveOwner` | callers and releasers `{r1, r2, r3}` | a release that decided on an old read frees an issue another run has checked out since |
| `OwnerIsAssigned` | as in the cfg | an update that read the issue before its checkout sets the assignee it had then, and leaves the locks (`issues.ts:1049`) |
| `ReadyHasWorker` | `UpgradesFail = TRUE` | `upgradePlugin` throws after the worker was stopped (also for new capabilities, so the lifecycle's `upgrade_pending` branch is never reached), and the plugin stays ready without one |
| `OneWorker`, `ReadyHasWorker` | `Operators = {admin, boot}`, `Boot = boot` | two operators: `restart` bypasses the startup lock and starts a second process |
| `DisabledIsDown` | `Callers = {}` | the worker crashes and waits for its restart; `unloadSingle` skips a worker that is not running (`plugin-loader.ts:1607`); the timer starts the worker of a disabled plugin (`plugin-lifecycle.ts:24-25`: "When it moves out of `ready`, the worker is stopped gracefully.") |
| `BackoffEnds` | `WindowPasses = TRUE` | a worker that crashes more slowly than the crash window is restarted for ever (as designed) |
| `TerminalIsFinal` (`PluginJobs`) | as in the cfg | an unloading cancels a run and its dispatch then writes its own end (`plugin_jobs.ts:62`: "Rows are never modified after `status` reaches a terminal value") |
| `NoOverlap` | as in the cfg | a manual trigger passes its checks before the tick creates its run |
| `OnlyDeclaredActive` | `Manifests <- OneOrNone` | a new version that declares no job is not synced, and the old jobs stay active |
| `DueJobsRun` | `Triggers = {}` | the due jobs are selected in no order and cut at the limit, so one may starve |
| `AllWorkFunded` | `Addressed = {agent}` | a run of an issue is inserted after the sweep of its project, and its claim does not check the project |
| `PauseHasIncident`, `OpenIsUndecided`, `PauseIsDue` | as in the cfg | an evaluation that read before the budget was raised pauses after it; the approval is decided without its incident |
| `FundedWork` without `~unchecked` | as in the cfg | a raise is spent while it is written |
| `LockIsAlwaysReleased` | as in the cfg | the wakeup inside the transaction awaits the start lock of an agent, which may never be given back (the run `start_lock_deadlock`) |
| `LockIsReleased` | `Connections = 2` | the lock's holder needs a second connection, and those that wait for the lock hold the others |
| `OccurrenceOnce` | `Ticks = {k1, k2}`, `Callers = {}`, `Updaters = {}`, three runs, `MaxTime = 2` | a dispatch that started early writes its old `next_run_at` over a later claim |
| `ArchivedDoesNotFire` | `Statuses = {"active", "archived"}` | the status is read before the dispatch and not again (`docs/api/routines.md`: "Archived routines do not fire and cannot be reactivated") |
| `RunFollowsIssue` | as in the cfg | the run is synced before the dispatch commits it, or a restart comes between the issue's update and the sync |
| `DeletedHasNoRun` | as in the cfg | a failed dispatch deletes its issue and leaves the run it queued |
| `AlwaysEnqueues` | `Policies = {"always_enqueue"}` | the claim of a second issue's run violates the unique index; the dispatch fails and deletes the issue |
| `SharedOnce`, `KeyIsFound` | `MaxFailures = 0`, `Archivers = {}` | two runs start the same shared service at once; the second takes over the key, and its end loses it |
| `LiveHasChild` | as in the cfg | a service exits before it is registered while its URL answers for another process |
| `RowIsAccurate` | `MaxFailures = 0`, `Archivers = {}` | a service exits while its acquisition is written; the late write says `running` again |
| `ArchiveStopsAll` | as in the cfg | the archive does not know of a service that is starting |
| `NoDeadlock` (`Documents`) | as in the cfg | a deletion locks the row under the key and waits for the document, an update holds the document and waits for that row; the database rolls one of them back, and its request answers 500 |
| `LeasesEnd` without `failures = 0`, `UnusedStops` without `failures > 0` | as in the cfg | an acquisition or a release that fails to write keeps its lease |

So the passing runs leave those actors out on purpose: each property is checked
with every actor under which the code keeps it.

### Fairness

`FairSpec` assumes weak fairness of every task's steps (the event loop runs each call
whose await can settle, and one fairness condition per task is what it gives: never a
choice between two steps of the same task), of `ChildExit` (a child ends or its timeout
kills it), and strong fairness of the periodic scan that finds no fresh row (the
interval timer keeps ticking, and rows grow older than the threshold).  Requests,
pauses, edits, crashes and budget changes are not fair. In `PluginLifecycle` a
continuation is weakly fair and a timer or a query strongly fair, since events wait for
a quiet state and are enabled again and again rather than continuously; a process that
was sent SIGKILL exits; nothing makes a worker answer.  In `PluginJobs` statements
complete, the interval ticks, and a call is answered, rejected or timed out
(`jobTimeoutMs`).  In `Routines` the statements of a dispatch settle once they have a
connection; `Start` is not fair, since it awaits the start lock of an agent, and
`LockIsReleased` exempts a holder that waits there; the row lock of a cut-off
transaction is the database's to release (`Restart`). `heartbeat_recovery` needs the
timer, since a detached run is only reaped by a later tick; `heartbeat_issue` does
without any reaper.  In `WorkspaceRuntime` the statements of a release settle and idle
timers fire; a service that is starting or in use, an exit and an archive are not fair.

## 4. The proofs

Each theorem holds for every value of the constants that satisfies the named
assumption of its module.

### The run orchestrator

`HeartbeatServiceProofs` proves, for all agents, issues, actors and bounds:

| Theorem | Statement |
|---|---|
| `TypeCorrect` | `Spec => []TypeOK` |
| `RunsAreLaunchedOnce` | `Spec => []LaunchedOnce` |
| `ChildrenHaveExecutors` | `Spec => []ChildHasExecutor` |
| `LimitIsKept` | `Spec => [](crashes = 0 => RunningWithinLimit)` |
| `PauseSweepsAll` | `Spec => [](crashes = 0 => PausedIsSwept)` |
| `QueueIsImplemented` | `Spec /\ [](crashes = 0) => ImplementsQueue` |
| `RunsAreRetriedOnce` | if the reaper's ticks do not overlap, `Spec => []RetriedOnce` |
| `ReapedRunsAreDead` | if the reaper's ticks do not overlap, `Spec => []ReaperSparesLiveRuns` |
| `IssueHasOneActiveRun` | if `Undisturbed`, `Spec => []OneActiveRunPerIssue` |
| `WakesJoinOwnRuns` | if `Undisturbed` and `Editable = {}`, `Spec => []CoalescedIntoOwnRun` |
| `DeferredWakesAreOwned` | if `Undisturbed` and `Editable = Blockable = {}`, `Spec => [](crashes = 0 => DeferredHasOwner)` |

The assumptions are those of the constants, `RunStoreAssumption` and
`HeartbeatAssumption`: bounds are natural numbers, the limit is between 1 and 10
(`normalizeMaxConcurrentRuns`), tasks of different kinds are different, and no
task is a number (runs are).

`LimitIsKept`, `PauseSweepsAll` and `QueueIsImplemented` hold until the first restart.
After one, a detached run that was
cancelled may be revived (see `RunningWithinLimit` in the table of section 3),
which breaks the limit, the sweep and the refinement; that is the code's
behaviour, so the condition is in the theorem and not in the model.

**The invariant.**  None of these properties is inductive.  `Inv`
(`HeartbeatInvariant`) adds:

* `TypeInv`: what a task knows in each place it can be in: the run it works on, the
  agent it promotes, the outcome it will write, and that an idle task has no rows
  left to visit;
* `Numbered`: every run a task knows of has been inserted, so a new row is not in
  anybody's snapshot;
* `Launching`: where the executor of a run may be, given its membership in
  `active`;
* `Children`: the executor of a live child is awaiting it;
* `SlotsHold`: running runs *plus the claims a starter has selected and not yet
  made* are within the limit.  This is why counting once before a batch is enough:
  only the starter moves runs to running, and the start lock makes it the only one;
* `SweepHolds`: `PausedIsSwept` for the runs *about to be claimed* too.  A claim
  that slips past the pause was selected while queued, so the sweep's snapshot,
  which takes queued runs as well, has it.

**The argument.**  Most steps move one or two tasks, change the store by one
statement, and break none of these parts.  `Calm` says what such a step may do:
rows (`RowsCalm`), agents' statuses (`PauseCalm`), memory (`MemCalm`), and each
task's record (`Fits`).  `CalmInv` proves once that a calm step keeps `Inv`; the
lemma of each action proves it calm (`Move`, `SameFits`, `FreshFits` and
`StartMove` carry the common parts).  The conditional claim, the launch and the
restart are not calm and have proofs of their own.  `NextInv` puts them together.
For the refinement, `RowsCalm` also says how a row's status may change, so each
step is shown to be a `Submit`, `Start` or `End` of the queue or to leave it
unchanged; the start's free slot is `SlotsHold`.

**The reaper.**  `RunsAreRetriedOnce` and `ReapedRunsAreDead` hold for any number of
agents, cancellers, pausers, edits and restarts, and assume that no two reaps overlap
(at most one element of `Reapers`).  The code does not exclude an overlap, and two
reaps retry a run twice (the table of section 3).  `ReaperInv` says that a retry is of
a run that ended, was no retry and has no other (`RetryRows`), and of the reap in
progress (`Reaping`) that its snapshot names each run once and none that was retried,
and that the run it is about to retry has ended, is in no executor's hands and has no
child.  The snapshot is old; what makes it safe is that only the reaper writes
`retryOf`, that a run which has ended never enters the process-local set `active`
again, and that the reaper checks that set in the step that writes `failed`.  Mild steps
keep `ReaperInv` because they revive, retry and reap nothing (`MildKeeps`).

**The lock of an issue.**  The code keeps one active run per issue only under
conditions, which `Undisturbed` names: nobody cancels or pauses, a mention wakeup is
about no issue, and there is no reaper or no agent whose runs it would retry.  Under
them any wakeups, edits, budget blocks, ticks of the reaper and restarts may interleave.
Each condition is needed, for a reason in the code (the counterexamples are in the table
of section 3):

* a cancellation between the claim and its stamp lets a run that is over take the lock;
* a mention queues a run behind the lock instead of deferring it;
* between the reaper's `failed` and its retry a wakeup finds no active run and queues
  one;
* (`WakesJoinOwnRuns`) an edit clears the lock and not its name key;
* (`DeferredWakesAreOwned`) an edit, or a block of a run that has not taken the lock,
  leaves the release without an issue to promote for, and a restart loses the release.

`IssueInv` has two parts: a lock that is set names a run of the issue, and the only one
that may be active (`LocksInv`); and the run a starter is about to stamp is still
running (`TasksInv`), so stamping never gives the lock to a run that is over.  With a
reaper it needs `ScanInv`: before the startup reap no call is in progress, and the rows
a reaper visits, however old its snapshot, are of runs that no starter has (any more),
so a reap never ends a run between its claim and its stamp.  `KeysInv` adds that the
name key is that of the run's agent, `OwnersInv` that an issue with deferred wakeups has
a run that holds the lock, will take it, or is being released (`Owned`).  Most actions
are `Plain`: they touch neither locks nor statuses, nor move a task to or from a stamp
or a release; what remains (the wakeup's transaction, the claim, the stamp, the ends,
the release with its promotion, the reaper and the restart) is proved action by action.

### Issue checkout

`CheckoutProofs` proves, under `CheckoutAssumption` and `BoardReleases` (only the
board sends release requests, and requests expect statuses of the model):

| Theorem | Statement |
|---|---|
| `TypeCorrect` | `Spec => []TypeOK` |
| `OwnerOnRecord` | `Spec => []OwnerIsRecorded` |
| `OneOwner` | `Spec => []OneLiveOwner` |
| `OwnerLocks` | `Spec => []OwnerHoldsLock` |

The condition is needed: with agents that release, TLC refutes `OneLiveOwner` (the table
of section 3).  Updates are unrestricted, with their stale reads: an update that does
not clear the locks sets no status but `in_progress` (`EditsSound`), so it may cost the
owner its assignee, never its checkout.  `Inv` adds `Locked`, the checkout of a live run
comes with the execution lock, and `Sound`, what a request knows between its statements;
above all, a run that was judged over stays over, since `live` only shrinks, so an
adoption that decided some statements ago takes nothing from a live run.  `NoOtherOwner`
is the heart: under the `WHERE` of each taking statement nobody else is a live owner.

### Budgets

`BudgetsProofs`, under `BudgetsAssumption` (scopes of two kinds are different, events
are not administrators, bounds are natural numbers):

| Theorem | Statement |
|---|---|
| `TypeCorrect` | `Spec => []TypeOK` |
| `CrossingsAreRecorded` | `Spec => []CrossingRecorded` |
| `WorkIsFunded` | `Spec => []FundedWork` |
| `ManualPausesStay` | `Spec => ManualPauseKept` |

`WorkIsFunded` is about the runs whose claim checks the scope: all runs of an agent or a
company, and of a project those outside `IssueRuns`.  The properties speak of the moment
when nothing is in progress.  The invariant speaks
of every moment: a spent budget has its incident or a task is `Due` to look at it
again (`Recorded`), and a run that works, or has passed its check and is about to, has
a task that will stop it (`Stopping`: due, or on its way to the sweep).  A step is
`Kept` when it makes no budget spent without a task that is due, ends no task that is
due without an incident, starts no run over a spent budget, and takes no run from a
sweep that still has to reach it; `KeptInv` proves once that such a step keeps `Inv`.

### Routines

`RoutinesProofs`, under `RoutinesAssumption`:

| Theorem | Statement |
|---|---|
| `TypeCorrect` | `Spec => []TypeOK` |
| `OneRunPerKey` | `Spec => []OncePerKey` |
| `OneIssueIsFresh` | `Spec => []OneFreshIssue` |
| `CoalescedRunsExist` | `Spec => []CoalescedIntoCreated` |

The invariant has three layers, each proved with the ones before.  `DispatchInv`: two
dispatches never work for the same run or issue, and who is past the row lock holds it.
`KeyInv`: the holder has found no run with its key, so what it commits is the first.
`IssueInv`: an issue has the run that created it, on record, in progress or lost by a
restart, and as long as the holder has not linked its own there is no fresh issue.

### Workspace services

`WorkspaceProofs`, under `WorkspaceAssumption`:

| Theorem | Statement |
|---|---|
| `TypeCorrect` | `Spec => []TypeOK` |
| `KeysAreLive` | `Spec => []KeyIsLive` |
| `LeasesEndWithRuns` | `Spec => []LeasesEnd` |
| `LeasedAreSpared` | `Spec => LeasedIsSpared` |

`Inv` adds `Starting`, a service that is starting is known to one task only; `Timed`, an
idle timer is set on live services without a lease only, so that a timer that fires
stops nobody's service; `Phase` and, while no statement has failed, `Held`: a service a
run has leased is on the run's list, or the run is about to put it there.  Most steps
are calm (`CalmMove`, `CalmRest`): they move one task and change one record.

### Documents

`DocumentsProofs`, under `DocumentsAssumption` (writers are not deleters, `None` is not
an id):

| Theorem | Statement |
|---|---|
| `TypeCorrect` | `Spec => []TypeOK` |
| `NoOrphans` | `Spec => []ExistsUnderKey` |
| `RegisterIsImplemented` | `Spec => ImplementsRegister` |

`Inv` says what a request knows (`Knows`): once its insert has gone through, what it
read before is still the last revision, since the index has no row of that number and
keeps others from inserting one.  `Apart` says that two requests in progress are about
different rows: two that insert a revision of one document cannot both be past their
insert, nor one and a deletion that has locked the document, and two creations cannot
both have inserted the key.  `Filled` ties the row of a document to its revisions.  Most
statements change one request only (`MoveInv`); the three commits have proofs of their
own, and are the only steps `Register` sees (`UpdateIsWrite`, `CreateIsWrite`,
`DeleteIsRemove`).

### Plugin workers and lifecycle

`PluginLifecycleProofs`, under `WorkersAssumption` and `LifecycleAssumption`:

| Theorem | Statement |
|---|---|
| `TypeCorrect` | `Spec => []TypeOK` |
| `CallsHaveProcess` | `Spec => []PendingHasProcess` |
| `CallsSettleOnce` | `Spec => CallSettlesOnce` |
| `OneProcess` | if `Operators = {Boot}`, `Spec => []OneWorker` |
| `DroppedHandleIsDead` | if `Operators = {Boot}`, `Spec => []UnregisteredIsDead` |
| `ReadyPluginHasWorker` | if `Operators = {Boot}` and `UpgradesFail = FALSE`, `Spec => []ReadyHasWorker` |

The first three are about any number of operators, callers, handles and processes.
The next two are about operations that come one after the other, in any order and
number, while the worker crashes, hangs in its shutdown, is restarted by its timer and
answers calls: with two operators at once, `restart` bypasses the startup lock
(`plugin-worker-manager.ts:1103`) and starts a second process, as TLC shows.  The last
one excludes upgrades that throw after the worker was stopped, which leave a ready row
without one.

`BaseInv` ties the requests a process has received to the tasks that await them: the
child of a handle is a process started for it, and a request that is pending is one of
a process that is there.  `SingleInv` adds that every live process is the child of its
handle (`LiveIsChild`); that a handle which is not registered, waits for its backoff or
is stopped has no process (`HandleOK`); and that from the shutdown to the kill the
operator has the handle with its timer cleared and `intentionalStop` set
(`OperatorOK`), so neither the exit nor a timer starts another process beside it.
`ReadyInv` adds that what an operation read of the row is still so when it writes
(`SeenOK`) and that a ready row without a worker is one an operation will still start
or mark (`WillEnd`).

### Plugin jobs

`PluginJobsProofs`, under `JobsAssumption`:

| Theorem | Statement |
|---|---|
| `TypeCorrect` | `Spec => []TypeOK` |
| `TickRunsJobOnce` | `Spec => []ScheduledOnce` |
| `TickKeepsLimit` | `Spec => []WithinLimit` |
| `NothingStranded` | `Spec => []WorkHasDispatch` |

`Inv` says that the tick has scheduled runs in flight only while it awaits them
(`OnlyWhileAwaited`), so a tick that selects starts from none, and the number it still
may start (`Slots`) is counted against what is in flight; that a manual request has its
row to itself until its dispatch begins (`TriggersOK`); that a live row without a
dispatch is one a request has just inserted (`RunsOK`); and that a mark is that of a
dispatch in flight (`MarksHeld`).  Calm steps begin and end no dispatch and set no mark.

### Only model-checked

Eight liveness properties: `RunningRunsEnd`, `QueuedRunsLeave`, `DeferredWakesLeave`,
`OperationsEnd`, `BackoffEnds`, `TicksEnd`, `LockIsReleased` and `UnusedStops`.  They
rest on fairness, which is about `ENABLED`, and that is out of the prover's reach.  The
invariants and action properties of the runs are all proved.  No definition of the
models is recursive, so no induction over data is left open.

### Not modelled

* Workflows and the hiring side of approvals: their transitions read a row, look at its
  status or not at all, and write by id.  `executeApprovedCase` looks for a linked issue
  or approval, creates one and then links it (`workflows.ts:507`), so two requests at
  once create one each, and a case that is done may be rejected;
  `requestRevision` and `resubmit` (`approvals.ts:190`, `:211`) may reopen an approval
  that was decided after they read it.  A model would restate these reads and writes,
  and "decided once" would be refuted in a step or two, so it adds little to the list
  of hazards.
* Row access, files, text, parsers and presentation (`PROJECT.json` gives the reason
  for each component): they keep no state that two calls must agree on.

## 5. The plan

Done, each with its theorems: the orchestrator (`RunStore`, `HeartbeatService`,
`RunQueue`), `PluginWorkers` and `PluginLifecycle`, `PluginJobs`, `IssueCheckout`,
`Budgets`, `Routines`, `WorkspaceRuntime`, `Documents`.  Next, in this order:

1. Proofs under weaker conditions, where TLC finds no counterexample first: `OneWorker`
   with a second operator that does not `restart`, `OneActiveRunPerIssue` with
   cancellations of runs that hold the lock.
2. The composition of `Budgets` with the orchestrator: `getInvocationBlock` and
   `cancelBudgetScopeWork` over its rows instead of a chosen `blocked`.
3. `Delegations`: one per idempotency key when two requests send the same one, and the
   transitions (claim, report, cancel), which write by id what they decided on a read.
4. Hazards left: the scoped SELECT and INSERT of a wakeup as two steps
   (`heartbeat.ts:3509`), a run that holds the locks of two issues (`:3000`), a
   statement that fails in the tail of `executeRun` (`:2847`), the check of a manual
   trigger against the tick (`plugin-job-scheduler.ts:462`).

New properties replace those that say least.
