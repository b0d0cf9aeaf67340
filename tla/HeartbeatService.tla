-------------------------- MODULE HeartbeatService --------------------------
(***************************************************************************)
(* The run orchestrator of the control plane, server/src/services/          *)
(* heartbeat.ts: who queues, claims, executes, finalizes, cancels, reaps    *)
(* and retries the runs of the agents.                                      *)
(*                                                                          *)
(* The server is one Node.js process.  Each call in progress is a task with *)
(* a program counter; a step of a task is the code between two awaits that  *)
(* matter, so tasks interleave at the database statements.  A run has at    *)
(* most one executor (task r), an agent at most one starter (task a, the    *)
(* holder of its start lock); a caller that awaits                          *)
(* startNextQueuedRunForAgent waits until the starter is idle, becomes its  *)
(* caller, and waits again until the starter is done with it.               *)
(***************************************************************************)
EXTENDS RunStore

CONSTANTS
    MaxConcurrent, \* heartbeat.maxConcurrentRuns of every agent
    Wakers,        \* concurrent calls of enqueueWakeup
    Cancellers,    \* concurrent calls of cancelRun
    Pausers,       \* concurrent requests that pause an agent and cancel its work
    Reapers,       \* overlapping ticks of reapOrphanedRuns
    Wakeups,       \* the kinds of outside wakeups: issue, comment, mention
    Editable,      \* issues whose status or assignee changes while runs exist
    Blockable,     \* agents a budget may block and unblock
    Resumable,     \* agents the board sends resume requests for
    MaxCrashes     \* bound: restarts of the server

(* Tasks are told apart: executors are runs, starters are agents.           *)
NoTask == 0
Tasks  == Runs \cup Agents \cup Wakers \cup Cancellers \cup Pausers \cup Reapers

ASSUME HeartbeatAssumption ==
    /\ MaxConcurrent \in 1 .. 10      \* normalizeMaxConcurrentRuns
    /\ Wakeups \subseteq [issue : Issues \cup {NoIssue}, comment : BOOLEAN,
                           mention : BOOLEAN]
    /\ Editable \subseteq Issues
    /\ Blockable \subseteq Agents
    /\ Resumable \subseteq Agents
    /\ MaxCrashes \in Nat
    /\ \A t \in Agents \cup Wakers \cup Cancellers \cup Pausers \cup Reapers :
            t \notin Nat /\ t # NoAgent
    /\ Agents \cap (Wakers \cup Cancellers \cup Pausers \cup Reapers) = {}
    /\ Wakers \cap (Cancellers \cup Pausers \cup Reapers) = {}
    /\ Cancellers \cap (Pausers \cup Reapers) = {}
    /\ Pausers \cap Reapers = {}

VARIABLES
    blocked,   \* agents for which budgets.getInvocationBlock returns a block
    active,    \* activeRunExecutions
    procs,     \* runningProcesses
    child,     \* runs whose child process is alive (survives the server)
    task,      \* the calls in progress
    booted,    \* the startup reap has begun since the last start
    crashes    \* restarts so far

memVars == <<blocked, active, procs, child, task, booted, crashes>>
vars    == <<dbVars, memVars>>

PCs == {"idle",
        "admitted", "merged",                               \* waker
        "start", "select", "claim", "claiming", "stamp",    \* starter
        "launched", "setup", "starting", "executing",       \* executor
        "mark", "cleanup",
        "cread", "cmark",                                   \* cancelRunInternal
        "scan", "sweep",                                    \* pauser
        "reap", "retry", "resume", "resumeWait",            \* reaper
        "release", "promote", "promoteWait",                \* shared tail
        "finread", "finwrite", "kick", "kickWait"}

(* A row as a SELECT returned it, used after awaits.                         *)
Rows   == [id : Runs, pid : BOOLEAN, detached : BOOLEAN]
Row(r) == [id |-> r, pid |-> runs[r].pid, detached |-> runs[r].detached]

(* run: the run the task works on; todo: rows it has yet to visit; got: runs *)
(* a starter has claimed; out: the outcome, later the agent status to write; *)
(* to: the agent a waker, pauser or promotion is about; caller: who awaits.  *)
TaskRecord == [pc : PCs, run : Runs \cup {NoRun}, todo : SUBSET Rows,
               got : SUBSET Runs, out : Terminal \cup AgentStatuses \cup {"none"},
               to : Agents \cup {NoAgent}, caller : Tasks \cup {NoTask}]

IdleTask == [pc |-> "idle", run |-> NoRun, todo |-> {}, got |-> {},
             out |-> "none", to |-> NoAgent, caller |-> NoTask]

TypeOK ==
    /\ StoreTypeOK
    /\ blocked \subseteq Agents
    /\ active \subseteq Runs
    /\ procs \subseteq Runs
    /\ child \subseteq Runs
    /\ task \in [Tasks -> TaskRecord]
    /\ booted \in BOOLEAN
    /\ crashes \in 0 .. MaxCrashes

Init ==
    /\ StoreInit
    /\ blocked = {}
    /\ active = {} /\ procs = {} /\ child = {}
    /\ task = [t \in Tasks |-> IdleTask]
    /\ booted = FALSE
    /\ crashes = 0

-----------------------------------------------------------------------------
(* Moving a task.                                                            *)

Idle(t)      == task[t].pc = "idle"
Goto(t, pc)  == task' = [task EXCEPT ![t].pc = pc]
Finish(t)    == task' = [task EXCEPT ![t] = IdleTask]
AgentOf(t)   == runs[task[t].run].agent

(* t awaits startNextQueuedRunForAgent(a): it enters the start lock of a when *)
(* the lock is free, which it never is if t itself runs under it.             *)
EnterStart(t, a, pc) ==
    /\ Idle(a)
    /\ task' = [task EXCEPT ![t].pc = pc,
                            ![a] = [IdleTask EXCEPT !.pc = "start", !.caller = t]]

(* The start that t awaits, under the lock of a, is over.                     *)
StartDone(t, a) == task[a].caller # t

(* Requests come once the server listens, which is after the SELECT of the    *)
(* startup reap; without reapers the scheduler is disabled.                   *)
Listening == booted \/ Reapers = {}

-----------------------------------------------------------------------------
(* enqueueWakeup.                                                            *)

(* The budget and agent checks at the top.                                   *)
WakeAdmit(w, a) ==
    /\ Idle(w) /\ Listening
    /\ a \notin blocked /\ Invokable(a)
    /\ task' = [task EXCEPT ![w].pc = "admitted", ![w].to = a]
    /\ UNCHANGED <<dbVars, blocked, active, procs, child, booted, crashes>>

(* The enqueueing itself.  A queued run is kicked; a deferred wakeup returns  *)
(* null, a coalesced one the run it was merged into.                          *)
WakeCommit(w) ==
    /\ task[w].pc = "admitted"
    /\ \E wake \in Wakeups, r \in Runs, kind \in {"queued", "coalesced", "deferred"} :
        /\ IF wake.issue # NoIssue /\ ~wake.mention
           THEN EnqueueIssueWake(task[w].to, wake.issue, wake.comment, kind, r)
           ELSE EnqueueScopedWake(task[w].to, wake.issue, wake.comment, kind, r)
        /\ task' = [task EXCEPT ![w] =
                CASE kind = "queued"    -> [IdleTask EXCEPT !.pc = "kick", !.run = r]
                  [] kind = "coalesced" -> [@ EXCEPT !.pc = "merged", !.run = r]
                  [] kind = "deferred"  -> IdleTask]
    /\ UNCHANGED <<blocked, active, procs, child, booted, crashes>>

WakeReturn(w) ==
    /\ task[w].pc = "merged"
    /\ Finish(w)
    /\ UNCHANGED <<dbVars, blocked, active, procs, child, booted, crashes>>

-----------------------------------------------------------------------------
(* startNextQueuedRunForAgent and claimQueuedRun, under the start lock of a. *)

(* Read the agent.                                                            *)
StartCheck(a) ==
    /\ task[a].pc = "start"
    /\ IF Invokable(a) THEN Goto(a, "select") ELSE Finish(a)
    /\ UNCHANGED <<dbVars, blocked, active, procs, child, booted, crashes>>

SlotsUncounted(a) == MaxConcurrent
Slots(a)          == MaxConcurrent - Cardinality(RunningRuns(a))

(* Count its running runs, select the oldest queued ones.                     *)
StartSelect(a) ==
    /\ task[a].pc = "select"
    /\ IF Slots(a) > 0 /\ QueuedRuns(a) # {}
       THEN \E batch \in OldestOf(QueuedRuns(a), Slots(a)) :
                task' = [task EXCEPT ![a].pc = "claim",
                                     ![a].todo = {Row(r) : r \in batch}]
       ELSE Finish(a)
    /\ UNCHANGED <<dbVars, blocked, active, procs, child, booted, crashes>>

MayStartPaused(a) == a \notin blocked
MayStart(a)       == Invokable(a) /\ a \notin blocked

(* Take the next row; re-read the agent and its budget; a run that may not    *)
(* start is cancelled here, inside the lock.                                  *)
ClaimRead(a) ==
    /\ task[a].pc = "claim"
    /\ \E row \in task[a].todo :
        /\ \A q \in task[a].todo : row.id <= q.id
        /\ task' = [task EXCEPT ![a].todo = @ \ {row}, ![a].run = row.id,
                        ![a].pc = IF MayStart(a) THEN "claiming" ELSE "cread"]
    /\ UNCHANGED <<dbVars, blocked, active, procs, child, booted, crashes>>

(* The conditional UPDATE queued -> running.                                  *)
ClaimUpdate(a) ==
    LET r == task[a].run IN
    /\ task[a].pc = "claiming"
    /\ IF MayClaim(r)
       THEN /\ SetClaimed(r)
            /\ task' = [task EXCEPT ![a].pc = "stamp", ![a].got = @ \cup {r}]
       ELSE /\ Goto(a, "claim")
            /\ UNCHANGED runs
    /\ UNCHANGED <<created, lock, lockKey, deferred, agentStatus>>
    /\ UNCHANGED <<blocked, active, procs, child, booted, crashes>>

(* "Fix A": the lock of the issue, in a statement of its own.                 *)
ClaimStamp(a) ==
    /\ task[a].pc = "stamp"
    /\ StampLock(task[a].run)
    /\ Goto(a, "claim")
    /\ UNCHANGED <<blocked, active, procs, child, booted, crashes>>

(* Every row visited: launch an executor for each claimed run and leave.      *)
Launch(a) ==
    /\ task[a].pc = "claim" /\ task[a].todo = {}
    /\ task' = [t \in Tasks |->
                    IF t = a THEN IdleTask
                    ELSE IF t \in task[a].got
                         THEN [IdleTask EXCEPT !.pc = "launched", !.run = t]
                         ELSE task[t]]
    /\ UNCHANGED <<dbVars, blocked, active, procs, child, booted, crashes>>

-----------------------------------------------------------------------------
(* executeRun, for the run r.                                                *)

ExecBegin(r) ==
    /\ task[r].pc = "launched"
    /\ IF Active(r)
       THEN active' = active \cup {r} /\ Goto(r, "setup")
       ELSE UNCHANGED active /\ Finish(r)
    /\ UNCHANGED <<dbVars, blocked, procs, child, booted, crashes>>

(* Setup ends with the unconditional UPDATE of the agent to running.          *)
ExecPrepare(r) ==
    /\ task[r].pc = "setup"
    /\ agentStatus' = [agentStatus EXCEPT ![runs[r].agent] = "running"]
    /\ Goto(r, "starting")
    /\ UNCHANGED <<runs, created, lock, lockKey, deferred>>
    /\ UNCHANGED <<blocked, active, procs, child, booted, crashes>>

(* adapter.execute; a local adapter spawns the child of the run.              *)
ExecSpawn(r) ==
    /\ task[r].pc = "starting"
    /\ IF runs[r].agent \in LocalAgents
       THEN procs' = procs \cup {r} /\ child' = child \cup {r}
       ELSE UNCHANGED <<procs, child>>
    /\ Goto(r, "executing")
    /\ UNCHANGED <<dbVars, blocked, active, booted, crashes>>

(* onSpawn is not awaited: the pid may reach the row late or never.           *)
PersistPid(r) ==
    /\ task[r].pc = "executing" /\ runs[r].agent \in LocalAgents
    /\ runs' = [runs EXCEPT ![r].pid = TRUE]
    /\ UNCHANGED <<created, lock, lockKey, deferred, agentStatus, memVars>>

(* adapter.execute settles when its child has closed.                         *)
AdapterReturnsEarly(r) == TRUE
AdapterSettled(r)      == r \notin child

(* The adapter has returned: the outcome, from a fresh read of the run.       *)
ExecReturn(r) ==
    /\ task[r].pc = "executing" /\ AdapterSettled(r)
    /\ \E out \in IF runs[r].status = "cancelled" THEN {"cancelled"}
                  ELSE {"succeeded", "failed"} :
            task' = [task EXCEPT ![r].pc = "mark", ![r].out = out]
    /\ UNCHANGED <<dbVars, blocked, active, procs, child, booted, crashes>>

(* Setup or the adapter threw: failed, without looking at the run.            *)
ExecThrow(r) ==
    /\ task[r].pc \in {"setup", "starting", "executing"} /\ AdapterSettled(r)
    /\ task' = [task EXCEPT ![r].pc = "mark", ![r].out = "failed"]
    /\ UNCHANGED <<dbVars, blocked, active, procs, child, booted, crashes>>

ExecMark(r) ==
    /\ task[r].pc = "mark"
    /\ SetRunStatus(r, task[r].out)
    /\ Goto(r, "release")
    /\ UNCHANGED <<created, lock, lockKey, deferred, agentStatus>>
    /\ UNCHANGED <<blocked, active, procs, child, booted, crashes>>

(* The finally block.                                                         *)
ExecCleanup(r) ==
    /\ task[r].pc = "cleanup"
    /\ active' = active \ {r}
    /\ Goto(r, "kick")
    /\ UNCHANGED <<dbVars, blocked, procs, child, booted, crashes>>

-----------------------------------------------------------------------------
(* The tail that executors, cancellations and reapers share.                 *)

(* Where a task goes on after releaseIssueExecutionAndPromote: a sweep has    *)
(* nothing else to do for the run, the others finalize the agent.             *)
AfterRelease(t) == IF t \in Pausers THEN "sweep" ELSE "finread"

Release(t) ==
    /\ task[t].pc = "release"
    /\ \E to \in Agents \cup {NoAgent} :
        /\ ReleaseAndPromote(task[t].run, to)
        /\ task' = [task EXCEPT ![t].pc = IF to = NoAgent THEN AfterRelease(t)
                                          ELSE "promote",
                                ![t].to = to]
    /\ UNCHANGED <<blocked, active, procs, child, booted, crashes>>

(* ... and awaits the start of the promoted agent.                            *)
PromoteStart(t) ==
    /\ task[t].pc = "promote"
    /\ EnterStart(t, task[t].to, "promoteWait")
    /\ UNCHANGED <<dbVars, blocked, active, procs, child, booted, crashes>>

PromoteDone(t) ==
    /\ task[t].pc = "promoteWait" /\ StartDone(t, task[t].to)
    /\ Goto(t, AfterRelease(t))
    /\ UNCHANGED <<dbVars, blocked, active, procs, child, booted, crashes>>

AfterFinalize(t) == IF t \in Runs THEN "cleanup" ELSE "kick"

(* finalizeAgentStatus, its reads; cancelRunInternal forgets the process      *)
(* handle just before.                                                        *)
FinalizeRead(t) ==
    LET a    == AgentOf(t)
        next == IF RunningRuns(a) # {} THEN "running"
                ELSE IF task[t].out = "failed" THEN "error" ELSE "idle"
    IN
    /\ task[t].pc = "finread"
    /\ procs' = IF t \in Cancellers \cup Agents THEN procs \ {task[t].run} ELSE procs
    /\ IF agentStatus[a] = "paused"
       THEN Goto(t, AfterFinalize(t))
       ELSE task' = [task EXCEPT ![t].pc = "finwrite", ![t].out = next]
    /\ UNCHANGED <<dbVars, blocked, active, child, booted, crashes>>

(* ... and its unconditional UPDATE.                                          *)
FinalizeWrite(t) ==
    /\ task[t].pc = "finwrite"
    /\ agentStatus' = [agentStatus EXCEPT ![AgentOf(t)] = task[t].out]
    /\ Goto(t, AfterFinalize(t))
    /\ UNCHANGED <<runs, created, lock, lockKey, deferred>>
    /\ UNCHANGED <<blocked, active, procs, child, booted, crashes>>

(* await startNextQueuedRunForAgent(run.agentId): the last await of most      *)
(* calls, so only starters and reapers have something to wait for.            *)
Waits(t) == t \in Agents \cup Reapers

Kick(t) ==
    LET a == AgentOf(t) IN
    /\ task[t].pc = "kick"
    /\ IF Waits(t) THEN EnterStart(t, a, "kickWait")
       ELSE /\ Idle(a)
            /\ task' = [task EXCEPT ![t] = IdleTask,
                                    ![a] = [IdleTask EXCEPT !.pc = "start"]]
    /\ UNCHANGED <<dbVars, blocked, active, procs, child, booted, crashes>>

KickDone(t) ==
    /\ task[t].pc = "kickWait" /\ StartDone(t, AgentOf(t))
    /\ Goto(t, IF t \in Agents THEN "claim" ELSE "reap")
    /\ procs' = IF t \in Reapers THEN procs \ {task[t].run} ELSE procs
    /\ UNCHANGED <<dbVars, blocked, active, child, booted, crashes>>

-----------------------------------------------------------------------------
(* cancelRunInternal, by a request or by a starter; and the sweep of         *)
(* cancelActiveForAgentInternal.  SIGTERM only makes ChildExit happen sooner. *)

CancelRequest(c, r) ==
    /\ Idle(c) /\ Listening /\ Active(r)
    /\ task' = [task EXCEPT ![c].pc = "cmark", ![c].run = r]
    /\ UNCHANGED <<dbVars, blocked, active, procs, child, booted, crashes>>

CancelRead(a) ==
    /\ task[a].pc = "cread"
    /\ Goto(a, IF Active(task[a].run) THEN "cmark" ELSE "claim")
    /\ UNCHANGED <<dbVars, blocked, active, procs, child, booted, crashes>>

CancelMark(t) ==
    /\ task[t].pc = "cmark"
    /\ SetRunStatus(task[t].run, "cancelled")
    /\ task' = [task EXCEPT ![t].pc = "release", ![t].out = "cancelled"]
    /\ UNCHANGED <<created, lock, lockKey, deferred, agentStatus>>
    /\ UNCHANGED <<blocked, active, procs, child, booted, crashes>>

(* The pause request: agents.pause, then cancelActiveForAgent.                *)
Pause(p, a) ==
    /\ Idle(p) /\ Listening
    /\ agentStatus' = [agentStatus EXCEPT ![a] = "paused"]
    /\ task' = [task EXCEPT ![p].pc = "scan", ![p].to = a]
    /\ UNCHANGED <<runs, created, lock, lockKey, deferred>>
    /\ UNCHANGED <<blocked, active, procs, child, booted, crashes>>

SweepScan(p) ==
    /\ task[p].pc = "scan"
    /\ task' = [task EXCEPT ![p].pc = "sweep",
                            ![p].todo = {Row(r) : r \in ActiveRuns(task[p].to)}]
    /\ UNCHANGED <<dbVars, blocked, active, procs, child, booted, crashes>>

(* One run of the snapshot, whatever its status is by now.                    *)
SweepMark(p) ==
    /\ task[p].pc = "sweep"
    /\ \E row \in task[p].todo :
        /\ SetRunStatus(row.id, "cancelled")
        /\ procs' = procs \ {row.id}
        /\ task' = [task EXCEPT ![p].pc = "release", ![p].run = row.id,
                                ![p].todo = @ \ {row}]
    /\ UNCHANGED <<created, lock, lockKey, deferred, agentStatus>>
    /\ UNCHANGED <<blocked, active, child, booted, crashes>>

SweepDone(p) ==
    /\ task[p].pc = "sweep" /\ task[p].todo = {}
    /\ Finish(p)
    /\ UNCHANGED <<dbVars, blocked, active, procs, child, booted, crashes>>

(* The resume request: agents.resume, whatever the agent does.                *)
ResumeAgent(a) ==
    /\ Listening
    /\ agentStatus' = [agentStatus EXCEPT ![a] = "idle"]
    /\ UNCHANGED <<runs, created, lock, lockKey, deferred, memVars>>

-----------------------------------------------------------------------------
(* reapOrphanedRuns, then resumeQueuedRuns.                                  *)

RowsOf(status) == {Row(r) : r \in {q \in Runs : runs[q].status = status}}

UndetachedRows == {row \in RowsOf("running") : ~row.detached}
RunningRows    == RowsOf("running")

NoQueuedRows == {}
QueuedRows   == RowsOf("queued")

(* Claimed moments ago: no executor yet, far younger than the threshold.      *)
JustClaimed(r) == task[r].pc = "launched" \/ \E a \in Agents : r \in task[a].got

(* The reap at server start has no staleness threshold.                       *)
StartupScan(k) ==
    /\ Idle(k) /\ ~booted
    /\ booted' = TRUE
    /\ task' = [task EXCEPT ![k].pc = "reap", ![k].todo = RunningRows]
    /\ UNCHANGED <<dbVars, blocked, active, procs, child, crashes>>

(* A tick skips the rows updated in the last five minutes: any of them.       *)
PeriodicScan(k, fresh) ==
    /\ Idle(k) /\ booted
    /\ task' = [task EXCEPT ![k].pc = "reap",
                    ![k].todo = {row \in RunningRows : row.id \notin fresh
                                                       /\ ~JustClaimed(row.id)}]
    /\ UNCHANGED <<dbVars, blocked, active, procs, child, booted, crashes>>

(* The reaper leaves alone what this process has in its hands.                *)
HasHandle(r) == r \in procs
InUse(r)     == r \in procs \cup active

(* The run had a local child: its pid is in the row.                          *)
Tracked(row) == runs[row.id].agent \in LocalAgents /\ row.pid

MayRetryTwice(row) == Tracked(row) /\ runs[row.id].retries < 2
MayRetry(row)      == Tracked(row) /\ runs[row.id].retries < 1

(* One row of the snapshot: skipped, marked detached, or failed.              *)
ReapRow(k) ==
    /\ task[k].pc = "reap"
    /\ \E row \in task[k].todo :
        LET r    == row.id
            skip == [task EXCEPT ![k].todo = @ \ {row}]
        IN \/ /\ InUse(r)
              /\ task' = skip
              /\ UNCHANGED runs
           \/ /\ ~InUse(r) /\ Tracked(row) /\ r \in child
              /\ task' = skip
              /\ IF row.detached THEN UNCHANGED runs ELSE MarkDetached(r)
           \/ /\ ~InUse(r) /\ ~(Tracked(row) /\ r \in child)
              /\ SetRunStatus(r, "failed")
              /\ task' = [skip EXCEPT ![k].run = r, ![k].out = "failed",
                              ![k].pc = IF MayRetry(row) THEN "retry" ELSE "release"]
    /\ UNCHANGED <<created, lock, lockKey, deferred, agentStatus>>
    /\ UNCHANGED <<blocked, active, procs, child, booted, crashes>>

Retry(k) ==
    /\ task[k].pc = "retry"
    /\ EnqueueProcessLossRetry(task[k].run)
    /\ Goto(k, "finread")
    /\ UNCHANGED <<blocked, active, procs, child, booted, crashes>>

(* The loop is over: resumeQueuedRuns selects the agents with queued runs.    *)
ReapDone(k) ==
    /\ task[k].pc = "reap" /\ task[k].todo = {}
    /\ task' = [task EXCEPT ![k] = [IdleTask EXCEPT !.pc = "resume",
                    !.todo = QueuedRows]]
    /\ UNCHANGED <<dbVars, blocked, active, procs, child, booted, crashes>>

(* ... and awaits a start for each of them in turn.                           *)
ResumeNext(k) ==
    /\ task[k].pc = "resume"
    /\ \E row \in task[k].todo :
        LET a == runs[row.id].agent IN
        /\ Idle(a)
        /\ task' = [task EXCEPT
                ![k].pc = "resumeWait", ![k].to = a,
                ![k].todo = {q \in @ : runs[q.id].agent # a},
                ![a] = [IdleTask EXCEPT !.pc = "start", !.caller = k]]
    /\ UNCHANGED <<dbVars, blocked, active, procs, child, booted, crashes>>

ResumeWait(k) ==
    /\ task[k].pc = "resumeWait" /\ StartDone(k, task[k].to)
    /\ Goto(k, "resume")
    /\ UNCHANGED <<dbVars, blocked, active, procs, child, booted, crashes>>

ResumeDone(k) ==
    /\ task[k].pc = "resume" /\ task[k].todo = {}
    /\ Finish(k)
    /\ UNCHANGED <<dbVars, blocked, active, procs, child, booted, crashes>>

-----------------------------------------------------------------------------
(* The surroundings.                                                         *)

(* A child ends, by itself or by a signal; a live server sees its close.      *)
ChildExit(r) ==
    /\ r \in child
    /\ child' = child \ {r}
    /\ procs' = procs \ {r}
    /\ UNCHANGED <<dbVars, blocked, active, task, booted, crashes>>

(* clearDetachedRunWarning: a detached child calls an issue route.            *)
ReportActivity(r) ==
    /\ Listening /\ r \in child
    /\ runs[r].status = "running" /\ runs[r].detached
    /\ runs' = [runs EXCEPT ![r].detached = FALSE]
    /\ UNCHANGED <<created, lock, lockKey, deferred, agentStatus, memVars>>

EditIssue(i) == Listening /\ UpdateIssueClearsLock(i) /\ UNCHANGED memVars

(* A budget of the agent, its company or its project starts or stops blocking. *)
ToggleBlock(a) ==
    /\ blocked' = IF a \in blocked THEN blocked \ {a} ELSE blocked \cup {a}
    /\ UNCHANGED <<dbVars, active, procs, child, task, booted, crashes>>

(* The server stops and starts: the calls in progress are lost, the rows and   *)
(* the children remain.                                                        *)
Crash ==
    /\ crashes < MaxCrashes
    /\ crashes' = crashes + 1
    /\ active' = {} /\ procs' = {}
    /\ task' = [t \in Tasks |-> IdleTask]
    /\ booted' = FALSE
    /\ UNCHANGED <<dbVars, blocked, child>>

-----------------------------------------------------------------------------
WakerStep(w)   == WakeCommit(w) \/ WakeReturn(w) \/ Kick(w)

TailStep(t)    == \/ Release(t) \/ PromoteStart(t) \/ PromoteDone(t)
                  \/ FinalizeRead(t) \/ FinalizeWrite(t) \/ Kick(t) \/ KickDone(t)

StarterStep(a) == \/ StartCheck(a) \/ StartSelect(a) \/ ClaimRead(a) 
                  \/ ClaimUpdate(a) \/ ClaimStamp(a) \/ Launch(a)
                  \/ CancelRead(a) \/ CancelMark(a) \/ TailStep(a)

ExecutorStep(r) == \/ ExecBegin(r) \/ ExecPrepare(r) \/ ExecSpawn(r)
                   \/ ExecReturn(r) \/ ExecThrow(r) \/ ExecMark(r)
                   \/ ExecCleanup(r) \/ TailStep(r)

CancellerStep(c) == CancelMark(c) \/ TailStep(c)

PauserStep(p) == \/ SweepScan(p) \/ SweepMark(p) \/ SweepDone(p)
                 \/ Release(p) \/ PromoteStart(p) \/ PromoteDone(p)

ReaperStep(k) == \/ StartupScan(k) \/ ReapRow(k) \/ Retry(k) \/ ReapDone(k)
                 \/ ResumeNext(k) \/ ResumeWait(k) \/ ResumeDone(k) \/ TailStep(k)

EnvironmentStep ==
    \/ \E w \in Wakers, a \in Agents : WakeAdmit(w, a)
    \/ \E c \in Cancellers, r \in Runs : CancelRequest(c, r)
    \/ \E p \in Pausers, a \in Agents : Pause(p, a)
    \/ \E k \in Reapers, fresh \in SUBSET Runs : PeriodicScan(k, fresh)
    \/ \E a \in Resumable : ResumeAgent(a)
    \/ \E a \in Blockable : ToggleBlock(a)
    \/ \E i \in Editable : EditIssue(i)
    \/ \E r \in Runs : PersistPid(r) \/ ChildExit(r) \/ ReportActivity(r)
    \/ Crash

Next ==
    \/ \E w \in Wakers : WakerStep(w)
    \/ \E a \in Agents : StarterStep(a)
    \/ \E r \in Runs : ExecutorStep(r)
    \/ \E c \in Cancellers : CancellerStep(c)
    \/ \E p \in Pausers : PauserStep(p)
    \/ \E k \in Reapers : ReaperStep(k)
    \/ EnvironmentStep

Spec == Init /\ [][Next]_vars

-----------------------------------------------------------------------------
(* Fairness: the event loop runs every call in progress whose await can       *)
(* settle, children end (timeouts kill them), and the interval timer keeps    *)
(* ticking until no row is younger than the threshold.                        *)
Fairness ==
    /\ \A w \in Wakers : WF_vars(WakerStep(w))
    /\ \A a \in Agents : WF_vars(StarterStep(a))
    /\ \A r \in Runs : WF_vars(ExecutorStep(r)) /\ WF_vars(ChildExit(r))
    /\ \A c \in Cancellers : WF_vars(CancellerStep(c))
    /\ \A p \in Pausers : WF_vars(PauserStep(p))
    /\ \A k \in Reapers : WF_vars(ReaperStep(k)) /\ SF_vars(PeriodicScan(k, {}))

FairSpec == Spec /\ Fairness

-----------------------------------------------------------------------------
(* Safety.                                                                   *)

(* No agent has more runs in status running than maxConcurrentRuns, whatever  *)
(* starters, cancellations and promotions interleave (startNextQueuedRun-     *)
(* ForAgent counts once and claims several times).                            *)
RunningWithinLimit ==
    \A a \in Agents : Cardinality(RunningRuns(a)) <= MaxConcurrent

(* A run is launched once: what a starter has claimed has no executor yet and *)
(* no other starter has it, and a queued run has neither (claimQueuedRun).    *)
LaunchedOnce ==
    /\ \A a \in Agents : \A r \in task[a].got : Idle(r) /\ r \notin active
    /\ \A a, b \in Agents : a # b => task[a].got \cap task[b].got = {}
    /\ \A r \in Runs : runs[r].status \in {"absent", "queued"} =>
            /\ Idle(r) /\ r \notin active
            /\ \A a \in Agents : r \notin task[a].got

(* While the server has not restarted, every live child has its executor and  *)
(* every process handle a live child: no orphan, whatever is cancelled.       *)
ChildHasExecutor == crashes = 0 => procs \subseteq child /\ child \subseteq active

(* A run of a paused agent that still counts as running is yet to be visited   *)
(* by a sweep: no claim slips past cancelActiveForAgent, although the starter  *)
(* read the agent before it was paused.                                        *)
PausedIsSwept ==
    \A r \in Runs :
        runs[r].status = "running" /\ ~Invokable(runs[r].agent) =>
            \E p \in Pausers :
                \/ task[p].pc = "scan" /\ task[p].to = runs[r].agent
                \/ \E row \in task[p].todo : row.id = r

(* An issue has at most one run that is queued or running (the orchestration  *)
(* plan's acceptance criterion 1).                                            *)
OneActiveRunPerIssue ==
    \A r, q \in Runs : Active(r) /\ Active(q) /\ runs[r].issue = runs[q].issue
                       /\ runs[r].issue # NoIssue => r = q

(* A deferred wakeup waits for something: an active run on its issue, or the  *)
(* release of the run that holds the lock (the plan's rule B).                *)
DeferredHasOwner ==
    \A i \in Issues : deferred[i] # <<>> =>
        \/ \E r \in Runs : Active(r) /\ runs[r].issue = i
        \/ \E t \in Tasks : task[t].pc = "release" /\ lock[i] = task[t].run

(* A wakeup is only merged into a run of the agent it was meant for: wakeups   *)
(* of another agent are deferred (the plan's rules A and B).                   *)
CoalescedIntoOwnRun ==
    \A w \in Wakers : task[w].pc = "merged" => AgentOf(w) = task[w].to

(* A lost run is retried at most once, and a retry is never retried.           *)
RetriedOnce ==
    \A r \in Runs : runs[r].retryOf # NoRun =>
        /\ runs[runs[r].retryOf].retryOf = NoRun
        /\ \A q \in Runs : runs[q].retryOf = runs[r].retryOf => q = r

(* What the reaper fails is not being executed, and what it retries has no     *)
(* child left: its snapshot is old, its checks are not.                        *)
ReaperSparesLiveRuns ==
    \A k \in Reapers :
        /\ task[k].pc \in {"retry", "release"} => task[k].run \notin active
        /\ task[k].pc = "retry" => task[k].run \notin child

(* A paused agent leaves that state only when somebody resumes it.            *)
PauseSticks ==
    [][\A a \in Agents : agentStatus[a] = "paused" /\ agentStatus'[a] # "paused"
            => ResumeAgent(a)]_vars

(* A run that ended keeps the status it ended with.                           *)
TerminalIsFinal ==
    [][\A r \in Runs : runs[r].status \in Terminal
            => runs'[r].status = runs[r].status]_vars

(* A child is only spawned for a run that is still running: cancelling a run,  *)
(* or pausing its agent, before the spawn prevents it.                         *)
SpawnedWhileRunning ==
    [][\A r \in child' \ child : runs[r].status = "running"]_vars

(* The orchestrator implements the abstract queue of runs.                    *)
Queue == INSTANCE RunQueue WITH
    Limit <- MaxConcurrent,
    phase <- [r \in Runs |->
                CASE runs[r].status = "absent"  -> "none"
                  [] runs[r].status = "queued"  -> "waiting"
                  [] runs[r].status = "running" -> "running"
                  [] OTHER                      -> "over"],
    owner <- [r \in Runs |-> runs[r].agent]

ImplementsQueue == Queue!Spec

-----------------------------------------------------------------------------
(* Liveness, under FairSpec.                                                 *)

(* Queued work is driven forward: a queued run is claimed or cancelled.        *)
QueuedRunsLeave ==
    \A r \in Runs : runs[r].status = "queued" ~> runs[r].status # "queued"

(* A running run ends, also when the server restarts in the middle of it.      *)
RunningRunsEnd ==
    \A r \in Runs : runs[r].status = "running" ~> runs[r].status \in Terminal

(* A deferred wakeup is promoted or given up; it does not wait forever.        *)
DeferredWakesLeave ==
    \A i \in Issues, a \in Agents : Deferred(i, a) ~> ~Deferred(i, a)
=============================================================================
