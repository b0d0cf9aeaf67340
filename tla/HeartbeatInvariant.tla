------------------------- MODULE HeartbeatInvariant -------------------------
(***************************************************************************)
(* The inductive invariants of HeartbeatService: Inv, about limits, launches  *)
(* and sweeps; ReaperInv, about retries; and IssueInv, KeysInv and OwnersInv,  *)
(* about the lock of an issue.  With them, the steps that keep each for a     *)
(* reason they share.  Nearly every action is calm: it changes the rows as    *)
(* RowsCalm allows, and every task it moves fits (Fits).  A calm step keeps   *)
(* each part of Inv; HeartbeatServiceProofs shows that once, then that the    *)
(* actions are calm, and that the three that are not (a successful claim, a   *)
(* launch, a restart) keep Inv too.  Mild and plain steps do the same for     *)
(* the other invariants.                                                     *)
(***************************************************************************)
EXTENDS HeartbeatService

(* What the rows look like, and how the statements other than the claim may   *)
(* change them.                                                              *)

(* The rows 1 .. created exist and belong to an agent; no other row exists.  *)
RowsNumbered ==
    \A r \in Runs :
        /\ r <= created => runs[r].status # "absent" /\ runs[r].agent \in Agents
        /\ created < r => runs[r].status = "absent"

(* At most one row is inserted, queued, or updated; a row never changes its   *)
(* agent, and its status only to a terminal one (or, if lax, to running).    *)
RowsCalm(lax) ==
    /\ created' \in {created, created + 1}
    /\ \A r \in Runs :
        /\ r <= created =>
            /\ runs'[r].agent = runs[r].agent
            /\ \/ runs'[r].status = runs[r].status
               \/ runs'[r].status \in Terminal
               \/ lax /\ runs'[r].status = "running"
        /\ created < r /\ r <= created' =>
            runs'[r].status = "queued" /\ runs'[r].agent \in Agents
        /\ created' < r => runs'[r] = runs[r]
    /\ \A q, r \in Runs : runs'[q] # runs[q] /\ runs'[r] # runs[r] => q = r

-----------------------------------------------------------------------------
(* The program counters at which the field run means nothing.                *)
NoRunPCs == {"idle", "admitted", "start", "select", "claim", "scan", "sweep",
             "reap", "resume", "resumeWait"}

(* The record of a task, with what its program counter says of its fields.   *)
TaskOK ==
    {x \in TaskRecord :
        /\ x.pc \notin NoRunPCs => x.run \in Runs
        /\ x.pc \in {"admitted", "promote"} => x.to \in Agents
        /\ x.pc = "mark" => x.out \in Terminal
        /\ x.pc = "finwrite" => x.out \in AgentStatuses \ {"paused"}
        /\ x.pc \in {"idle", "scan"} => x.todo = {}}

TypeInv == TypeOK /\ task \in [Tasks -> TaskOK]

(* Every run a task knows of has been inserted.                              *)
Numbered ==
    /\ RowsNumbered
    /\ \A t \in Tasks : /\ task[t].run <= created
                        /\ \A row \in task[t].todo : row.id <= created

(* LaunchedOnce, and where the executor of a run may be.                     *)
Launching ==
    /\ \A r \in active : task[r].pc \notin {"idle", "launched", "kick"}
    /\ \A r \in Runs : task[r].pc \in {"setup", "starting"} => r \in active
    /\ \A a \in Agents : \A r \in task[a].got : Idle(r)
    /\ \A a, b \in Agents : a # b => task[a].got \cap task[b].got = {}
    /\ \A r \in Runs : runs[r].status \in {"absent", "queued"} =>
            Idle(r) /\ \A a \in Agents : r \notin task[a].got

(* ChildHasExecutor, and what the executor of a live child does.             *)
Children ==
    /\ procs \subseteq child
    /\ crashes = 0 => \A r \in child : r \in active /\ task[r].pc = "executing"

(* The runs a starter has yet to claim are its own, and there is room for     *)
(* all of them: RunningWithinLimit, with the claims to come counted.         *)
Claims(x) == Cardinality(x.todo) + (IF x.pc = "claiming" THEN 1 ELSE 0)

OwnClaims(a, x, rows) ==
    /\ IsFiniteSet(x.todo)
    /\ \A row \in x.todo : rows[row.id].agent = a
    /\ x.pc = "claiming" => rows[x.run].agent = a

SlotsHold ==
    crashes = 0 => \A a \in Agents :
        /\ OwnClaims(a, task[a], runs)
        /\ Cardinality(RunningRuns(a)) + Claims(task[a]) <= MaxConcurrent

(* PausedIsSwept, for the runs about to be claimed too.                      *)
Covers(x, r) ==
    \/ x.pc = "scan" /\ x.to = runs[r].agent
    \/ \E row \in x.todo : row.id = r

Claiming(r) == \E a \in Agents : task[a].pc = "claiming" /\ task[a].run = r

SweepHolds ==
    crashes = 0 => \A r \in Runs :
        /\ runs[r].status = "running" \/ (runs[r].status = "queued" /\ Claiming(r))
        /\ ~Invokable(runs[r].agent)
        => \E p \in Pausers : Covers(task[p], r)

(* The inductive invariant.                                                  *)
Inv == TypeInv /\ Numbered /\ Launching /\ Children /\ SlotsHold /\ SweepHolds

-----------------------------------------------------------------------------
(* Calm steps.                                                               *)

(* What a calm step may do to an executor r, whose record becomes y.         *)
RunFits(r, y) ==
    /\ task[r].pc # "idle" /\ y.pc # "launched"
    /\ y.pc \in {"idle", "kick"} => r \notin active'
    /\ y.pc \in {"setup", "starting"} => r \in active'
    /\ crashes = 0 /\ r \in child' => r \in active' /\ y.pc = "executing"

(* ... to a starter: it takes no work of others and no more than fits.       *)
SlotFits(a, y) ==
    crashes = 0 =>
        /\ OwnClaims(a, y, runs')
        /\ y.pc = "claiming" => agentStatus'[a] # "paused"
        /\ \/ Claims(y) <= Claims(task[a])
           \/ Cardinality(RunningRuns(a)) + Claims(y) <= MaxConcurrent

(* ... to a pauser: it drops a run only when the run has ended.              *)
SweepFits(p, y) ==
    \A r \in Runs : Active(r) /\ Covers(task[p], r)
                    => Covers(y, r) \/ runs'[r].status \in Terminal

Fits(t, y) ==
    /\ y \in TaskOK
    /\ y.run <= created' /\ \A row \in y.todo : row.id <= created'
    /\ y.got \subseteq task[t].got
    /\ t \in Runs => RunFits(t, y)
    /\ t \in Agents => SlotFits(t, y)
    /\ t \in Pausers => SweepFits(t, y)

(* An agent is only paused by a pauser that then sweeps its runs.            *)
PauseCalm ==
    \A a \in Agents : agentStatus'[a] = "paused" =>
        \/ agentStatus[a] = "paused"
        \/ \E p \in Pausers : task'[p].pc = "scan" /\ task'[p].to = a

(* The memory: what is not about the task that moves stays.                  *)
MemCalm ==
    /\ blocked' \subseteq Agents
    /\ active' \subseteq Runs
    /\ child' \subseteq Runs
    /\ procs' \subseteq child'
    /\ booted' \in BOOLEAN
    /\ crashes' = crashes
    /\ \A r \in Runs : task'[r] = task[r] =>
            (r \in active' <=> r \in active) /\ (r \in child' => r \in child)

Calm ==
    /\ StoreTypeOK' /\ RowsCalm(crashes # 0)
    /\ PauseCalm
    /\ MemCalm
    /\ task' = [t \in Tasks |-> task'[t]]
    /\ \A t \in Tasks : task'[t] = task[t] \/ Fits(t, task'[t])

-----------------------------------------------------------------------------
(* The reaper, when its ticks do not overlap: what it fails is in nobody's    *)
(* hands, and what it retries has not been retried.                          *)

Retried(r) == \E q \in Runs : runs[q].retryOf = r

(* A retry is of a run that ended and was no retry, and of one that has no    *)
(* other retry.                                                              *)
RetryRows ==
    \A r \in Runs :
        IF runs[r].retryOf = NoRun THEN runs[r].retries = 0
        ELSE /\ runs[r].retries > 0
             /\ runs[r].retryOf <= created
             /\ runs[runs[r].retryOf].retries = 0
             /\ runs[runs[r].retryOf].status \in Terminal
             /\ \A q \in Runs : runs[q].retryOf = runs[r].retryOf => q = r

(* The snapshot names a run once and none that was retried; the run being     *)
(* reaped has ended, and no executor takes it up again.                      *)
Reaping(k) ==
    LET y == task[k] IN
    /\ \A p, q \in y.todo : p.id = q.id => p = q
    /\ \A row \in y.todo : ~Retried(row.id)
    /\ y.pc \in {"retry", "release"} =>
          /\ runs[y.run].status \in Terminal /\ y.run \notin active
          /\ \A row \in y.todo : row.id # y.run
    /\ y.pc = "retry" => y.run \notin child /\ runs[y.run].retries = 0 /\ ~Retried(y.run)

ReaperInv == RetryRows /\ \A k \in Reapers : Reaping(k)

(* The steps that keep ReaperInv because they neither revive a run that       *)
(* ended, nor retry one, nor reap one.                                       *)
RowsMild ==
    \A r \in Runs :
        /\ \/ runs'[r].retryOf = runs[r].retryOf /\ runs'[r].retries = runs[r].retries
           \/ runs'[r].retryOf = NoRun /\ runs'[r].retries = 0
        /\ runs[r].status \in Terminal => runs'[r].status \in Terminal

ProcsMild == (\A r \in active' \ active : Active(r)) /\ child' \subseteq child \cup active

TasksMild ==
    \A k \in Reapers :
        \/ task'[k] = task[k]
        \/ task'[k].todo \subseteq task[k].todo /\ task'[k].pc \notin {"retry", "release"}

Mild == RowsMild /\ ProcsMild /\ TasksMild

(* Most moves of a task are plain: it takes on no rows, goes to none of the   *)
(* program counters that ReaperInv and IssueInv speak of, and an executor     *)
(* keeps its run.                                                            *)
SpecialPCs == {"merged", "claiming", "stamp", "cread", "cmark", "retry", "release"}

PlainMove(t, y) ==
    /\ y.todo \subseteq task[t].todo /\ y.pc \notin SpecialPCs
    /\ t \in Runs => \/ y.pc = "idle"
                     \/ task[t].pc # "idle" /\ y.run = task[t].run

TasksPlain == \A t \in Tasks : task'[t] = task[t] \/ PlainMove(t, task'[t])

-----------------------------------------------------------------------------
(* The orchestration lock of an issue, while runs are only queued by wakeups  *)
(* and promotions, started and executed: nobody cancels them, no mention      *)
(* queues one behind the lock, and the reaper retries none (it only retries   *)
(* those that had a local child).                                            *)
Undisturbed ==
    /\ Cancellers = {} /\ Pausers = {}
    /\ Reapers = {} \/ LocalAgents = {}
    /\ \A wake \in Wakeups : wake.mention => wake.issue = NoIssue

(* The lock of an issue names the only run of the issue that may be active.   *)
LocksInv ==
    /\ \A i \in Issues : lock[i] # NoRun =>
            /\ lock[i] <= created /\ runs[lock[i]].issue = i
            /\ \A q \in Runs : Active(q) /\ runs[q].issue = i => q = lock[i]
    /\ OneActiveRunPerIssue

(* A starter only works on runs of its agent, and the run it is about to      *)
(* stamp is still running: nobody but it could have ended it.                *)
StarterOK(a) ==
    LET y == task[a] IN
    /\ \A row \in y.todo : runs[row.id].agent = a
    /\ y.pc \in {"claiming", "stamp", "cread", "cmark"} => runs[y.run].agent = a
    /\ y.pc = "stamp" => y.run \in y.got /\ runs[y.run].status = "running"

TasksInv ==
    /\ \A a \in Agents : StarterOK(a)
    /\ \A t \in Tasks : task[t].pc = "release" => runs[task[t].run].status \in Terminal
    /\ \A r \in Runs : Idle(r) \/ task[r].run = r

IssueInv == LocksInv /\ TasksInv

(* A run that is not queued and that no starter has (any more).              *)
Settled(r) ==
    /\ runs[r].status \in {"running"} \cup Terminal
    /\ \A a \in Agents : r \notin task[a].got

(* Before the startup reap no call is in progress, and what a reaper visits    *)
(* is settled, however old its snapshot is.                                  *)
ScanInv ==
    /\ ~booted /\ Reapers # {} => \A t \in Tasks : task[t] = IdleTask
    /\ \A k \in Reapers :
        /\ task[k].pc # "retry"
        /\ task[k].pc \notin {"resume", "resumeWait"} =>
                \A row \in task[k].todo : Settled(row.id)

(* The name key of a lock is the agent of the run it names.                  *)
KeysInv ==
    /\ \A i \in Issues :
            lockKey[i] = IF lock[i] = NoRun THEN NoAgent ELSE runs[lock[i]].agent
    /\ CoalescedIntoOwnRun

(* DeferredHasOwner, with the run that will take the lock, or whose release   *)
(* is under way.                                                             *)
Stamping(r)  == \E a \in Agents : task[a].pc = "stamp" /\ task[a].run = r
Unstamped(r) == \/ runs[r].status = "queued"
                \/ runs[r].status = "running" /\ Stamping(r)

Owned(i) ==
    IF lock[i] = NoRun THEN \E r \in Runs : runs[r].issue = i /\ Unstamped(r)
    ELSE \/ Active(lock[i])
         \/ \E t \in Tasks : task[t].pc = "release" /\ task[t].run = lock[i]

OwnersInv ==
    crashes = 0 =>
        /\ blocked = {}
        /\ \A a \in Agents : Invokable(a) /\ task[a].pc \notin {"cread", "cmark"}
        /\ \A i \in Issues : deferred[i] # <<>> => Owned(i)

(* The steps that keep all three: they change neither the locks nor what the  *)
(* rows say of their status, and no task stamps, releases or comes to it.     *)
Plain ==
    /\ UNCHANGED <<created, lock, lockKey, deferred, crashes>>
    /\ \A r \in Runs : /\ runs'[r].status = runs[r].status
                       /\ runs'[r].agent = runs[r].agent
                       /\ runs'[r].issue = runs[r].issue
    /\ TasksPlain
    /\ \A t \in Tasks : task[t].pc \in {"stamp", "release"} => task'[t] = task[t]
    /\ \A a \in Agents : Invokable(a) => agentStatus'[a] # "paused"
    /\ Blockable = {} => blocked' = blocked
=============================================================================
