------------------------------ MODULE Routines ------------------------------
(***************************************************************************)
(* Recurring tasks: the scheduler tick, manual and webhook runs and their   *)
(* dispatch under the row lock of the routine (server/src/services/         *)
(* routines.ts), with the wakeup of the execution issue, the unique index   *)
(* of issues_open_routine_execution_uq and the connection pool.             *)
(*                                                                          *)
(* One routine with one schedule trigger; a unit of time is a cron minute.  *)
(* A step is what runs up to an await with the statement awaited, except    *)
(* that the series of reads of a request, and what a dispatch writes in its *)
(* transaction, which nobody sees before the commit, are one step each.     *)
(***************************************************************************)
EXTENDS Integers, FiniteSets

CONSTANTS
    Ticks,        \* scheduler ticks that may overlap
    Callers,      \* bound: manual and webhook runs at a time
    Updaters,     \* bound: issue updates
    Runs,         \* bound: the rows of routine_runs
    Issues,       \* bound: the execution issues
    Keys,         \* idempotency keys
    Statuses,     \* the statuses, concurrency and catch-up policies that the
    Policies,     \* routine may be given
    CatchUpPolicies,
    Edits,        \* the issue statuses that issue updates set, and whether they
    Hiding,       \* hide the issue
    Sources,      \* the sources of requests: manual, api, webhook
    Attributed,   \* whether a manual run may name the schedule trigger
    Enabling,     \* the values that trigger updates give to enabled
    MaxCatchUp,   \* MAX_CATCH_UP_RUNS
    MaxTime,      \* bound: the clock
    Connections   \* size of the connection pool

None  == "none"
Tasks == Ticks \cup Callers

ASSUME RoutinesAssumption ==
    /\ Ticks \cap Callers = {} /\ None \notin Tasks \cup Runs \cup Issues
    /\ "active" \in Statuses /\ Statuses \subseteq {"active", "paused", "archived"}
    /\ Policies \subseteq {"coalesce_if_active", "skip_if_active", "always_enqueue"}
    /\ Edits \subseteq {"open", "blocked", "done", "cancelled"}
    /\ Hiding \subseteq BOOLEAN /\ Sources \subseteq {"manual", "api", "webhook"}
    /\ Enabling \subseteq BOOLEAN /\ Attributed \subseteq BOOLEAN
    /\ CatchUpPolicies \subseteq {"skip_missed", "enqueue_missed_with_cap"}
    /\ MaxCatchUp \in Nat \ {0} /\ MaxTime \in Nat /\ Connections \in Nat \ {0}

VARIABLES
    now,      \* the clock
    routine,  \* the row of routines
    trigger,  \* the row of routine_triggers; claimed is the last occurrence fired
    run,      \* routine_runs, as committed
    issue,    \* the execution issues, each with its live heartbeat run
    holder,   \* the task that holds the row lock of the routine
    task,     \* ticks and requests in progress
    update,   \* issue updates in progress
    crashed   \* the runs whose dispatch a restart has cut off

vars == <<now, routine, trigger, run, issue, holder, task, update, crashed>>

RunRecord == [status : {None, "issue_created", "coalesced", "skipped", "failed", "completed"},
              key : Keys \cup {None}, issue : Issues \cup {None}, into : Runs \cup {None},
              source : Sources \cup {"schedule", None}, scheduled : BOOLEAN]
NoRun     == [status |-> None, key |-> None, issue |-> None, into |-> None, source |-> None,
              scheduled |-> FALSE]

(* hb: the live heartbeat run of the issue; bound: the issue row names it    *)
(* (execution_run_id); first: it is the one the dispatch has queued, and the *)
(* issue has been open since.                                                *)
(* "open": todo, in_progress or in_review, of which updates set the others.  *)
IssueRecord == [status : {None, "open", "blocked", "done", "cancelled"}, origin : Runs \cup {None},
                policy : Policies \cup {None}, hb : {None, "queued", "running"},
                bound : BOOLEAN, first : BOOLEAN, hidden : BOOLEAN]
NoIssue     == [status |-> None, origin |-> None, policy |-> None, hb |-> None,
                bound |-> FALSE, first |-> FALSE, hidden |-> FALSE]

(* next: the next_run_at that a tick has read, and later the one that a       *)
(* dispatch writes; claimed: the one that the tick writes; policy: as read;   *)
(* todo: the runs to dispatch; scheduled: the dispatch, and its run, is       *)
(* attributed to the trigger.                                                *)
TaskRecord == [pc : {"idle", "claim", "begin", "lock", "look", "create", "wake", "start",
                     "commit", "fail"},
               next : 0 .. MaxTime + 1, claimed : 0 .. MaxTime + 1,
               policy : Policies \cup {None}, todo : SUBSET Runs,
               run : Runs \cup {None}, issue : Issues \cup {None}, key : Keys \cup {None},
               source : Sources \cup {"schedule", None}, scheduled : BOOLEAN]
Idle == [pc |-> "idle", next |-> 0, claimed |-> 0, policy |-> None, todo |-> {}, run |-> None,
         issue |-> None, key |-> None, source |-> None, scheduled |-> FALSE]

UpdateRecord == [pc : {"idle", "read", "write", "done"}, issue : Issues \cup {None},
                 run : Runs \cup {None}, status : {None, "completed", "failed"}]
NoUpdate     == [pc |-> "idle", issue |-> None, run |-> None, status |-> None]
Updated      == [NoUpdate EXCEPT !.pc = "done"]

TypeOK ==
    /\ now \in 0 .. MaxTime
    /\ routine \in [status : Statuses, policy : Policies, catchUp : CatchUpPolicies]
    /\ trigger \in [enabled : BOOLEAN, next : 0 .. MaxTime + 1, claimed : 0 .. MaxTime]
    /\ run \in [Runs -> RunRecord]
    /\ issue \in [Issues -> IssueRecord]
    /\ holder \in Tasks \cup {None}
    /\ task \in [Tasks -> TaskRecord]
    /\ update \in [Updaters -> UpdateRecord]
    /\ crashed \subseteq Runs

Init ==
    /\ now = 0
    /\ routine \in [status : {"active"}, policy : Policies, catchUp : CatchUpPolicies]
    /\ trigger = [enabled |-> TRUE, next |-> 1, claimed |-> 0]
    /\ run = [r \in Runs |-> NoRun]
    /\ issue = [i \in Issues |-> NoIssue]
    /\ holder = None
    /\ task = [t \in Tasks |-> Idle]
    /\ update = [u \in Updaters |-> NoUpdate]
    /\ crashed = {}

NextTick(time) == time + 1
At(t, pc)      == task[t].pc = pc

TimePasses ==
    /\ now < MaxTime
    /\ now' = now + 1
    /\ UNCHANGED <<routine, trigger, run, issue, holder, task, update, crashed>>

-----------------------------------------------------------------------------
(* The rows still to be inserted; a task that starts must have enough left.  *)
Untaken == {r \in Runs : run[r] = NoRun /\ r \notin crashed
                         /\ \A t \in Tasks : r \notin task[t].todo}
Batches(rows, n) == {rs \in SUBSET rows : Cardinality(rs) = n}

(* How many runs a tick owes a due trigger, and when it will be due next.     *)
Missed      == now + 1 - trigger.next
RunCount    == IF routine.catchUp = "skip_missed" THEN 1
               ELSE IF Missed < MaxCatchUp THEN Missed ELSE MaxCatchUp
ClaimedNext == IF routine.catchUp = "skip_missed" THEN NextTick(now)
               ELSE trigger.next + RunCount

(* tickScheduledTriggers: the due trigger of an active routine.              *)
TickSelect(k) ==
    /\ At(k, "idle")
    /\ trigger.enabled /\ routine.status = "active" /\ trigger.next <= now
    /\ Batches(Untaken, RunCount) # {}
    /\ task' = [task EXCEPT ![k] = [Idle EXCEPT !.pc = "claim", !.next = trigger.next,
                       !.claimed = ClaimedNext, !.policy = routine.policy,
                       !.todo = CHOOSE rs \in Batches(Untaken, RunCount) : TRUE,
                       !.source = "schedule", !.scheduled = TRUE]]
    /\ UNCHANGED <<now, routine, trigger, run, issue, holder, update, crashed>>

(* The claim: only if nobody has moved next_run_at since the read.           *)
Claims(k) == trigger.enabled /\ trigger.next = task[k].next

TickClaim(k) ==
    LET next == task[k].claimed IN
    /\ At(k, "claim")
    /\ IF Claims(k)
       THEN /\ task' = [task EXCEPT ![k].pc = "begin", ![k].next = 0, ![k].claimed = 0]
            /\ trigger' = [trigger EXCEPT !.next = next, !.claimed = next - 1]
       ELSE task' = [task EXCEPT ![k] = Idle] /\ UNCHANGED trigger
    /\ UNCHANGED <<now, routine, run, issue, holder, update, crashed>>

(* runRoutine and firePublicTrigger: a webhook needs an active routine.      *)
Request(c, key, source, scheduled) ==
    /\ At(c, "idle")
    /\ routine.status # "archived" /\ (scheduled => trigger.enabled)
    /\ source = "webhook" => routine.status = "active" /\ ~scheduled
    /\ Untaken # {}
    /\ task' = [task EXCEPT ![c] = [Idle EXCEPT !.pc = "begin", !.key = key,
                       !.todo = {CHOOSE r \in Untaken : TRUE}, !.policy = routine.policy,
                       !.source = source, !.scheduled = scheduled]]
    /\ UNCHANGED <<now, routine, trigger, run, issue, holder, update, crashed>>

-----------------------------------------------------------------------------
(* A transaction keeps its connection to its end; the statements of the      *)
(* dispatch outside of it need another one.                                  *)
InTransaction == {t \in Tasks : task[t].pc \notin {"idle", "claim", "begin"}}
WantsTwo == Cardinality(InTransaction) + 1 < Connections
HasConnection == Cardinality(InTransaction) < Connections

(* dispatchRoutineRun, once for each run to dispatch.                        *)
Begin(t) ==
    /\ At(t, "begin") /\ task[t].todo # {} /\ HasConnection
    /\ task' = [task EXCEPT ![t].run = CHOOSE r \in task[t].todo : TRUE, ![t].pc = "lock"]
    /\ UNCHANGED <<now, routine, trigger, run, issue, holder, update, crashed>>

(* The end of the transaction; a tick goes on with its loop.                 *)
Ended(t) ==
    LET rest == task[t].todo \ {task[t].run} IN
    [task EXCEPT ![t] = IF rest = {} THEN Idle ELSE
        [@ EXCEPT !.todo = rest, !.pc = "begin", !.run = None, !.issue = None, !.next = 0]]

LockAnyway(t) == TRUE
Lockable(t)   == holder = None
SameKey(t, r) == /\ task[t].key # None /\ run[r].key = task[t].key
                 /\ run[r].status # None /\ run[r].source = task[t].source
                 /\ run[r].scheduled = task[t].scheduled

(* select ... for update, then the run with the same key, if there is one.   *)
Lock(t) ==
    /\ At(t, "lock") /\ Lockable(t)
    /\ IF \E r \in Runs : SameKey(t, r)
       THEN task' = Ended(t) /\ UNCHANGED holder
       ELSE /\ holder' = t
            /\ task' = [task EXCEPT ![t].pc = "look",
                           ![t].next = IF task[t].scheduled THEN NextTick(now) ELSE 0]
    /\ UNCHANGED <<now, routine, trigger, run, issue, update, crashed>>

(* Open and not hidden, as the queries and the index ask.                    *)
Open(i) == issue[i].status \in {"open", "blocked"} /\ ~issue[i].hidden

(* findLiveExecutionIssue: its second query finds the issues whose run is    *)
(* still queued, and not yet named by the issue row.                         *)
BoundIssues == {i \in Issues : Open(i) /\ issue[i].hb # None /\ issue[i].bound}
LiveIssues  == {i \in Issues : Open(i) /\ issue[i].hb # None}

(* What a dispatch commits: its run, and the next run of its trigger.        *)
Commit(t, status, i, into) ==
    /\ run' = [run EXCEPT ![task[t].run] =
                  [status |-> status, key |-> task[t].key, issue |-> i, into |-> into,
                   source |-> task[t].source, scheduled |-> task[t].scheduled]]
    /\ trigger' = IF task[t].scheduled THEN [trigger EXCEPT !.next = task[t].next] ELSE trigger
    /\ holder' = None
    /\ task' = Ended(t)
    /\ UNCHANGED <<now, routine, update, crashed>>

LookForLive(t) ==
    /\ At(t, "look")
    /\ IF LiveIssues # {} /\ task[t].policy # "always_enqueue"
       THEN /\ \E i \in LiveIssues :
                 Commit(t, IF task[t].policy = "skip_if_active" THEN "skipped" ELSE "coalesced",
                        i, issue[i].origin)
            /\ UNCHANGED issue
       ELSE /\ task' = [task EXCEPT ![t].pc = "create"]
            /\ UNCHANGED <<now, routine, trigger, run, issue, holder, update, crashed>>

(* issueSvc.create, on a connection of its own; it may refuse the assignee.  *)
CreateIssue(t) ==
    /\ At(t, "create") /\ HasConnection
    /\ \/ \E i \in Issues :
            /\ issue[i] = NoIssue
            /\ issue' = [issue EXCEPT ![i] = [NoIssue EXCEPT !.status = "open",
                               !.origin = task[t].run, !.policy = task[t].policy]]
            /\ task' = [task EXCEPT ![t].issue = i, ![t].pc = "wake"]
       \/ task' = [task EXCEPT ![t].pc = "fail"] /\ UNCHANGED issue
    /\ UNCHANGED <<now, routine, trigger, run, holder, update, crashed>>

(* issues_open_routine_execution_uq: one bound open issue of the routine.    *)
MayBind(i) == Open(i) => \A j \in Issues \ {i} : ~(Open(j) /\ issue[j].bound)

(* enqueueWakeup on an issue: a run is queued; or the live run is joined,    *)
(* and named by the issue row if the index allows it.                        *)
Woken(i, first) ==
    IF issue[i].status = None THEN issue
    ELSE IF issue[i].hb = None THEN [issue EXCEPT ![i].hb = "queued", ![i].first = first]
    ELSE [issue EXCEPT ![i].bound = @ \/ MayBind(i)]

(* The wakeup of the dispatch may be skipped by the agent's policy, or be    *)
(* refused.                                                                  *)
Wake(t) ==
    LET i == task[t].issue IN
    /\ At(t, "wake") /\ HasConnection
    /\ \/ /\ issue' = Woken(i, Open(i))
          /\ task' = [task EXCEPT ![t].pc = IF issue[i].status # None /\ issue[i].hb = None
                                            THEN "start" ELSE "commit"]
       \/ \E pc \in {"commit", "fail"} :
             task' = [task EXCEPT ![t].pc = pc] /\ UNCHANGED issue
    /\ UNCHANGED <<now, routine, trigger, run, holder, update, crashed>>

(* claimQueuedRun: the run is running; then the issue row names it, or the   *)
(* index makes the claim throw.                                              *)
Claimed(i) == [issue EXCEPT ![i].hb = "running",
                   ![i].bound = issue[i].status # None /\ MayBind(i)]

(* startNextQueuedRunForAgent in the wakeup: nothing, if the agent is busy;  *)
(* else the claim, which throws with the index.                              *)
Start(t) ==
    LET i == task[t].issue IN
    /\ At(t, "start") /\ HasConnection
    /\ \/ task' = [task EXCEPT ![t].pc = "commit"] /\ UNCHANGED issue
       \/ /\ issue[i].hb = "queued"
          /\ issue' = Claimed(i)
          /\ task' = [task EXCEPT ![t].pc = IF MayBind(i) THEN "commit" ELSE "fail"]
    /\ UNCHANGED <<now, routine, trigger, run, holder, update, crashed>>

CommitCreated(t) ==
    /\ At(t, "commit")
    /\ Commit(t, "issue_created", task[t].issue, None)
    /\ UNCHANGED issue

(* The catch block: delete the issue, keep the run as failed.                *)
FailedIssueStays(t) == At(t, "fail") /\ UNCHANGED issue /\ Commit(t, "failed", None, None)
CommitFailed(t) ==
    LET i == task[t].issue IN
    /\ At(t, "fail")
    /\ issue' = IF i = None THEN issue ELSE
                [issue EXCEPT ![i] = [NoIssue EXCEPT !.hb = issue[i].hb]]
    /\ Commit(t, "failed", None, None)

-----------------------------------------------------------------------------
(* The orchestrator: another starter claims a queued run; a run ends; a      *)
(* comment wakes the assignee of the issue again.                            *)
HeartbeatStarts(i) ==
    /\ issue[i].hb = "queued"
    /\ issue' = Claimed(i)
    /\ UNCHANGED <<now, routine, trigger, run, holder, task, update, crashed>>

HeartbeatEnds(i) ==
    /\ issue[i].hb = "running"
    /\ issue' = [issue EXCEPT ![i].hb = None, ![i].bound = FALSE, ![i].first = FALSE]
    /\ UNCHANGED <<now, routine, trigger, run, holder, task, update, crashed>>

CommentWakes(i) ==
    /\ issue[i].status # None
    /\ issue' = Woken(i, FALSE)
    /\ UNCHANGED <<now, routine, trigger, run, holder, task, update, crashed>>

(* The issue route: update the issue, which clears its execution_run_id on a *)
(* new status, then syncRunStatusForIssue.                                   *)
UpdateIssue(u, i, status) ==
    /\ update[u].pc = "idle" /\ issue[i].status \notin {None, status}
    /\ issue' = [issue EXCEPT ![i].status = status, ![i].bound = FALSE,
                     ![i].first = @ /\ status \in {"open", "blocked"}]
    /\ update' = [update EXCEPT ![u] = [NoUpdate EXCEPT !.pc = "read", !.issue = i]]
    /\ UNCHANGED <<now, routine, trigger, run, holder, task, crashed>>

(* It hides the issue or shows it again, unless the index refuses.           *)
HideIssue(u, i, hidden) ==
    /\ update[u].pc = "idle" /\ issue[i].status # None /\ issue[i].hidden # hidden
    /\ ~hidden /\ issue[i].bound /\ issue[i].status \in {"open", "blocked"} =>
           \A j \in Issues \ {i} : ~(Open(j) /\ issue[j].bound)
    /\ issue' = [issue EXCEPT ![i].hidden = hidden, ![i].first = @ /\ ~hidden]
    /\ update' = [update EXCEPT ![u] = [NoUpdate EXCEPT !.pc = "read", !.issue = i]]
    /\ UNCHANGED <<now, routine, trigger, run, holder, task, crashed>>

Verdict(i) == CASE issue[i].status = "done" -> "completed"
                [] issue[i].status \in {"blocked", "cancelled"} -> "failed"
                [] OTHER -> None

SyncReads(u) ==
    LET v == Verdict(update[u].issue) IN
    /\ update[u].pc = "read"
    /\ update' = [update EXCEPT ![u] = IF v = None THEN Updated
                                       ELSE [@ EXCEPT !.pc = "write", !.status = v,
                                                !.run = issue[update[u].issue].origin]]
    /\ UNCHANGED <<now, routine, trigger, run, issue, holder, task, crashed>>

SyncWrites(u) ==
    LET r == update[u].run IN
    /\ update[u].pc = "write"
    /\ run' = IF run[r].status = None THEN run
              ELSE [run EXCEPT ![r].status = update[u].status]
    /\ update' = [update EXCEPT ![u] = Updated]
    /\ UNCHANGED <<now, routine, trigger, issue, holder, task, crashed>>

(* update and updateTrigger, which starts from the next occurrence.          *)
UpdateRoutine(status, policy) ==
    /\ routine' = [routine EXCEPT !.status = status, !.policy = policy]
    /\ UNCHANGED <<now, trigger, run, issue, holder, task, update, crashed>>

UpdateTrigger(enabled) ==
    /\ trigger' = [trigger EXCEPT !.enabled = enabled, !.next = NextTick(now)]
    /\ UNCHANGED <<now, routine, run, issue, holder, task, update, crashed>>

(* The server restarts: what is not committed is gone, save what went out on *)
(* other connections.                                                        *)
Restart ==
    /\ crashed' = crashed \cup {task[t].run : t \in {u \in Tasks : task[u].issue # None}}
    /\ holder' = None
    /\ task' = [t \in Tasks |-> Idle]
    /\ update' = [u \in Updaters |-> IF update[u].pc = "idle" THEN NoUpdate ELSE Updated]
    /\ UNCHANGED <<now, routine, trigger, run, issue>>

-----------------------------------------------------------------------------
Statement(t) ==
    \/ Begin(t) \/ Lock(t) \/ LookForLive(t) \/ CreateIssue(t) \/ Wake(t)
    \/ CommitCreated(t) \/ CommitFailed(t)

Dispatch(t) == Statement(t) \/ Start(t)
Tick(k) == TickSelect(k) \/ TickClaim(k)
Sync(u) == SyncReads(u) \/ SyncWrites(u)

Environment ==
    \/ TimePasses \/ Restart
    \/ \E i \in Issues : HeartbeatStarts(i) \/ HeartbeatEnds(i) \/ CommentWakes(i)
    \/ \E status \in Statuses, policy \in Policies : UpdateRoutine(status, policy)
    \/ \E enabled \in Enabling : UpdateTrigger(enabled)

Next ==
    \/ \E t \in Tasks : Dispatch(t)
    \/ \E k \in Ticks : Tick(k)
    \/ \E c \in Callers, key \in Keys \cup {None}, source \in Sources, scheduled \in Attributed :
          Request(c, key, source, scheduled)
    \/ \E u \in Updaters, i \in Issues, status \in Edits :
          UpdateIssue(u, i, status)
    \/ \E u \in Updaters, i \in Issues, hidden \in Hiding : HideIssue(u, i, hidden)
    \/ \E u \in Updaters : Sync(u)
    \/ Environment

Spec == Init /\ [][Next]_vars

(* The statements of a dispatch settle, once they have a connection.  Start  *)
(* does not: it awaits the start lock of the agent, which heartbeat.ts may   *)
(* never give back (the run ViolationStartLock of HeartbeatService).         *)
Fairness == (\A t \in Tasks : WF_vars(Statement(t))) /\ (\A k \in Ticks : WF_vars(TickClaim(k)))

FairSpec == Spec /\ Fairness

-----------------------------------------------------------------------------
(* Under a policy other than always_enqueue, two issues of the routine are   *)
(* never worked on by the runs their dispatches queued: the dispatch lock is *)
(* kept until the issue is linked to a queued run.                           *)
OneFreshIssue ==
    Cardinality({i \in Issues : Open(i) /\ issue[i].first /\ issue[i].policy # "always_enqueue"})
        <= 1

(* A request sent twice with its idempotency key leaves one run.             *)
OncePerKey == \A r, s \in Runs :
    (/\ run[r].status # None /\ run[s].status # None /\ run[r].key # None
     /\ run[r].key = run[s].key /\ run[r].source = run[s].source
     /\ run[r].scheduled = run[s].scheduled) => r = s

(* A run that was coalesced or skipped points at a run on record that did    *)
(* create the issue it is linked to, unless a restart has lost that run.     *)
CoalescedIntoCreated == \A r \in Runs : run[r].status \in {"coalesced", "skipped"} =>
    \/ run[r].into \in crashed
    \/ run[run[r].into].status \in {"issue_created", "completed", "failed"}
       /\ run[run[r].into].issue = run[r].issue

(* The dispatch lock is given back again and again, unless its holder waits  *)
(* for ever for the start lock of the agent it wakes: no dispatch waits for  *)
(* ever for a connection, as long as the pool is larger than the dispatches. *)
AwaitsAgent == \E t \in Tasks : holder = t /\ At(t, "start") /\ HasConnection
LockIsReleased == []<>(holder = None) \/ <>[]AwaitsAgent

(* TLC refutes these (README).                                               *)
(* The dispatch lock is always given back.                                   *)
LockIsAlwaysReleased == []<>(holder = None)
(* An occurrence of the schedule is fired once.                              *)
OccurrenceOnce == [][\A k \in Ticks : task[k].pc = "claim" /\ task'[k].pc = "begin"
                        => trigger.next > trigger.claimed]_vars
(* An archived routine creates no issue.                                     *)
ArchivedDoesNotFire == [][\A i \in Issues :
    issue[i] = NoIssue /\ issue'[i].status # None => routine.status # "archived"]_vars
(* Once nothing is in progress, the run of a closed issue is closed.         *)
Quiet == (\A t \in Tasks : At(t, "idle")) /\ (\A u \in Updaters : update[u].pc \in {"idle", "done"})
RunFollowsIssue == Quiet => \A i \in Issues : issue[i].status = "done" =>
    issue[i].origin \in crashed \/ run[issue[i].origin].status = "completed"
(* No heartbeat run works on an issue that a failed dispatch has deleted.    *)
DeletedHasNoRun == \A i \in Issues : issue[i].status = None => issue[i].hb = None
(* always_enqueue creates an issue whatever else is live.                    *)
AlwaysEnqueues == [][\A t \in Tasks :
    At(t, "start") /\ task[t].policy = "always_enqueue" => task'[t].pc # "fail"]_vars
=============================================================================
