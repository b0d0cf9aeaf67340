------------------------------ MODULE RunStore ------------------------------
(***************************************************************************)
(* The rows of the database that the heartbeat orchestrator works on, and   *)
(* the statements and transactions of server/src/services/heartbeat.ts that *)
(* change them: heartbeat_runs, the orchestration lock of an issue          *)
(* (issues.execution_run_id and execution_agent_name_key), the deferred     *)
(* wakeup requests of an issue, and the status of an agent.                 *)
(*                                                                          *)
(* Every operator below is one SQL statement or one transaction, so it is   *)
(* atomic; the processes that issue them, and interleave between them, are  *)
(* in HeartbeatService.                                                     *)
(***************************************************************************)
EXTENDS Integers, FiniteSets, Sequences

CONSTANTS
    Agents,        \* agents of one company
    LocalAgents,   \* the agents whose adapter spawns a local child process
    Issues,        \* issues of the company
    MaxRuns,       \* bound: rows of heartbeat_runs that fit in the model
    MaxWork,       \* bound: outside wakeups stop when this much work exists
    NoAgent,       \* "no agent"
    NoIssue        \* a run that is not scoped to an issue

ASSUME RunStoreAssumption ==
    /\ LocalAgents \subseteq Agents
    /\ MaxRuns \in Nat
    /\ MaxWork \in Nat
    /\ NoAgent \notin Agents
    /\ NoIssue \notin Issues

(* Runs are numbered in the order of created_at, the order they are claimed in. *)
Runs  == 1 .. MaxRuns
NoRun == 0

VARIABLES
    runs,          \* heartbeat_runs
    created,       \* number of rows inserted so far
    lock,          \* issues.execution_run_id
    lockKey,       \* issues.execution_agent_name_key
    deferred,      \* agents of the deferred_issue_execution wakeups, oldest first
    agentStatus    \* agents.status

dbVars == <<runs, created, lock, lockKey, deferred, agentStatus>>

Terminal      == {"succeeded", "failed", "cancelled"}   \* "timed_out" is "failed" here
RunStatuses   == {"absent", "queued", "running"} \cup Terminal
AgentStatuses == {"idle", "running", "error", "paused"}

(* retryOf is retry_of_run_id, retries is process_loss_retry_count, pid says  *)
(* whether process_pid is set, detached whether error_code is                 *)
(* process_detached.                                                          *)
RunRecord == [status : RunStatuses, agent : Agents \cup {NoAgent},
              issue : Issues \cup {NoIssue}, retryOf : Runs \cup {NoRun},
              retries : Nat, pid : BOOLEAN, detached : BOOLEAN]

AbsentRun == [status |-> "absent", agent |-> NoAgent, issue |-> NoIssue,
              retryOf |-> NoRun, retries |-> 0, pid |-> FALSE,
              detached |-> FALSE]

StoreTypeOK ==
    /\ runs \in [Runs -> RunRecord]
    /\ created \in 0 .. MaxRuns
    /\ lock \in [Issues -> Runs \cup {NoRun}]
    /\ lockKey \in [Issues -> Agents \cup {NoAgent}]
    /\ deferred \in [Issues -> Seq(Agents)]
    /\ agentStatus \in [Agents -> AgentStatuses]

StoreInit ==
    /\ runs = [r \in Runs |-> AbsentRun]
    /\ created = 0
    /\ lock = [i \in Issues |-> NoRun]
    /\ lockKey = [i \in Issues |-> NoAgent]
    /\ deferred = [i \in Issues |-> <<>>]
    /\ agentStatus = [a \in Agents |-> "idle"]

-----------------------------------------------------------------------------
(* Queries.                                                                  *)

Active(r)      == runs[r].status \in {"queued", "running"}
ActiveRuns(a)  == {r \in Runs : runs[r].agent = a /\ Active(r)}
RunningRuns(a) == {r \in Runs : runs[r].agent = a /\ runs[r].status = "running"}
QueuedRuns(a)  == {r \in Runs : runs[r].agent = a /\ runs[r].status = "queued"}

(* order by created_at asc limit n: what the SELECT may return from q.        *)
OldestOf(q, n) ==
    {s \in SUBSET q : /\ Cardinality(s) <= n
                      /\ Cardinality(s) < n => s = q
                      /\ \A r \in s, later \in q \ s : r < later}

(* paused stands for paused, terminated and pending_approval, which the       *)
(* guards of the service treat alike, save finalizeAgentStatus: it does not  *)
(* know pending_approval, the status before an agent has runs (README).      *)
Invokable(a) == agentStatus[a] # "paused"

(* An active run on issue i that the lock does not name: a running one before *)
(* a queued one, then the oldest.                                             *)
NoLegacyRuns(i) == {}
LegacyRuns(i) ==
    LET on(s) == {r \in Runs : runs[r].issue = i /\ runs[r].status = s}
        best  == IF on("running") # {} THEN on("running") ELSE on("queued")
    IN  {r \in best : \A q \in best : r <= q}

-----------------------------------------------------------------------------
(* Statements on heartbeat_runs.                                             *)

(* The row insert of the three places that queue a run.                      *)
WithNewRun(a, i, of, n) ==
    [runs EXCEPT ![created + 1] =
        [AbsentRun EXCEPT !.status = "queued", !.agent = a, !.issue = i,
                          !.retryOf = of, !.retries = n]]

(* The conditional UPDATE of claimQueuedRun: its condition and its effect.    *)
MayClaimAny(r) == TRUE
MayClaim(r)    == runs[r].status = "queued"

SetClaimedNothing(r) == UNCHANGED runs
SetClaimed(r)        == runs' = [runs EXCEPT ![r].status = "running"]

(* setRunStatus: an UPDATE by id, whatever the row holds by now.              *)
SetRunStatus(r, s) ==
    runs' = [runs EXCEPT ![r].status = s, ![r].detached = FALSE]

(* The reaper's setRunStatus(run.id, "running", errorCode process_detached). *)
MarkDetached(r) ==
    runs' = [runs EXCEPT ![r].status = "running", ![r].detached = TRUE]

(* Agent a has a deferred_issue_execution wakeup on issue i.                  *)
Deferred(i, a) == \E n \in DOMAIN deferred[i] : deferred[i][n] = a

(* Work that exists or was promised, against the bound on outside wakeups.   *)
Room ==
    created + Cardinality({p \in Issues \X Agents : Deferred(p[1], p[2])})
        < MaxWork

-----------------------------------------------------------------------------
(* Transactions.                                                             *)

(* A queued run inserted, under the bounds.                                   *)
QueueRun(a, i) ==
    /\ Room /\ created < MaxRuns
    /\ runs' = WithNewRun(a, i, NoRun, 0)
    /\ created' = created + 1

(* A wakeup of agent a joins run r, when key names the agent that executes    *)
(* it, unless a comment must be seen and r has already started.               *)
JoinsAnyRun(a, key, comment, r) == ~(comment /\ runs[r].status = "running")
JoinsRun(a, key, comment, r) ==
    key = a /\ ~(comment /\ runs[r].status = "running")

(* enqueueWakeup, the issue-scoped transaction: coalesce into the active run  *)
(* of the issue, defer behind it, or queue a run.  The name key compared is   *)
(* the one read at the start of the transaction.  kind and r are the result.  *)
EnqueueIssueWake(a, i, comment, kind, r) ==
    LET held  == lock[i] # NoRun /\ Active(lock[i])
        found == IF held THEN {lock[i]} ELSE LegacyRuns(i)
    IN  /\ UNCHANGED agentStatus
        /\ \/ /\ found = {}
              /\ kind = "queued" /\ r = created + 1
              /\ QueueRun(a, i)
              /\ lock' = [lock EXCEPT ![i] = NoRun]
              /\ lockKey' = IF lock[i] = NoRun THEN lockKey
                            ELSE [lockKey EXCEPT ![i] = NoAgent]
              /\ UNCHANGED deferred
           \/ /\ r \in found
              /\ LET key  == IF lockKey[i] # NoAgent THEN lockKey[i] ELSE runs[r].agent
                     join == JoinsRun(a, key, comment, r)
                 IN IF join \/ Deferred(i, a)
                    THEN kind = (IF join THEN "coalesced" ELSE "deferred")
                         /\ UNCHANGED deferred
                    ELSE /\ kind = "deferred" /\ Room
                         /\ deferred' = [deferred EXCEPT ![i] = Append(@, a)]
              /\ lock' = [lock EXCEPT ![i] = r]
              /\ lockKey' = IF held THEN lockKey
                            ELSE [lockKey EXCEPT ![i] = runs[r].agent]
              /\ UNCHANGED <<runs, created>>

(* enqueueWakeup without the issue lock: a timer wakeup, or a mention in a    *)
(* comment.  It coalesces into the newest active run of the same agent and    *)
(* task scope (queued before running), or queues a run.                       *)
EnqueueScopedWake(a, i, comment, kind, r) ==
    LET mine(s) == {q \in Runs : runs[q].agent = a /\ runs[q].issue = i
                                 /\ runs[q].status = s}
        found   == IF mine("queued") # {} THEN mine("queued")
                   ELSE IF comment THEN {} ELSE mine("running")
    IN  /\ UNCHANGED <<lock, lockKey, deferred, agentStatus>>
        /\ \/ /\ r \in found /\ \A q \in found : q <= r
              /\ kind = "coalesced"
              /\ UNCHANGED <<runs, created>>
           \/ /\ found = {}
              /\ kind = "queued" /\ r = created + 1
              /\ QueueRun(a, i)

(* enqueueProcessLossRetry: queue the retry of r and hand it the lock if r    *)
(* holds it.                                                                  *)
EnqueueProcessLossRetry(r) ==
    LET a   == runs[r].agent
        i   == runs[r].issue
        own == i # NoIssue /\ lock[i] = r
    IN  /\ created < MaxRuns
        /\ runs' = WithNewRun(a, i, r, runs[r].retries + 1)
        /\ created' = created + 1
        /\ lock' = IF own THEN [lock EXCEPT ![i] = created + 1] ELSE lock
        /\ lockKey' = IF own THEN [lockKey EXCEPT ![i] = a] ELSE lockKey
        /\ UNCHANGED <<deferred, agentStatus>>

(* Variant: the lock is freed and nobody promoted.                            *)
ReleaseOnly(r, to) ==
    /\ to = NoAgent
    /\ lock' = [i \in Issues |-> IF lock[i] = r THEN NoRun ELSE lock[i]]
    /\ UNCHANGED <<runs, created, lockKey, deferred, agentStatus>>

(* releaseIssueExecutionAndPromote, its transaction: free the first issue     *)
(* locked by r, fail the deferred wakeups of agents that cannot be invoked,   *)
(* and queue a run for the oldest of the others.  to is the agent promoted.   *)
ReleaseAndPromote(r, to) ==
    \/ /\ \A i \in Issues : lock[i] # r
       /\ to = NoAgent
       /\ UNCHANGED dbVars
    \/ \E i \in Issues :
        LET q  == deferred[i]
            ok == {n \in DOMAIN q : Invokable(q[n])}
        IN  /\ lock[i] = r
            /\ UNCHANGED agentStatus
            /\ \/ /\ ok = {}
                  /\ to = NoAgent
                  /\ lock' = [lock EXCEPT ![i] = NoRun]
                  /\ lockKey' = [lockKey EXCEPT ![i] = NoAgent]
                  /\ deferred' = [deferred EXCEPT ![i] = <<>>]
                  /\ UNCHANGED <<runs, created>>
               \/ \E n \in ok :
                  /\ \A m \in ok : n <= m
                  /\ to = q[n]
                  /\ created < MaxRuns
                  /\ runs' = WithNewRun(to, i, NoRun, 0)
                  /\ created' = created + 1
                  /\ lock' = [lock EXCEPT ![i] = created + 1]
                  /\ lockKey' = [lockKey EXCEPT ![i] = to]
                  /\ deferred' = [deferred EXCEPT ![i] = SubSeq(q, n + 1, Len(q))]

(* claimQueuedRun, "Fix A": the run takes the lock of its issue if it is free. *)
StampLock(r) ==
    LET i == runs[r].issue
    IN  /\ IF i # NoIssue /\ lock[i] \in {NoRun, r}
           THEN /\ lock' = [lock EXCEPT ![i] = r]
                /\ lockKey' = [lockKey EXCEPT ![i] = runs[r].agent]
           ELSE UNCHANGED <<lock, lockKey>>
        /\ UNCHANGED <<runs, created, deferred, agentStatus>>

(* issues.ts update: an issue that leaves in_progress, or changes assignee,   *)
(* loses execution_run_id ("Fix B") and keeps execution_agent_name_key.       *)
UpdateIssueClearsLock(i) ==
    /\ lock[i] # NoRun
    /\ lock' = [lock EXCEPT ![i] = NoRun]
    /\ UNCHANGED <<runs, created, lockKey, deferred, agentStatus>>
=============================================================================
