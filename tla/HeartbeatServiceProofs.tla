----------------------- MODULE HeartbeatServiceProofs -----------------------
(***************************************************************************)
(* Theorems about HeartbeatService, for every number of agents, runs,       *)
(* callers and restarts: the rows and the tasks are well typed, and a run    *)
(* is launched once; until the server restarts, no agent exceeds its limit    *)
(* of running runs, every child process has its executor, and no run slips    *)
(* past the sweep of a paused agent; a lost run is retried once, by a reaper  *)
(* that spares live ones; and an issue has one active run, which deferred     *)
(* wakeups wait for and only wakeups of its own agent join.                   *)
(*                                                                          *)
(* First one lemma per action: it is calm (see HeartbeatInvariant), or, for   *)
(* the three that are not, it keeps Inv.  Then the same for ReaperInv (mild   *)
(* steps) and for IssueInv, KeysInv and OwnersInv (plain steps).             *)
(***************************************************************************)
EXTENDS HeartbeatInvariant, TLAPS, FiniteSetTheorems, SequenceTheorems

-----------------------------------------------------------------------------
(* The statements and transactions of RunStore: each keeps the rows well     *)
(* typed, and the query for the oldest rows returns no more than its limit.  *)

(* The rows of the model are finitely many.                                  *)
LEMMA RunsFinite ==
    /\ IsFiniteSet(Runs)
    /\ \A s \in SUBSET Runs : IsFiniteSet(s) /\ Cardinality(s) \in Nat
<1>1. IsFiniteSet(Runs)
  BY RunStoreAssumption, FS_Interval DEF Runs
<1>2. \A s \in SUBSET Runs : IsFiniteSet(s) /\ Cardinality(s) \in Nat
  BY <1>1, FS_Subset, FS_CardinalityType
<1> QED BY <1>1, <1>2

(* The row inserted by a new run is well typed, and so are the others.       *)
LEMMA NewRunType ==
    ASSUME StoreTypeOK, created < MaxRuns,
           NEW a \in Agents \cup {NoAgent}, NEW i \in Issues \cup {NoIssue},
           NEW of \in Runs \cup {NoRun}, NEW n \in Nat
    PROVE  /\ WithNewRun(a, i, of, n) \in [Runs -> RunRecord]
           /\ created + 1 \in Runs
           /\ created + 1 \in 0 .. MaxRuns
<1>1. created + 1 \in Runs /\ created + 1 \in 0 .. MaxRuns
  BY RunStoreAssumption DEF StoreTypeOK, Runs
<1>2. [AbsentRun EXCEPT !.status = "queued", !.agent = a, !.issue = i,
                        !.retryOf = of, !.retries = n] \in RunRecord
  BY DEF AbsentRun, RunRecord, RunStatuses
<1> QED BY <1>1, <1>2 DEF WithNewRun, StoreTypeOK

(* setRunStatus, the detached mark and the claim keep the rows well typed.   *)
LEMMA RunUpdateType ==
    ASSUME StoreTypeOK, NEW r \in Runs, NEW s \in Terminal,
           SetRunStatus(r, s) \/ MarkDetached(r) \/ SetClaimed(r)
    PROVE  runs' \in [Runs -> RunRecord]
<1>1. runs[r] \in RunRecord
  BY DEF StoreTypeOK
<1>2. /\ [runs[r] EXCEPT !.status = s, !.detached = FALSE] \in RunRecord
      /\ [runs[r] EXCEPT !.status = "running", !.detached = TRUE] \in RunRecord
      /\ [runs[r] EXCEPT !.status = "running"] \in RunRecord
  BY <1>1 DEF RunRecord, RunStatuses
<1>3. CASE SetRunStatus(r, s)
  <2>1. runs' = [runs EXCEPT ![r] = [runs[r] EXCEPT !.status = s, !.detached = FALSE]]
    BY <1>3 DEF SetRunStatus, StoreTypeOK
  <2> QED BY <2>1, <1>2 DEF StoreTypeOK
<1>4. CASE MarkDetached(r)
  <2>1. runs' = [runs EXCEPT ![r] = [runs[r] EXCEPT !.status = "running", !.detached = TRUE]]
    BY <1>4 DEF MarkDetached, StoreTypeOK
  <2> QED BY <2>1, <1>2 DEF StoreTypeOK
<1>5. CASE SetClaimed(r)
  <2>1. runs' = [runs EXCEPT ![r] = [runs[r] EXCEPT !.status = "running"]]
    BY <1>5 DEF SetClaimed, StoreTypeOK
  <2> QED BY <2>1, <1>2 DEF StoreTypeOK
<1> QED BY <1>3, <1>4, <1>5

(* The two enqueueings of enqueueWakeup keep the store well typed.           *)
LEMMA EnqueueIssueWakeType ==
    ASSUME StoreTypeOK, NEW a \in Agents, NEW i \in Issues, NEW comment \in BOOLEAN,
           NEW kind, NEW r \in Runs, EnqueueIssueWake(a, i, comment, kind, r)
    PROVE  StoreTypeOK'
<1>1. agentStatus' = agentStatus
  BY DEF EnqueueIssueWake
<1>2. CASE kind = "queued" /\ QueueRun(a, i) /\ UNCHANGED deferred
           /\ lock' = [lock EXCEPT ![i] = NoRun]
           /\ lockKey' = IF lock[i] = NoRun THEN lockKey
                         ELSE [lockKey EXCEPT ![i] = NoAgent]
  <2>1. runs' = WithNewRun(a, i, NoRun, 0) /\ created' = created + 1 /\ created < MaxRuns
    BY <1>2 DEF QueueRun
  <2>2. runs' \in [Runs -> RunRecord] /\ created' \in 0 .. MaxRuns
    BY <2>1, NewRunType
  <2>3. /\ lock' \in [Issues -> Runs \cup {NoRun}]
        /\ lockKey' \in [Issues -> Agents \cup {NoAgent}]
    BY <1>2 DEF StoreTypeOK
  <2> QED BY <1>1, <1>2, <2>2, <2>3 DEF StoreTypeOK
<1>3. CASE /\ deferred' = deferred \/ deferred' = [deferred EXCEPT ![i] = Append(@, a)]
           /\ lock' = [lock EXCEPT ![i] = r]
           /\ lockKey' = lockKey \/ lockKey' = [lockKey EXCEPT ![i] = runs[r].agent]
           /\ UNCHANGED <<runs, created>>
  <2>1. runs[r].agent \in Agents \cup {NoAgent}
    BY DEF StoreTypeOK, RunRecord
  <2>2. Append(deferred[i], a) \in Seq(Agents)
    BY DEF StoreTypeOK
  <2>3. deferred' \in [Issues -> Seq(Agents)]
    BY <1>3, <2>2 DEF StoreTypeOK
  <2> QED BY <1>1, <1>3, <2>1, <2>3 DEF StoreTypeOK
<1> QED BY <1>2, <1>3 DEF EnqueueIssueWake

LEMMA EnqueueScopedWakeType ==
    ASSUME StoreTypeOK, NEW a \in Agents, NEW i \in Issues \cup {NoIssue},
           NEW comment \in BOOLEAN, NEW kind, NEW r \in Runs,
           EnqueueScopedWake(a, i, comment, kind, r)
    PROVE  StoreTypeOK'
<1>1. UNCHANGED <<lock, lockKey, deferred, agentStatus>>
  BY DEF EnqueueScopedWake
<1>2. CASE UNCHANGED <<runs, created>>
  BY <1>1, <1>2 DEF StoreTypeOK
<1>3. CASE QueueRun(a, i)
  <2>1. runs' = WithNewRun(a, i, NoRun, 0) /\ created' = created + 1 /\ created < MaxRuns
    BY <1>3 DEF QueueRun
  <2>2. runs' \in [Runs -> RunRecord] /\ created' \in 0 .. MaxRuns
    BY <2>1, NewRunType
  <2> QED BY <1>1, <2>2 DEF StoreTypeOK
<1> QED BY <1>2, <1>3 DEF EnqueueScopedWake

(* The retry of a lost run keeps the store well typed.                       *)
LEMMA RetryType ==
    ASSUME StoreTypeOK, NEW r \in Runs, EnqueueProcessLossRetry(r)
    PROVE  StoreTypeOK'
<1> DEFINE a == runs[r].agent
           i == runs[r].issue
<1>1. /\ a \in Agents \cup {NoAgent} /\ i \in Issues \cup {NoIssue}
      /\ runs[r].retries + 1 \in Nat
  BY DEF StoreTypeOK, RunRecord
<1>2. /\ created < MaxRuns
      /\ runs' = WithNewRun(a, i, r, runs[r].retries + 1)
      /\ created' = created + 1
      /\ UNCHANGED <<deferred, agentStatus>>
      /\ lock' = lock \/ lock' = [lock EXCEPT ![i] = created + 1]
      /\ lockKey' = lockKey \/ lockKey' = [lockKey EXCEPT ![i] = a]
  BY DEF EnqueueProcessLossRetry
<1>3. /\ runs' \in [Runs -> RunRecord]
      /\ created + 1 \in Runs
      /\ created + 1 \in 0 .. MaxRuns
  BY <1>1, <1>2, NewRunType
<1>4. /\ lock' \in [Issues -> Runs \cup {NoRun}]
      /\ lockKey' \in [Issues -> Agents \cup {NoAgent}]
  BY <1>1, <1>2, <1>3 DEF StoreTypeOK
<1> QED BY <1>2, <1>3, <1>4 DEF StoreTypeOK

(* The release of an issue, with its promotion, keeps the store well typed.  *)
LEMMA ReleaseType ==
    ASSUME StoreTypeOK, NEW r \in Runs, NEW to, ReleaseAndPromote(r, to)
    PROVE  StoreTypeOK' /\ to \in Agents \cup {NoAgent}
<1>1. CASE to = NoAgent /\ UNCHANGED dbVars
  BY <1>1 DEF StoreTypeOK, dbVars
<1>2. ASSUME NEW i \in Issues, to = NoAgent,
             lock' = [lock EXCEPT ![i] = NoRun],
             lockKey' = [lockKey EXCEPT ![i] = NoAgent],
             deferred' = [deferred EXCEPT ![i] = <<>>],
             UNCHANGED <<runs, created, agentStatus>>
      PROVE  StoreTypeOK'
  <2>1. deferred' \in [Issues -> Seq(Agents)]
    BY <1>2 DEF StoreTypeOK
  <2> QED BY <1>2, <2>1 DEF StoreTypeOK
<1>3. ASSUME NEW i \in Issues, NEW n \in DOMAIN deferred[i], to = deferred[i][n],
             created < MaxRuns,
             runs' = WithNewRun(to, i, NoRun, 0),
             created' = created + 1,
             lock' = [lock EXCEPT ![i] = created + 1],
             lockKey' = [lockKey EXCEPT ![i] = to],
             deferred' = [deferred EXCEPT ![i] = SubSeq(deferred[i], n + 1, Len(deferred[i]))],
             UNCHANGED agentStatus
      PROVE  StoreTypeOK' /\ to \in Agents
  <2>1. deferred[i] \in Seq(Agents) /\ n \in 1 .. Len(deferred[i])
    BY <1>3 DEF StoreTypeOK
  <2>2. to \in Agents
    BY <1>3, <2>1
  <2>3. /\ runs' \in [Runs -> RunRecord]
        /\ created + 1 \in Runs
        /\ created' \in 0 .. MaxRuns
    BY <1>3, <2>2, NewRunType
  <2>4. SubSeq(deferred[i], n + 1, Len(deferred[i])) \in Seq(Agents)
    BY <2>1, SubSeqProperties
  <2>5. /\ deferred' \in [Issues -> Seq(Agents)]
        /\ lock' \in [Issues -> Runs \cup {NoRun}]
        /\ lockKey' \in [Issues -> Agents \cup {NoAgent}]
    BY <1>3, <2>2, <2>3, <2>4 DEF StoreTypeOK
  <2> QED BY <1>3, <2>2, <2>3, <2>5 DEF StoreTypeOK
<1> QED BY <1>1, <1>2, <1>3 DEF ReleaseAndPromote

-----------------------------------------------------------------------------
(* How a calm statement changes the rows.                                    *)

LEMMA RowsCalmNumbered ==
    ASSUME StoreTypeOK, RowsNumbered, NEW lax \in BOOLEAN, RowsCalm(lax)
    PROVE  RowsNumbered'
<1>1. created \in Nat /\ created' \in Nat /\ created <= created'
  BY DEF StoreTypeOK, RowsCalm
<1>2. SUFFICES ASSUME NEW r \in Runs
               PROVE  /\ r <= created' => runs'[r].status # "absent" /\ runs'[r].agent \in Agents
                      /\ created' < r => runs'[r].status = "absent"
  BY DEF RowsNumbered
<1>3. CASE r <= created
  BY <1>1, <1>3 DEF RowsCalm, RowsNumbered, Terminal, Runs
<1>4. CASE created < r
  BY <1>1, <1>4 DEF RowsCalm, RowsNumbered, Runs
<1> QED BY <1>1, <1>3, <1>4 DEF Runs

LEMMA SameRowsCalm ==
    ASSUME StoreTypeOK, RowsNumbered, UNCHANGED <<runs, created>>, NEW lax \in BOOLEAN
    PROVE  RowsCalm(lax)
<1>1. created \in Nat
  BY DEF StoreTypeOK
<1> QED BY <1>1 DEF RowsCalm, RowsNumbered, Runs

LEMMA NewRunCalm ==
    ASSUME StoreTypeOK, RowsNumbered, NEW a \in Agents, NEW i, NEW of, NEW n,
           runs' = WithNewRun(a, i, of, n), created' = created + 1,
           NEW lax \in BOOLEAN
    PROVE  RowsCalm(lax)
<1>1. created \in Nat /\ runs \in [Runs -> RunRecord]
  BY DEF StoreTypeOK
<1>2. \A r \in Runs : r # created + 1 => runs'[r] = runs[r]
  BY <1>1 DEF WithNewRun
<1>3. created + 1 \in Runs => runs'[created + 1].status = "queued"
                              /\ runs'[created + 1].agent = a
  BY <1>1 DEF WithNewRun, AbsentRun
<1> QED BY <1>1, <1>2, <1>3 DEF RowsCalm, RowsNumbered, Runs

LEMMA SetStatusCalm ==
    ASSUME StoreTypeOK, RowsNumbered, NEW r \in Runs, r <= created,
           NEW s \in Terminal, SetRunStatus(r, s), UNCHANGED created,
           NEW lax \in BOOLEAN
    PROVE  RowsCalm(lax)
<1>1. created \in Nat /\ runs \in [Runs -> RunRecord] /\ runs[r] \in RunRecord
  BY DEF StoreTypeOK
<1>2. runs' = [runs EXCEPT ![r] = [runs[r] EXCEPT !.status = s, !.detached = FALSE]]
  BY <1>1 DEF SetRunStatus
<1>3. runs'[r].status = s /\ runs'[r].agent = runs[r].agent
  BY <1>1, <1>2 DEF RunRecord
<1>4. \A q \in Runs : q # r => runs'[q] = runs[q]
  BY <1>1, <1>2
<1> QED BY <1>1, <1>3, <1>4 DEF RowsCalm, RowsNumbered, Runs

LEMMA MarkDetachedCalm ==
    ASSUME StoreTypeOK, RowsNumbered, NEW r \in Runs, r <= created,
           MarkDetached(r), UNCHANGED created
    PROVE  RowsCalm(TRUE)
<1>1. created \in Nat /\ runs \in [Runs -> RunRecord] /\ runs[r] \in RunRecord
  BY DEF StoreTypeOK
<1>2. runs' = [runs EXCEPT ![r] = [runs[r] EXCEPT !.status = "running", !.detached = TRUE]]
  BY <1>1 DEF MarkDetached
<1>3. runs'[r].status = "running" /\ runs'[r].agent = runs[r].agent
  BY <1>1, <1>2 DEF RunRecord
<1>4. \A q \in Runs : q # r => runs'[q] = runs[q]
  BY <1>1, <1>2
<1> QED BY <1>1, <1>3, <1>4 DEF RowsCalm, RowsNumbered, Runs

(* The two flags of a row are set without touching its status.               *)
LEMMA FlagCalm ==
    ASSUME StoreTypeOK, RowsNumbered, NEW r \in Runs, r <= created, UNCHANGED created,
           \/ runs' = [runs EXCEPT ![r].pid = TRUE]
           \/ runs' = [runs EXCEPT ![r].detached = FALSE],
           NEW lax \in BOOLEAN
    PROVE  RowsCalm(lax) /\ runs' \in [Runs -> RunRecord]
<1>1. created \in Nat /\ runs \in [Runs -> RunRecord] /\ runs[r] \in RunRecord
  BY DEF StoreTypeOK
<1>2. \/ runs' = [runs EXCEPT ![r] = [runs[r] EXCEPT !.pid = TRUE]]
      \/ runs' = [runs EXCEPT ![r] = [runs[r] EXCEPT !.detached = FALSE]]
  BY <1>1
<1>3. /\ [runs[r] EXCEPT !.pid = TRUE] \in RunRecord
      /\ [runs[r] EXCEPT !.detached = FALSE] \in RunRecord
  BY <1>1 DEF RunRecord
<1>4. runs'[r].status = runs[r].status /\ runs'[r].agent = runs[r].agent
  BY <1>1, <1>2 DEF RunRecord
<1>5. \A q \in Runs : q # r => runs'[q] = runs[q]
  BY <1>1, <1>2
<1> QED BY <1>1, <1>2, <1>3, <1>4, <1>5 DEF RowsCalm, RowsNumbered, Runs

(* The transactions: what they do to the rows, and which run and which agent  *)
(* they return.                                                              *)
LEMMA EnqueueIssueWakeCalm ==
    ASSUME StoreTypeOK, RowsNumbered, NEW a \in Agents, NEW i \in Issues,
           NEW comment \in BOOLEAN, NEW kind, NEW r \in Runs,
           EnqueueIssueWake(a, i, comment, kind, r), NEW lax \in BOOLEAN
    PROVE  RowsCalm(lax) /\ r <= created'
<1>1. created \in Nat
  BY DEF StoreTypeOK
<1>2. CASE QueueRun(a, i) /\ r = created + 1
  BY <1>1, <1>2, NewRunCalm DEF QueueRun
<1>3. CASE UNCHANGED <<runs, created>> /\ Active(r)
  <2>1. r <= created
    BY <1>1, <1>3 DEF Active, RowsNumbered, Runs
  <2> QED BY <1>3, <2>1, SameRowsCalm
<1>4. \A q \in LegacyRuns(i) : Active(q)
  BY DEF LegacyRuns, Active
<1> QED BY <1>2, <1>3, <1>4 DEF EnqueueIssueWake

LEMMA EnqueueScopedWakeCalm ==
    ASSUME StoreTypeOK, RowsNumbered, NEW a \in Agents, NEW i, NEW comment \in BOOLEAN,
           NEW kind, NEW r \in Runs,
           EnqueueScopedWake(a, i, comment, kind, r), NEW lax \in BOOLEAN
    PROVE  RowsCalm(lax) /\ r <= created'
<1>1. created \in Nat
  BY DEF StoreTypeOK
<1>2. CASE QueueRun(a, i) /\ r = created + 1
  BY <1>1, <1>2, NewRunCalm DEF QueueRun
<1>3. CASE UNCHANGED <<runs, created>> /\ runs[r].status \in {"queued", "running"}
  <2>1. r <= created
    BY <1>1, <1>3 DEF RowsNumbered, Runs
  <2> QED BY <1>3, <2>1, SameRowsCalm
<1> QED BY <1>2, <1>3 DEF EnqueueScopedWake

LEMMA RetryCalm ==
    ASSUME StoreTypeOK, RowsNumbered, NEW r \in Runs, r <= created,
           EnqueueProcessLossRetry(r), NEW lax \in BOOLEAN
    PROVE  RowsCalm(lax)
<1>1. runs[r].agent \in Agents
  BY DEF RowsNumbered
<1> QED BY <1>1, NewRunCalm DEF EnqueueProcessLossRetry

LEMMA ReleaseCalm ==
    ASSUME StoreTypeOK, RowsNumbered, NEW r \in Runs, NEW to,
           ReleaseAndPromote(r, to), NEW lax \in BOOLEAN
    PROVE  RowsCalm(lax) /\ UNCHANGED agentStatus
<1>1. CASE UNCHANGED <<runs, created>> /\ UNCHANGED agentStatus
  BY <1>1, SameRowsCalm
<1>2. ASSUME NEW i \in Issues, NEW n \in DOMAIN deferred[i], to = deferred[i][n],
             runs' = WithNewRun(to, i, NoRun, 0), created' = created + 1,
             UNCHANGED agentStatus
      PROVE  RowsCalm(lax) /\ UNCHANGED agentStatus
  <2>1. to \in Agents
    BY <1>2 DEF StoreTypeOK
  <2> QED BY <1>2, <2>1, NewRunCalm
<1> QED BY <1>1, <1>2 DEF ReleaseAndPromote, dbVars

-----------------------------------------------------------------------------
(* Calm steps.                                                               *)

LEMMA Kinds ==
    /\ Runs \subseteq Tasks /\ Agents \subseteq Tasks /\ Wakers \subseteq Tasks
    /\ Cancellers \subseteq Tasks /\ Pausers \subseteq Tasks /\ Reapers \subseteq Tasks
    /\ Runs \cap (Agents \cup Wakers \cup Cancellers \cup Pausers \cup Reapers) = {}
    /\ Agents \cap (Wakers \cup Cancellers \cup Pausers \cup Reapers) = {}
    /\ Pausers \cap (Wakers \cup Cancellers \cup Reapers) = {}
    /\ Reapers \cap (Wakers \cup Cancellers) = {}
  BY HeartbeatAssumption DEF Tasks, Runs

(* A calm step keeps every part of the invariant.                            *)
LEMMA CalmType == ASSUME Inv, Calm PROVE TypeInv'
<1>1. \A t \in Tasks : task'[t] \in TaskOK
  BY DEF Calm, Fits, Inv, TypeInv
<1>2. task' \in [Tasks -> TaskOK]
  BY <1>1 DEF Calm
<1>3. task' \in [Tasks -> TaskRecord]
  BY <1>2 DEF TaskOK
<1> QED BY <1>2, <1>3 DEF Calm, MemCalm, TypeInv, TypeOK, Inv

LEMMA CalmNumbered == ASSUME Inv, Calm PROVE Numbered'
<1>1. RowsNumbered'
  BY RowsCalmNumbered DEF Inv, TypeInv, TypeOK, Numbered, Calm
<1>2. created \in Nat /\ created' \in Nat /\ created <= created'
  BY DEF Inv, TypeInv, TypeOK, StoreTypeOK, Calm, RowsCalm
<1>3. ASSUME NEW t \in Tasks
      PROVE  task'[t].run <= created' /\ \A row \in task'[t].todo : row.id <= created'
  <2>1. CASE Fits(t, task'[t])
    BY <2>1 DEF Fits
  <2>2. CASE task'[t] = task[t]
    <3>1. task[t] \in TaskRecord
      BY DEF Inv, TypeInv, TypeOK
    <3>2. task[t].run \in Nat /\ \A row \in task[t].todo : row.id \in Nat
      BY <3>1 DEF TaskRecord, Rows, Runs, NoRun
    <3> QED BY <1>2, <2>2, <3>2 DEF Inv, Numbered
  <2> QED BY <2>1, <2>2 DEF Calm
<1> QED BY <1>1, <1>3 DEF Numbered

LEMMA CalmLaunching == ASSUME Inv, Calm PROVE Launching'
<1>1. ASSUME NEW r \in Runs, task'[r] # task[r]
      PROVE  RunFits(r, task'[r])
  BY <1>1, Kinds DEF Calm, Fits
<1>2. \A a \in Agents : task'[a].got \subseteq task[a].got
  BY Kinds DEF Calm, Fits
<1>3. ASSUME NEW r \in active' PROVE task'[r].pc \notin {"idle", "launched", "kick"}
  BY <1>1, <1>3 DEF Calm, MemCalm, RunFits, Inv, Launching
<1>4. ASSUME NEW r \in Runs, task'[r].pc \in {"setup", "starting"} PROVE r \in active'
  BY <1>1, <1>4 DEF Calm, MemCalm, RunFits, Inv, Launching
<1>5. \A r \in Runs : Idle(r) => Idle(r)'
  BY <1>1 DEF RunFits, Idle
<1>6. \A a \in Agents : \A r \in task'[a].got : Idle(r)'
  <2>1. \A a \in Agents : task[a].got \subseteq Runs
    BY Kinds DEF Inv, TypeInv, TypeOK, TaskRecord
  <2> QED BY <1>2, <1>5, <2>1 DEF Inv, Launching
<1>7. ASSUME NEW r \in Runs, runs'[r].status \in {"absent", "queued"}
      PROVE  runs[r].status \in {"absent", "queued"}
  <2>1. created \in Nat /\ created' \in Nat
    BY DEF Inv, TypeInv, TypeOK, StoreTypeOK, Calm, RowsCalm
  <2>2. CASE created < r
    BY <2>2 DEF Inv, Numbered, RowsNumbered
  <2>3. CASE r <= created
    BY <1>7, <2>3 DEF Calm, RowsCalm, Terminal
  <2> QED BY <2>1, <2>2, <2>3 DEF Runs
<1> QED BY <1>2, <1>3, <1>4, <1>5, <1>6, <1>7 DEF Launching, Inv

LEMMA CalmChildren == ASSUME Inv, Calm PROVE Children'
<1>1. ASSUME crashes = 0, NEW r \in child'
      PROVE  r \in active' /\ task'[r].pc = "executing"
  <2>1. r \in Runs
    BY <1>1 DEF Calm, MemCalm
  <2>2. CASE task'[r] = task[r]
    BY <1>1, <2>1, <2>2 DEF Calm, MemCalm, Inv, Children
  <2>3. CASE Fits(r, task'[r])
    BY <1>1, <2>1, <2>3 DEF Fits, RunFits
  <2> QED BY <2>1, <2>2, <2>3, Kinds DEF Calm
<1> QED BY <1>1 DEF Children, Calm, MemCalm

LEMMA CalmSlots == ASSUME Inv, Calm PROVE SlotsHold'
<1>1. SUFFICES ASSUME crashes = 0, NEW a \in Agents
               PROVE  /\ OwnClaims(a, task'[a], runs')
                      /\ Cardinality(RunningRuns(a)') + Claims(task'[a]) <= MaxConcurrent
  BY DEF SlotsHold, Calm, MemCalm
<1>2. /\ created \in Nat /\ created' \in Nat /\ MaxConcurrent \in Nat /\ a \in Tasks
      /\ task[a] \in TaskOK
  BY Kinds, HeartbeatAssumption DEF Inv, TypeInv, TypeOK, StoreTypeOK, Calm, RowsCalm
<1>3. \A r \in Runs : r <= created => runs'[r].agent = runs[r].agent
  BY DEF Calm, RowsCalm
<1>4. RunningRuns(a)' \subseteq RunningRuns(a)
  <2>1. ASSUME NEW r \in Runs, runs'[r].status = "running"
        PROVE  runs[r].status = "running" /\ runs'[r].agent = runs[r].agent
    <3>1. r <= created
      BY <1>2, <2>1 DEF Calm, RowsCalm, Runs, Inv, Numbered, RowsNumbered
    <3> QED BY <1>1, <2>1, <3>1 DEF Calm, RowsCalm, Terminal
  <2> QED BY <2>1 DEF RunningRuns
<1>5. /\ Cardinality(RunningRuns(a)) \in Nat /\ Cardinality(RunningRuns(a)') \in Nat
      /\ Cardinality(RunningRuns(a)') <= Cardinality(RunningRuns(a))
  <2>1. RunningRuns(a) \subseteq Runs /\ IsFiniteSet(RunningRuns(a))
    BY RunsFinite DEF RunningRuns
  <2>2. RunningRuns(a)' \subseteq Runs /\ IsFiniteSet(RunningRuns(a)')
    BY <1>4, <2>1, RunsFinite
  <2> QED BY <1>4, <2>1, <2>2, FS_Subset, FS_CardinalityType
<1>6. /\ OwnClaims(a, task[a], runs)
      /\ Claims(task[a]) \in Nat
      /\ Cardinality(RunningRuns(a)) + Claims(task[a]) <= MaxConcurrent
  BY <1>1, FS_CardinalityType DEF Inv, SlotsHold, OwnClaims, Claims
<1>7. CASE task'[a] = task[a]
  <2>1. \A row \in task[a].todo : row.id \in Runs /\ row.id <= created
    BY <1>2 DEF TaskOK, TaskRecord, Rows, Inv, Numbered
  <2>2. task[a].pc = "claiming" => task[a].run \in Runs /\ task[a].run <= created
    BY <1>2 DEF TaskOK, NoRunPCs, Inv, Numbered
  <2>3. OwnClaims(a, task'[a], runs')
    BY <1>3, <1>6, <1>7, <2>1, <2>2 DEF OwnClaims
  <2> QED BY <1>2, <1>5, <1>6, <1>7, <2>3
<1>8. CASE Fits(a, task'[a])
  <2>1. SlotFits(a, task'[a])
    BY <1>8 DEF Fits
  <2>2. Claims(task'[a]) \in Nat
    BY <1>1, <2>1, FS_CardinalityType DEF SlotFits, OwnClaims, Claims
  <2> QED BY <1>1, <1>2, <1>5, <1>6, <2>1, <2>2 DEF SlotFits
<1> QED BY <1>2, <1>7, <1>8 DEF Calm

LEMMA CalmSweep == ASSUME Inv, Calm PROVE SweepHolds'
<1>1. SUFFICES ASSUME crashes = 0, NEW r \in Runs, ~Invokable(runs[r].agent)',
                      \/ runs'[r].status = "running"
                      \/ runs'[r].status = "queued" /\ Claiming(r)'
               PROVE  \E p \in Pausers : Covers(task[p], r)'
  BY DEF SweepHolds, Calm, MemCalm
<1> DEFINE a == runs[r].agent
<1>2. created \in Nat /\ created' \in Nat
  BY DEF Inv, TypeInv, TypeOK, StoreTypeOK, Calm, RowsCalm
<1>3. ASSUME NEW b \in Agents, task'[b].pc = "claiming", task'[b].run = r,
             runs'[r].status = "queued"
      PROVE  r <= created /\ task[b].pc = "claiming" /\ task[b].run = r
  <2>1. CASE task'[b] = task[b]
    BY <1>3, <2>1, Kinds DEF Inv, Numbered
  <2>2. CASE Fits(b, task'[b])
    <3>1. runs'[r].agent = b /\ agentStatus'[b] # "paused"
      BY <1>1, <1>3, <2>2 DEF Fits, SlotFits, OwnClaims
    <3> QED BY <1>1, <3>1 DEF Invokable
  <2> QED BY <2>1, <2>2, Kinds DEF Calm
<1>4. r <= created
  BY <1>1, <1>2, <1>3 DEF Claiming, Calm, RowsCalm, Runs, Inv, Numbered, RowsNumbered
<1>5. /\ runs'[r].agent = a /\ a \in Agents
      /\ runs[r].status = runs'[r].status
      /\ runs'[r].status \notin Terminal
      /\ Active(r)
  BY <1>1, <1>4 DEF Calm, RowsCalm, Terminal, Inv, Numbered, RowsNumbered, Active
<1>6. \/ runs[r].status = "running"
      \/ runs[r].status = "queued" /\ Claiming(r)
  BY <1>1, <1>3, <1>5 DEF Claiming
<1>7. CASE agentStatus[a] = "paused"
  <2>1. PICK p \in Pausers : Covers(task[p], r)
    BY <1>1, <1>6, <1>7 DEF Inv, SweepHolds, Invokable
  <2>2. CASE task'[p] = task[p]
    BY <1>5, <2>1, <2>2 DEF Covers
  <2>3. CASE Fits(p, task'[p])
    <3>1. Covers(task'[p], r)
      BY <1>5, <2>1, <2>3 DEF Fits, SweepFits
    <3> QED BY <1>5, <3>1 DEF Covers
  <2> QED BY <2>2, <2>3, Kinds DEF Calm
<1>8. CASE agentStatus[a] # "paused"
  <2>1. agentStatus'[a] = "paused"
    BY <1>1, <1>5 DEF Invokable
  <2>2. PICK p \in Pausers : task'[p].pc = "scan" /\ task'[p].to = a
    BY <1>5, <1>8, <2>1 DEF Calm, PauseCalm
  <2> QED BY <1>5, <2>2 DEF Covers
<1> QED BY <1>7, <1>8

LEMMA CalmInv == ASSUME Inv, Calm PROVE Inv'
  BY CalmType, CalmNumbered, CalmLaunching, CalmChildren, CalmSlots, CalmSweep DEF Inv

-----------------------------------------------------------------------------
(* Showing that a step is calm.                                              *)

LEMMA TaskFacts ==
    ASSUME Inv, NEW t \in Tasks
    PROVE  /\ task[t] \in TaskOK /\ task[t] \in TaskRecord
           /\ task[t].run <= created
           /\ \A row \in task[t].todo : row \in Rows /\ row.id \in Runs /\ row.id <= created
           /\ task[t].got \subseteq Runs
           /\ task[t].pc \notin NoRunPCs => task[t].run \in Runs /\ AgentOf(t) \in Agents
           /\ task[t].pc \in {"admitted", "promote"} => task[t].to \in Agents
           /\ created \in Nat
<1>1. task[t] \in TaskOK /\ task[t] \in TaskRecord
  BY DEF Inv, TypeInv, TypeOK
<1>2. /\ task[t].run <= created
      /\ \A row \in task[t].todo : row \in Rows /\ row.id \in Runs /\ row.id <= created
  BY <1>1 DEF TaskRecord, Rows, Inv, Numbered
<1>3. task[t].pc \notin NoRunPCs => task[t].run \in Runs /\ AgentOf(t) \in Agents
  BY <1>1, <1>2 DEF TaskOK, Inv, Numbered, RowsNumbered, AgentOf
<1>4. task[t].pc \in {"admitted", "promote"} => task[t].to \in Agents
  BY <1>1 DEF TaskOK
<1>5. created \in Nat /\ task[t].got \subseteq Runs
  BY <1>1 DEF TaskRecord, Inv, TypeInv, TypeOK, StoreTypeOK
<1> QED BY <1>1, <1>2, <1>3, <1>4, <1>5

LEMMA SameMemory ==
    ASSUME Inv, UNCHANGED <<blocked, active, child, booted, crashes>>, procs' \subseteq procs
    PROVE  MemCalm
  BY DEF MemCalm, Inv, TypeInv, TypeOK, Children

LEMMA SameStore ==
    ASSUME Inv, UNCHANGED dbVars
    PROVE  StoreTypeOK' /\ RowsCalm(crashes # 0) /\ PauseCalm
<1>1. StoreTypeOK /\ RowsNumbered
  BY DEF Inv, TypeInv, TypeOK, Numbered
<1> QED BY <1>1, SameRowsCalm DEF StoreTypeOK, dbVars, PauseCalm

LEMMA Move ==
    ASSUME Inv, NEW t \in Tasks, NEW y,
           task' = [task EXCEPT ![t] = y], Fits(t, y),
           StoreTypeOK', RowsCalm(crashes # 0), PauseCalm, MemCalm
    PROVE  Calm
<1>1. task \in [Tasks -> TaskOK]
  BY DEF Inv, TypeInv
<1> QED BY <1>1 DEF Calm

(* A task other than a pauser that scans keeps its run and its rows.         *)
LEMMA SameFits ==
    ASSUME Inv, NEW t \in Tasks, NEW y \in TaskOK, RowsCalm(crashes # 0),
           y.run = task[t].run, y.todo = task[t].todo, y.got = task[t].got,
           y.pc # "claiming",
           t \in Runs => RunFits(t, y),
           t \in Pausers => task[t].pc # "scan"
    PROVE  Fits(t, y)
<1>1. /\ created \in Nat /\ created' \in Nat /\ created <= created'
      /\ task[t].run \in Nat
      /\ \A row \in task[t].todo : row.id \in Runs /\ row.id \in Nat /\ row.id <= created
      /\ task[t].run <= created
  BY TaskFacts DEF RowsCalm, TaskRecord, Runs, NoRun
<1>2. y.run <= created' /\ \A row \in y.todo : row.id <= created'
  BY <1>1
<1>3. ASSUME t \in Agents, crashes = 0 PROVE SlotFits(t, y)
  <2>1. OwnClaims(t, task[t], runs)
    BY <1>3 DEF Inv, SlotsHold
  <2>2. OwnClaims(t, y, runs')
    BY <1>1, <2>1 DEF OwnClaims, RowsCalm
  <2>3. Claims(y) <= Claims(task[t])
    BY <2>1, FS_CardinalityType DEF Claims, OwnClaims
  <2> QED BY <2>2, <2>3 DEF SlotFits
<1>4. t \in Pausers => SweepFits(t, y)
  BY DEF SweepFits, Covers
<1> QED BY <1>2, <1>3, <1>4 DEF Fits, SlotFits

(* A task that has no rows left and ends, or starts anew.                    *)
LEMMA FreshFits ==
    ASSUME Inv, NEW t \in Tasks, NEW y \in TaskOK, y.run <= created',
           y.todo = {}, y.got = {}, y.pc # "claiming",
           t \in Runs => RunFits(t, y),
           t \in Pausers => task[t].pc # "scan" /\ task[t].todo = {}
    PROVE  Fits(t, y)
<1>1. ASSUME t \in Agents, crashes = 0 PROVE SlotFits(t, y)
  <2>1. Claims(y) = 0 /\ OwnClaims(t, y, runs')
    BY FS_EmptySet DEF Claims, OwnClaims
  <2>2. Claims(task[t]) \in Nat
    BY <1>1, FS_CardinalityType DEF Inv, SlotsHold, OwnClaims, Claims
  <2> QED BY <2>1, <2>2 DEF SlotFits
<1>2. t \in Pausers => SweepFits(t, y)
  BY DEF SweepFits, Covers
<1> QED BY <1>1, <1>2 DEF Fits, SlotFits

(* Wakers, cancellers and reapers.                                           *)
LEMMA CallerFits ==
    ASSUME NEW t \in Wakers \cup Cancellers \cup Reapers, NEW y \in TaskOK,
           y.run <= created', \A row \in y.todo : row.id <= created',
           y.got \subseteq task[t].got
    PROVE  Fits(t, y)
  BY Kinds DEF Fits

LEMMA PCFacts ==
    {"idle", "admitted", "merged", "start", "select", "claim", "claiming", "stamp",
     "launched", "setup", "starting", "executing", "mark", "cleanup", "cread",
     "cmark", "scan", "sweep", "reap", "retry", "resume", "resumeWait", "release",
     "promote", "promoteWait", "finread", "finwrite", "kick", "kickWait"} \subseteq PCs
  BY DEF PCs

LEMMA IdleTaskOK == IdleTask \in TaskOK
  BY PCFacts DEF IdleTask, TaskOK, TaskRecord, NoRunPCs

(* An executor between the end of its child and its cleanup.                 *)
LEMMA TailRunFits ==
    ASSUME Inv, NEW r \in Runs, NEW y, UNCHANGED <<active, child>>,
           task[r].pc # "idle", task[r].pc = "executing" => r \notin child,
           y.pc \notin {"idle", "kick", "launched", "setup", "starting"}
    PROVE  RunFits(r, y)
  BY DEF RunFits, Inv, Children

(* A task goes on, and the step begins a start of a.                         *)
LEMMA StartMove ==
    ASSUME Inv, NEW t \in Tasks, NEW y, NEW a \in Agents, NEW c \in Tasks \cup {NoTask},
           NEW z, \/ z = [IdleTask EXCEPT !.pc = "start", !.caller = c]
                  \/ z = [IdleTask EXCEPT !.pc = "start"],
           a # t, Idle(a),
           task' = [task EXCEPT ![t] = y, ![a] = z],
           Fits(t, y), UNCHANGED dbVars, MemCalm
    PROVE  Calm
<1>1. task \in [Tasks -> TaskOK] /\ a \in Tasks
  BY Kinds DEF Inv, TypeInv
<1>2. z \in TaskOK
  <2>1. /\ z.pc = "start" /\ z.run = NoRun /\ z.todo = {} /\ z.out = "none"
        /\ z \in TaskRecord
    BY PCFacts DEF IdleTask, TaskRecord
  <2> QED BY <2>1 DEF TaskOK, NoRunPCs
<1>3. Fits(a, z)
  <2>1. z.todo = {} /\ z.got = {} /\ z.run = 0 /\ z.pc # "claiming"
    BY DEF IdleTask, NoRun
  <2>2. created' = created /\ created \in Nat
    BY DEF dbVars, Inv, TypeInv, TypeOK, StoreTypeOK
  <2> QED BY <1>1, <1>2, <2>1, <2>2, FreshFits, Kinds
<1>4. StoreTypeOK' /\ RowsCalm(crashes # 0) /\ PauseCalm
  BY SameStore
<1> QED BY <1>1, <1>3, <1>4 DEF Calm

-----------------------------------------------------------------------------
LEMMA IdleTaskFields ==
    /\ IdleTask.pc = "idle" /\ IdleTask.run = 0
    /\ IdleTask.todo = {} /\ IdleTask.got = {}
  BY DEF IdleTask, NoRun

-----------------------------------------------------------------------------
(* enqueueWakeup.                                                            *)

LEMMA WakeAdmitCalm ==
    ASSUME Inv, NEW w \in Wakers, NEW a \in Agents, WakeAdmit(w, a)
    PROVE  Calm
<1> DEFINE y == [task[w] EXCEPT !.pc = "admitted", !.to = a]
<1>1. w \in Tasks /\ w \notin Runs /\ w \notin Pausers /\ task[w] \in TaskRecord
  BY Kinds, TaskFacts
<1>2. y \in TaskOK
  BY <1>1, PCFacts DEF TaskOK, TaskRecord, NoRunPCs
<1>3. task' = [task EXCEPT ![w] = y]
  BY DEF WakeAdmit
<1>4. StoreTypeOK' /\ RowsCalm(crashes # 0) /\ PauseCalm /\ MemCalm
  BY SameStore, SameMemory DEF WakeAdmit
<1>5. Fits(w, y)
  BY <1>1, <1>2, <1>4, SameFits DEF TaskRecord
<1> QED BY <1>1, <1>3, <1>4, <1>5, Move

LEMMA WakeCommitCalm ==
    ASSUME Inv, NEW w \in Wakers, WakeCommit(w)
    PROVE  Calm
<1>1. /\ w \in Tasks /\ task[w] \in TaskRecord /\ task[w].to \in Agents
      /\ \A row \in task[w].todo : row.id <= created
      /\ created \in Nat
  BY Kinds, TaskFacts DEF WakeCommit
<1>2. PICK wake \in Wakeups, r \in Runs, kind \in {"queued", "coalesced", "deferred"} :
        /\ IF wake.issue # NoIssue /\ ~wake.mention
           THEN EnqueueIssueWake(task[w].to, wake.issue, wake.comment, kind, r)
           ELSE EnqueueScopedWake(task[w].to, wake.issue, wake.comment, kind, r)
        /\ task' = [task EXCEPT ![w] =
                CASE kind = "queued"    -> [IdleTask EXCEPT !.pc = "kick", !.run = r]
                  [] kind = "coalesced" -> [task[w] EXCEPT !.pc = "merged", !.run = r]
                  [] kind = "deferred"  -> IdleTask]
  BY DEF WakeCommit
<1>3. wake.issue \in Issues \cup {NoIssue} /\ wake.comment \in BOOLEAN
  BY HeartbeatAssumption
<1>4. StoreTypeOK /\ RowsNumbered
  BY DEF Inv, TypeInv, TypeOK, Numbered
<1>5. StoreTypeOK' /\ RowsCalm(crashes # 0) /\ r <= created' /\ UNCHANGED agentStatus
  <2>0. (crashes # 0) \in BOOLEAN
    OBVIOUS
  <2>1. CASE EnqueueIssueWake(task[w].to, wake.issue, wake.comment, kind, r)
             /\ wake.issue # NoIssue
    <3>1. wake.issue \in Issues
      BY <1>3, <2>1
    <3>2. StoreTypeOK'
      BY <1>1, <1>3, <1>4, <2>1, <3>1, EnqueueIssueWakeType
    <3>3. RowsCalm(crashes # 0) /\ r <= created'
      BY <1>1, <1>3, <1>4, <2>0, <2>1, <3>1, EnqueueIssueWakeCalm
    <3>4. UNCHANGED agentStatus
      BY <2>1 DEF EnqueueIssueWake
    <3> QED BY <3>2, <3>3, <3>4
  <2>2. CASE EnqueueScopedWake(task[w].to, wake.issue, wake.comment, kind, r)
    <3>1. StoreTypeOK'
      BY <1>1, <1>3, <1>4, <2>2, EnqueueScopedWakeType
    <3>2. RowsCalm(crashes # 0) /\ r <= created'
      BY <1>1, <1>3, <1>4, <2>0, <2>2, EnqueueScopedWakeCalm
    <3>3. UNCHANGED agentStatus
      BY <2>2 DEF EnqueueScopedWake
    <3> QED BY <3>1, <3>2, <3>3
  <2> QED BY <1>2, <2>1, <2>2
<1> DEFINE y == CASE kind = "queued"    -> [IdleTask EXCEPT !.pc = "kick", !.run = r]
                  [] kind = "coalesced" -> [task[w] EXCEPT !.pc = "merged", !.run = r]
                  [] kind = "deferred"  -> IdleTask
<1>6. created' \in Nat /\ created <= created'
  BY <1>1, <1>5 DEF RowsCalm
<1>7. Fits(w, y)
  <2>1. CASE kind = "queued"
    <3>1. y = [IdleTask EXCEPT !.pc = "kick", !.run = r]
      BY <2>1
    <3>2. y \in TaskOK /\ y.run = r /\ y.todo = {} /\ y.got = {}
      BY <3>1, PCFacts DEF IdleTask, TaskOK, TaskRecord, NoRunPCs
    <3> QED BY <1>5, <3>2, CallerFits
  <2>2. CASE kind = "coalesced"
    <3>1. y = [task[w] EXCEPT !.pc = "merged", !.run = r]
      BY <2>2
    <3> HIDE DEF y
    <3>2. y \in TaskOK /\ y.run = r /\ y.todo = task[w].todo /\ y.got = task[w].got
      <4>1. y \in TaskRecord
        BY <1>1, <3>1, PCFacts DEF TaskRecord
      <4>2. /\ y.pc = "merged" /\ y.run = r
            /\ y.todo = task[w].todo /\ y.got = task[w].got
        BY <1>1, <3>1 DEF TaskRecord
      <4> QED BY <4>1, <4>2 DEF TaskOK, NoRunPCs
    <3>3. \A row \in y.todo : row.id <= created'
      <4>1. \A row \in task[w].todo : row.id \in Nat
        BY <1>1 DEF TaskRecord, Rows, Runs
      <4> QED BY <1>1, <1>6, <3>2, <4>1
    <3> QED BY <1>5, <3>2, <3>3, CallerFits
  <2>3. CASE kind = "deferred"
    <3>1. y = IdleTask
      BY <2>3
    <3>2. Fits(w, IdleTask)
      BY <1>6, IdleTaskOK, CallerFits DEF IdleTask, NoRun
    <3> QED BY <3>1, <3>2
  <2> QED BY <2>1, <2>2, <2>3
<1>8. MemCalm /\ PauseCalm
  BY <1>5, SameMemory DEF WakeCommit, PauseCalm
<1> QED BY <1>1, <1>2, <1>5, <1>7, <1>8, Move

LEMMA WakeReturnCalm ==
    ASSUME Inv, NEW w \in Wakers, WakeReturn(w)
    PROVE  Calm
<1>1. w \in Tasks /\ created' \in Nat
  BY Kinds, TaskFacts DEF WakeReturn, dbVars
<1>2. Fits(w, IdleTask)
  BY <1>1, IdleTaskOK, CallerFits DEF IdleTask, NoRun
<1>3. StoreTypeOK' /\ RowsCalm(crashes # 0) /\ PauseCalm /\ MemCalm
  BY SameStore, SameMemory DEF WakeReturn
<1> QED BY <1>1, <1>2, <1>3, Move DEF WakeReturn, Finish

-----------------------------------------------------------------------------
(* startNextQueuedRunForAgent and claimQueuedRun.                            *)

(* A starter, a run's executor or a caller ends.                             *)
LEMMA FinishCalm ==
    ASSUME Inv, NEW t \in Tasks, Finish(t), UNCHANGED dbVars, MemCalm,
           t \in Runs => RunFits(t, IdleTask),
           t \in Pausers => task[t].pc # "scan" /\ task[t].todo = {}
    PROVE  Calm
<1>1. created' \in Nat
  BY TaskFacts DEF dbVars
<1>2. Fits(t, IdleTask)
  BY <1>1, IdleTaskOK, FreshFits DEF IdleTask, NoRun
<1>3. StoreTypeOK' /\ RowsCalm(crashes # 0) /\ PauseCalm
  BY SameStore
<1> QED BY <1>2, <1>3, Move DEF Finish

(* A task goes on to another program counter that says nothing of its fields. *)
LEMMA GotoCalm ==
    ASSUME Inv, NEW t \in Tasks, NEW pc \in PCs, Goto(t, pc),
           StoreTypeOK', RowsCalm(crashes # 0), PauseCalm, MemCalm,
           pc \notin {"admitted", "promote", "mark", "finwrite", "idle", "scan", "claiming"},
           task[t].run \in Runs \/ pc \in NoRunPCs,
           t \in Runs => RunFits(t, [task[t] EXCEPT !.pc = pc]),
           t \in Pausers => task[t].pc # "scan"
    PROVE  Calm
<1> DEFINE y == [task[t] EXCEPT !.pc = pc]
<1>1. task[t] \in TaskRecord
  BY TaskFacts
<1>2. y \in TaskOK /\ y.pc = pc
  BY <1>1 DEF TaskOK, TaskRecord
<1>3. Fits(t, y)
  BY <1>1, <1>2, SameFits DEF TaskRecord
<1>4. task' = [task EXCEPT ![t] = y]
  BY DEF Goto
<1> QED BY <1>3, <1>4, Move

LEMMA StartCheckCalm ==
    ASSUME Inv, NEW a \in Agents, StartCheck(a)
    PROVE  Calm
<1>1. a \in Tasks /\ a \notin Runs /\ a \notin Pausers
  BY Kinds
<1>2. UNCHANGED dbVars /\ MemCalm /\ StoreTypeOK' /\ RowsCalm(crashes # 0) /\ PauseCalm
  BY SameStore, SameMemory DEF StartCheck
<1>3. CASE Goto(a, "select")
  BY <1>1, <1>2, <1>3, PCFacts, GotoCalm DEF NoRunPCs
<1>4. CASE Finish(a)
  BY <1>1, <1>2, <1>4, FinishCalm
<1> QED BY <1>3, <1>4 DEF StartCheck

LEMMA StartSelectCalm ==
    ASSUME Inv, NEW a \in Agents, StartSelect(a)
    PROVE  Calm
<1>1. a \in Tasks /\ a \notin Runs /\ a \notin Pausers /\ task[a] \in TaskRecord
  BY Kinds, TaskFacts
<1>2. UNCHANGED dbVars /\ MemCalm /\ StoreTypeOK' /\ RowsCalm(crashes # 0) /\ PauseCalm
  BY SameStore, SameMemory DEF StartSelect
<1>3. CASE Finish(a)
  BY <1>1, <1>2, <1>3, FinishCalm
<1>4. ASSUME NEW batch \in OldestOf(QueuedRuns(a), Slots(a)),
             task' = [task EXCEPT ![a].pc = "claim", ![a].todo = {Row(r) : r \in batch}]
      PROVE  Calm
  <2> DEFINE rows == {Row(r) : r \in batch}
             y    == [task[a] EXCEPT !.pc = "claim", !.todo = rows]
  <2>1. /\ batch \subseteq QueuedRuns(a) /\ Cardinality(batch) <= Slots(a)
        /\ batch \subseteq Runs
    BY DEF OldestOf, QueuedRuns
  <2>2. \A r \in batch : Row(r) \in Rows /\ Row(r).id = r
    BY <2>1 DEF Row, Rows, Inv, TypeInv, TypeOK, StoreTypeOK, RunRecord
  <2>3. y \in TaskOK /\ y.pc = "claim" /\ y.todo = rows /\ y.run = task[a].run
        /\ y.got = task[a].got
    <3>1. rows \in SUBSET Rows
      BY <2>2
    <3> HIDE DEF rows
    <3> QED BY <1>1, <3>1, PCFacts DEF TaskOK, TaskRecord, NoRunPCs
  <2>4. IsFiniteSet(rows) /\ Cardinality(rows) \in Nat
        /\ Cardinality(rows) <= Cardinality(batch)
    <3>1. IsFiniteSet(batch)
      BY <2>1, RunsFinite
    <3> DEFINE f == [r \in batch |-> Row(r)]
    <3>2. f \in Surjection(batch, rows)
      BY DEF Surjection
    <3> QED BY <3>1, <3>2, FS_Surjection, FS_CardinalityType
  <2>5. \A r \in batch : r <= created /\ runs[r].agent = a
    BY <2>1, TaskFacts, <1>1 DEF QueuedRuns, Inv, Numbered, RowsNumbered, Runs
  <2>6. SlotFits(a, y)
    <3>1. OwnClaims(a, y, runs')
      BY <1>2, <2>2, <2>3, <2>4, <2>5 DEF OwnClaims, dbVars
    <3>2. Claims(y) = Cardinality(rows)
      BY <2>3, <2>4 DEF Claims
    <3>3. Cardinality(RunningRuns(a)) \in Nat /\ Cardinality(batch) \in Nat
      BY <2>1, RunsFinite DEF RunningRuns
    <3>4. Cardinality(RunningRuns(a)) + Claims(y) <= MaxConcurrent
      BY <2>1, <2>4, <3>2, <3>3, HeartbeatAssumption DEF Slots
    <3> QED BY <2>3, <3>1, <3>4 DEF SlotFits
  <2>7. Fits(a, y)
    <3>1. y.run <= created'
      BY <1>1, <1>2, <2>3, TaskFacts DEF dbVars
    <3>2. \A row \in y.todo : row.id <= created'
      BY <1>2, <2>2, <2>3, <2>5 DEF dbVars
    <3> QED BY <1>1, <2>3, <2>6, <3>1, <3>2 DEF Fits
  <2>8. task' = [task EXCEPT ![a] = y]
    BY <1>4
  <2> QED BY <1>1, <1>2, <2>7, <2>8, Move
<1> QED BY <1>3, <1>4 DEF StartSelect

LEMMA ClaimReadCalm ==
    ASSUME Inv, NEW a \in Agents, ClaimRead(a)
    PROVE  Calm
<1>1. a \in Tasks /\ a \notin Runs /\ a \notin Pausers /\ task[a] \in TaskRecord
  BY Kinds, TaskFacts
<1>2. UNCHANGED dbVars /\ MemCalm /\ StoreTypeOK' /\ RowsCalm(crashes # 0) /\ PauseCalm
  BY SameStore, SameMemory DEF ClaimRead
<1>3. PICK row \in task[a].todo :
        task' = [task EXCEPT ![a].todo = @ \ {row}, ![a].run = row.id,
                             ![a].pc = IF MayStart(a) THEN "claiming" ELSE "cread"]
  BY DEF ClaimRead
<1> DEFINE y == [task[a] EXCEPT !.todo = task[a].todo \ {row}, !.run = row.id,
                                !.pc = IF MayStart(a) THEN "claiming" ELSE "cread"]
<1>4. /\ row.id \in Runs /\ row.id <= created
      /\ \A q \in task[a].todo : q.id <= created
  BY <1>1, TaskFacts
<1>5. /\ y \in TaskOK /\ y.run = row.id /\ y.todo = task[a].todo \ {row}
      /\ y.got = task[a].got
      /\ y.pc = IF MayStart(a) THEN "claiming" ELSE "cread"
  BY <1>1, <1>4, PCFacts DEF TaskOK, TaskRecord, NoRunPCs
<1>6. ASSUME crashes = 0 PROVE SlotFits(a, y)
  <2>1. OwnClaims(a, task[a], runs) /\ task[a].pc = "claim"
    BY <1>6 DEF Inv, SlotsHold, ClaimRead
  <2>2. /\ IsFiniteSet(y.todo)
        /\ Cardinality(y.todo) = Cardinality(task[a].todo) - 1
        /\ Cardinality(task[a].todo) \in Nat
    BY <1>5, <2>1, FS_RemoveElement, FS_CardinalityType DEF OwnClaims
  <2>3. OwnClaims(a, y, runs')
    BY <1>2, <1>5, <2>1, <2>2 DEF OwnClaims, dbVars
  <2>4. Claims(y) <= Claims(task[a])
    BY <2>1, <2>2 DEF Claims
  <2>5. y.pc = "claiming" => agentStatus'[a] # "paused"
    BY <1>2, <1>5 DEF MayStart, Invokable, dbVars
  <2> QED BY <2>3, <2>4, <2>5 DEF SlotFits
<1>7. Fits(a, y)
  <2>1. y.run <= created' /\ \A q \in y.todo : q.id <= created'
    BY <1>2, <1>4, <1>5 DEF dbVars
  <2> QED BY <1>1, <1>5, <1>6, <2>1 DEF Fits, SlotFits
<1>8. task' = [task EXCEPT ![a] = y]
  BY <1>3
<1> QED BY <1>1, <1>2, <1>7, <1>8, Move

(* The claim that finds its row changed, or the stamp, goes on to the next.  *)
LEMMA ClaimStampCalm ==
    ASSUME Inv, NEW a \in Agents, ClaimStamp(a)
    PROVE  Calm
<1>1. a \in Tasks /\ a \notin Runs /\ a \notin Pausers /\ task[a].run \in Runs
  BY Kinds, TaskFacts DEF ClaimStamp, NoRunPCs
<1>2. UNCHANGED <<runs, created, agentStatus>> /\ PauseCalm /\ MemCalm
  BY SameMemory DEF ClaimStamp, StampLock, PauseCalm
<1>3. StoreTypeOK /\ RowsNumbered /\ runs[task[a].run] \in RunRecord
  BY <1>1 DEF Inv, TypeInv, TypeOK, Numbered, StoreTypeOK
<1>4. StoreTypeOK'
  BY <1>1, <1>3 DEF ClaimStamp, StampLock, StoreTypeOK, RunRecord
<1>5. RowsCalm(crashes # 0)
  BY <1>2, <1>3, SameRowsCalm
<1> QED BY <1>1, <1>2, <1>4, <1>5, PCFacts, GotoCalm DEF ClaimStamp, NoRunPCs

LEMMA CancelReadCalm ==
    ASSUME Inv, NEW a \in Agents, CancelRead(a)
    PROVE  Calm
<1>1. a \in Tasks /\ a \notin Runs /\ a \notin Pausers /\ task[a].run \in Runs
  BY Kinds, TaskFacts DEF CancelRead, NoRunPCs
<1>2. MemCalm /\ StoreTypeOK' /\ RowsCalm(crashes # 0) /\ PauseCalm
  BY SameStore, SameMemory DEF CancelRead
<1> QED BY <1>1, <1>2, PCFacts, GotoCalm DEF CancelRead

(* A run is ended by setRunStatus: what it does to the store.                *)
LEMMA EndRunStore ==
    ASSUME Inv, NEW r \in Runs, r <= created, NEW s \in Terminal, SetRunStatus(r, s),
           UNCHANGED <<created, lock, lockKey, deferred, agentStatus>>
    PROVE  StoreTypeOK' /\ RowsCalm(crashes # 0) /\ PauseCalm
<1>1. StoreTypeOK /\ RowsNumbered
  BY DEF Inv, TypeInv, TypeOK, Numbered
<1>2. runs' \in [Runs -> RunRecord]
  BY <1>1, RunUpdateType
<1>3. StoreTypeOK'
  BY <1>1, <1>2 DEF StoreTypeOK
<1>4. RowsCalm(crashes # 0)
  BY <1>1, SetStatusCalm
<1> QED BY <1>3, <1>4 DEF PauseCalm

LEMMA CancelMarkCalm ==
    ASSUME Inv, NEW t \in Agents \cup Cancellers, CancelMark(t)
    PROVE  Calm
<1> DEFINE y == [task[t] EXCEPT !.pc = "release", !.out = "cancelled"]
<1>1. /\ t \in Tasks /\ t \notin Runs /\ task[t] \in TaskRecord
      /\ task[t].run \in Runs /\ task[t].run <= created /\ task[t].pc = "cmark"
  BY Kinds, TaskFacts DEF CancelMark, NoRunPCs
<1>2. StoreTypeOK' /\ RowsCalm(crashes # 0) /\ PauseCalm /\ MemCalm
  BY <1>1, EndRunStore, SameMemory DEF CancelMark, Terminal
<1>3. y \in TaskOK /\ y.pc = "release"
  BY <1>1, PCFacts DEF TaskOK, TaskRecord, NoRunPCs, Terminal
<1>4. Fits(t, y)
  BY <1>1, <1>2, <1>3, SameFits DEF TaskRecord
<1>5. task' = [task EXCEPT ![t] = y]
  BY DEF CancelMark
<1> QED BY <1>1, <1>2, <1>4, <1>5, Move

-----------------------------------------------------------------------------
(* executeRun.                                                               *)

LEMMA ExecBeginCalm ==
    ASSUME Inv, NEW r \in Runs, ExecBegin(r)
    PROVE  Calm
<1>1. r \in Tasks /\ r \notin Pausers /\ task[r].run \in Runs /\ task[r].pc = "launched"
      /\ task[r] \in TaskRecord
  BY Kinds, TaskFacts DEF ExecBegin, NoRunPCs
<1>2. UNCHANGED dbVars /\ StoreTypeOK' /\ RowsCalm(crashes # 0) /\ PauseCalm
  BY SameStore DEF ExecBegin
<1>3. r \notin active /\ (crashes = 0 => r \notin child)
  BY <1>1 DEF Inv, Launching, Children
<1>4. CASE Active(r)
  <2>1. active' = active \cup {r} /\ Goto(r, "setup") /\ child' = child
    BY <1>4 DEF ExecBegin
  <2>2. task'[r] # task[r]
    BY <1>1, <2>1 DEF Goto, Inv, TypeInv, TypeOK, TaskRecord
  <2>3. MemCalm
    BY <2>1, <2>2 DEF ExecBegin, MemCalm, Inv, TypeInv, TypeOK, Children
  <2>4. RunFits(r, [task[r] EXCEPT !.pc = "setup"])
    BY <1>1, <1>3, <2>1 DEF RunFits, TaskRecord
  <2> QED BY <1>1, <1>2, <2>1, <2>3, <2>4, PCFacts, GotoCalm
<1>5. CASE ~Active(r)
  <2>1. Finish(r) /\ active' = active /\ child' = child
    BY <1>5 DEF ExecBegin
  <2>2. MemCalm
    BY <2>1, <1>5, SameMemory DEF ExecBegin
  <2>3. RunFits(r, IdleTask)
    BY <1>1, <1>3, <2>1 DEF RunFits, IdleTask
  <2> QED BY <1>1, <1>2, <2>1, <2>2, <2>3, FinishCalm
<1> QED BY <1>4, <1>5

LEMMA ExecPrepareCalm ==
    ASSUME Inv, NEW r \in Runs, ExecPrepare(r)
    PROVE  Calm
<1>1. r \in Tasks /\ r \notin Pausers /\ task[r].run \in Runs /\ task[r].pc = "setup"
      /\ task[r] \in TaskRecord
  BY Kinds, TaskFacts DEF ExecPrepare, NoRunPCs
<1>2. StoreTypeOK /\ RowsNumbered
  BY DEF Inv, TypeInv, TypeOK, Numbered
<1>3. StoreTypeOK'
  BY <1>2 DEF ExecPrepare, StoreTypeOK, AgentStatuses
<1>4. RowsCalm(crashes # 0)
  BY <1>2, SameRowsCalm DEF ExecPrepare
<1>5. PauseCalm /\ MemCalm
  BY <1>2, SameMemory DEF ExecPrepare, PauseCalm, StoreTypeOK
<1>6. RunFits(r, [task[r] EXCEPT !.pc = "starting"])
  BY <1>1 DEF RunFits, ExecPrepare, Inv, Launching, Children, TaskRecord
<1> QED BY <1>1, <1>3, <1>4, <1>5, <1>6, PCFacts, GotoCalm DEF ExecPrepare

LEMMA ExecSpawnCalm ==
    ASSUME Inv, NEW r \in Runs, ExecSpawn(r)
    PROVE  Calm
<1>1. r \in Tasks /\ r \notin Pausers /\ task[r].run \in Runs /\ task[r].pc = "starting"
      /\ task[r] \in TaskRecord
  BY Kinds, TaskFacts DEF ExecSpawn, NoRunPCs
<1>2. UNCHANGED dbVars /\ StoreTypeOK' /\ RowsCalm(crashes # 0) /\ PauseCalm
  BY SameStore DEF ExecSpawn
<1>3. r \in active /\ active' = active
  BY <1>1 DEF ExecSpawn, Inv, Launching
<1>4. task'[r] # task[r]
  BY <1>1 DEF ExecSpawn, Goto, Inv, TypeInv, TypeOK, TaskRecord
<1>5. MemCalm
  BY <1>4 DEF ExecSpawn, MemCalm, Inv, TypeInv, TypeOK, Children
<1>6. RunFits(r, [task[r] EXCEPT !.pc = "executing"])
  BY <1>1, <1>3 DEF RunFits, TaskRecord
<1> QED BY <1>1, <1>2, <1>5, <1>6, PCFacts, GotoCalm DEF ExecSpawn

(* The executor records an outcome once its child is gone.                   *)
LEMMA ExecEndCalm ==
    ASSUME Inv, NEW r \in Runs, ExecReturn(r) \/ ExecThrow(r)
    PROVE  Calm
<1>1. /\ r \in Tasks /\ r \notin Pausers /\ task[r].run \in Runs /\ task[r] \in TaskRecord
      /\ task[r].pc \in {"setup", "starting", "executing"} /\ r \notin child
  BY Kinds, TaskFacts DEF ExecReturn, ExecThrow, AdapterSettled, NoRunPCs
<1>2. UNCHANGED <<dbVars, blocked, active, procs, child, booted, crashes>>
  BY DEF ExecReturn, ExecThrow
<1>3. PICK out \in Terminal : task' = [task EXCEPT ![r].pc = "mark", ![r].out = out]
  BY DEF ExecReturn, ExecThrow, Terminal
<1> DEFINE y == [task[r] EXCEPT !.pc = "mark", !.out = out]
<1>4. StoreTypeOK' /\ RowsCalm(crashes # 0) /\ PauseCalm /\ MemCalm
  BY <1>2, SameStore, SameMemory
<1>5. y \in TaskOK /\ y.pc = "mark"
  BY <1>1, PCFacts DEF TaskOK, TaskRecord, NoRunPCs
<1>6. RunFits(r, y)
  BY <1>1, <1>2, <1>5, TailRunFits
<1>7. Fits(r, y)
  BY <1>1, <1>4, <1>5, <1>6, SameFits DEF TaskRecord
<1>8. task' = [task EXCEPT ![r] = y]
  BY <1>3
<1> QED BY <1>1, <1>4, <1>7, <1>8, Move

LEMMA ExecMarkCalm ==
    ASSUME Inv, NEW r \in Runs, ExecMark(r)
    PROVE  Calm
<1>1. /\ r \in Tasks /\ r \notin Pausers /\ task[r].run \in Runs /\ task[r] \in TaskRecord
      /\ task[r].pc = "mark" /\ task[r].out \in Terminal
  BY Kinds, TaskFacts DEF ExecMark, NoRunPCs, TaskOK
<1>2. r <= created
  BY <1>1, TaskFacts DEF Inv, Launching, Numbered, RowsNumbered, Idle, Runs
<1>3. StoreTypeOK' /\ RowsCalm(crashes # 0) /\ PauseCalm /\ MemCalm
  BY <1>1, <1>2, EndRunStore, SameMemory DEF ExecMark
<1>4. RunFits(r, [task[r] EXCEPT !.pc = "release"])
  BY <1>1, TailRunFits DEF ExecMark, TaskRecord
<1> QED BY <1>1, <1>3, <1>4, PCFacts, GotoCalm DEF ExecMark

LEMMA ExecCleanupCalm ==
    ASSUME Inv, NEW r \in Runs, ExecCleanup(r)
    PROVE  Calm
<1>1. r \in Tasks /\ r \notin Pausers /\ task[r].run \in Runs /\ task[r].pc = "cleanup"
      /\ task[r] \in TaskRecord
  BY Kinds, TaskFacts DEF ExecCleanup, NoRunPCs
<1>2. StoreTypeOK' /\ RowsCalm(crashes # 0) /\ PauseCalm
  BY SameStore DEF ExecCleanup
<1>3. task'[r] # task[r]
  BY <1>1 DEF ExecCleanup, Goto, Inv, TypeInv, TypeOK, TaskRecord
<1>4. MemCalm
  BY <1>3 DEF ExecCleanup, MemCalm, Inv, TypeInv, TypeOK, Children
<1>5. RunFits(r, [task[r] EXCEPT !.pc = "kick"])
  BY <1>1 DEF RunFits, ExecCleanup, Inv, Children, TaskRecord
<1> QED BY <1>1, <1>2, <1>4, <1>5, PCFacts, GotoCalm DEF ExecCleanup

-----------------------------------------------------------------------------
(* The tail that executors, cancellations and reapers share.                 *)

LEMMA ReleaseStepCalm ==
    ASSUME Inv, NEW t \in Tasks, Release(t)
    PROVE  Calm
<1>1. task[t].run \in Runs /\ task[t] \in TaskRecord /\ task[t].pc = "release"
  BY TaskFacts DEF Release, NoRunPCs
<1>2. PICK to \in Agents \cup {NoAgent} :
        /\ ReleaseAndPromote(task[t].run, to)
        /\ task' = [task EXCEPT ![t].pc = IF to = NoAgent THEN AfterRelease(t)
                                          ELSE "promote",
                                ![t].to = to]
  BY DEF Release
<1> DEFINE y == [task[t] EXCEPT !.pc = IF to = NoAgent THEN AfterRelease(t) ELSE "promote",
                                !.to = to]
<1>3. StoreTypeOK /\ RowsNumbered /\ (crashes # 0) \in BOOLEAN
  BY DEF Inv, TypeInv, TypeOK, Numbered
<1>4. StoreTypeOK'
  BY <1>1, <1>2, <1>3, ReleaseType
<1>5. RowsCalm(crashes # 0) /\ UNCHANGED agentStatus
  BY <1>1, <1>2, <1>3, ReleaseCalm
<1>6. PauseCalm /\ MemCalm
  BY <1>5, SameMemory DEF PauseCalm, Release
<1>7. y \in TaskOK /\ y.pc \in {"promote", "sweep", "finread"}
  <2> DEFINE pc == IF to = NoAgent THEN AfterRelease(t) ELSE "promote"
  <2>1. pc \in {"promote", "sweep", "finread"} /\ (pc = "promote" => to \in Agents)
    BY DEF AfterRelease
  <2>2. /\ y = [task[t] EXCEPT !.pc = pc, !.to = to]
        /\ y.pc = pc /\ y.to = to /\ y.run = task[t].run
    BY <1>1 DEF TaskRecord
  <2> HIDE DEF pc
  <2>3. y \in TaskRecord
    BY <1>1, <2>1, <2>2, PCFacts DEF TaskRecord
  <2> QED BY <1>1, <2>1, <2>2, <2>3 DEF TaskOK, NoRunPCs
<1>8. t \in Runs => RunFits(t, y)
  BY <1>1, <1>7, TailRunFits DEF Release
<1>9. Fits(t, y)
  BY <1>1, <1>5, <1>7, <1>8, SameFits DEF TaskRecord
<1>10. task' = [task EXCEPT ![t] = y]
  BY <1>2
<1> QED BY <1>4, <1>5, <1>6, <1>9, <1>10, Move

(* A task enters the start lock of an idle agent and waits.                  *)
LEMMA EnterStartCalm ==
    ASSUME Inv, NEW t \in Tasks, NEW a \in Agents, NEW pc \in {"promoteWait", "kickWait"},
           EnterStart(t, a, pc), task[t].pc \in {"promote", "kick"},
           t \in Runs => task[t].pc = "promote",
           UNCHANGED <<dbVars, blocked, active, procs, child, booted, crashes>>
    PROVE  Calm
<1> DEFINE y == [task[t] EXCEPT !.pc = pc]
<1>1. task[t].run \in Runs /\ task[t] \in TaskRecord /\ a # t /\ Idle(a)
  BY TaskFacts DEF EnterStart, NoRunPCs, Idle
<1>2. y \in TaskOK /\ y.pc = pc
  BY <1>1, PCFacts DEF TaskOK, TaskRecord, NoRunPCs
<1>3. RowsCalm(crashes # 0) /\ MemCalm
  BY SameStore, SameMemory
<1>4. t \in Runs => RunFits(t, y)
  BY <1>1, <1>2, TailRunFits
<1>5. Fits(t, y)
  BY <1>1, <1>2, <1>3, <1>4, SameFits DEF TaskRecord
<1>6. task' = [task EXCEPT ![t] = y, ![a] = [IdleTask EXCEPT !.pc = "start", !.caller = t]]
  BY <1>1 DEF EnterStart
<1> QED BY <1>1, <1>3, <1>5, <1>6, StartMove

LEMMA PromoteStartCalm ==
    ASSUME Inv, NEW t \in Tasks, PromoteStart(t)
    PROVE  Calm
<1>1. task[t].to \in Agents
  BY TaskFacts DEF PromoteStart
<1> QED BY <1>1, EnterStartCalm DEF PromoteStart

LEMMA PromoteDoneCalm ==
    ASSUME Inv, NEW t \in Tasks, PromoteDone(t)
    PROVE  Calm
<1>1. task[t].run \in Runs /\ task[t] \in TaskRecord /\ task[t].pc = "promoteWait"
  BY TaskFacts DEF PromoteDone, NoRunPCs
<1>2. StoreTypeOK' /\ RowsCalm(crashes # 0) /\ PauseCalm /\ MemCalm
  BY SameStore, SameMemory DEF PromoteDone
<1>3. AfterRelease(t) \in {"sweep", "finread"}
  BY DEF AfterRelease
<1>4. t \in Runs => RunFits(t, [task[t] EXCEPT !.pc = AfterRelease(t)])
  BY <1>1, <1>3, TailRunFits DEF PromoteDone, TaskRecord
<1> QED BY <1>1, <1>2, <1>3, <1>4, PCFacts, GotoCalm DEF PromoteDone

LEMMA FinalizeReadCalm ==
    ASSUME Inv, NEW t \in Tasks \ Pausers, FinalizeRead(t)
    PROVE  Calm
<1>1. task[t].run \in Runs /\ task[t] \in TaskRecord /\ task[t].pc = "finread"
      /\ UNCHANGED <<dbVars, blocked, active, child, booted, crashes>>
  BY TaskFacts DEF FinalizeRead, NoRunPCs
<1>2. StoreTypeOK' /\ RowsCalm(crashes # 0) /\ PauseCalm /\ MemCalm
  BY <1>1, SameStore, SameMemory DEF FinalizeRead
<1>3. CASE Goto(t, AfterFinalize(t))
  <2>1. AfterFinalize(t) \in {"cleanup", "kick"} /\ (t \in Runs => AfterFinalize(t) = "cleanup")
    BY DEF AfterFinalize
  <2>2. t \in Runs => RunFits(t, [task[t] EXCEPT !.pc = AfterFinalize(t)])
    BY <1>1, <2>1, TailRunFits DEF TaskRecord
  <2> QED BY <1>1, <1>2, <1>3, <2>1, <2>2, PCFacts, GotoCalm
<1>4. ASSUME NEW next \in AgentStatuses \ {"paused"},
             task' = [task EXCEPT ![t].pc = "finwrite", ![t].out = next]
      PROVE  Calm
  <2> DEFINE y == [task[t] EXCEPT !.pc = "finwrite", !.out = next]
  <2>1. y \in TaskOK /\ y.pc = "finwrite"
    BY <1>1, PCFacts DEF TaskOK, TaskRecord, NoRunPCs
  <2>2. t \in Runs => RunFits(t, y)
    BY <1>1, <2>1, TailRunFits
  <2>3. Fits(t, y)
    BY <1>1, <1>2, <2>1, <2>2, SameFits DEF TaskRecord
  <2>4. task' = [task EXCEPT ![t] = y]
    BY <1>4
  <2> QED BY <1>2, <2>3, <2>4, Move
<1>5. /\ "running" \in AgentStatuses \ {"paused"}
      /\ "error" \in AgentStatuses \ {"paused"}
      /\ "idle" \in AgentStatuses \ {"paused"}
  BY DEF AgentStatuses
<1> QED BY <1>3, <1>4, <1>5 DEF FinalizeRead

LEMMA FinalizeWriteCalm ==
    ASSUME Inv, NEW t \in Tasks \ Pausers, FinalizeWrite(t)
    PROVE  Calm
<1>1. task[t].run \in Runs /\ task[t] \in TaskRecord /\ task[t].pc = "finwrite"
      /\ task[t].out \in AgentStatuses \ {"paused"}
  BY TaskFacts DEF FinalizeWrite, NoRunPCs, TaskOK
<1>2. StoreTypeOK /\ RowsNumbered
  BY DEF Inv, TypeInv, TypeOK, Numbered
<1>3. StoreTypeOK'
  BY <1>1, <1>2 DEF FinalizeWrite, StoreTypeOK
<1>4. RowsCalm(crashes # 0)
  BY <1>2, SameRowsCalm DEF FinalizeWrite
<1>5. PauseCalm /\ MemCalm
  BY <1>1, <1>2, SameMemory DEF FinalizeWrite, PauseCalm, StoreTypeOK
<1>6. AfterFinalize(t) \in {"cleanup", "kick"} /\ (t \in Runs => AfterFinalize(t) = "cleanup")
  BY DEF AfterFinalize
<1>7. t \in Runs => RunFits(t, [task[t] EXCEPT !.pc = AfterFinalize(t)])
  BY <1>1, <1>6, TailRunFits DEF FinalizeWrite, TaskRecord
<1> QED BY <1>1, <1>3, <1>4, <1>5, <1>6, <1>7, PCFacts, GotoCalm DEF FinalizeWrite

LEMMA KickCalm ==
    ASSUME Inv, NEW t \in Tasks \ Pausers, Kick(t)
    PROVE  Calm
<1> DEFINE a == AgentOf(t)
<1>1. /\ task[t].run \in Runs /\ task[t] \in TaskRecord /\ task[t].pc = "kick"
      /\ a \in Agents /\ created \in Nat
      /\ UNCHANGED <<dbVars, blocked, active, procs, child, booted, crashes>>
  BY TaskFacts DEF Kick, NoRunPCs
<1>2. CASE Waits(t)
  <2>1. t \notin Runs /\ EnterStart(t, a, "kickWait")
    BY <1>2, Kinds DEF Waits, Kick
  <2> QED BY <1>1, <2>1, EnterStartCalm
<1>3. CASE ~Waits(t)
  <2>1. Idle(a) /\ a # t
    BY <1>1, <1>3 DEF Kick, Idle
  <2>2. task' = [task EXCEPT ![t] = IdleTask, ![a] = [IdleTask EXCEPT !.pc = "start"]]
    BY <1>3 DEF Kick
  <2>3. t \in Runs => RunFits(t, IdleTask)
    BY <1>1 DEF RunFits, IdleTask, Inv, Launching, Children
  <2>4. Fits(t, IdleTask)
    <3>1. created' \in Nat
      BY <1>1 DEF dbVars
    <3> QED BY <2>3, <3>1, IdleTaskOK, FreshFits DEF IdleTask, NoRun
  <2>5. MemCalm
    BY <1>1, SameMemory
  <2> QED BY <1>1, <2>1, <2>2, <2>4, <2>5, StartMove
<1> QED BY <1>2, <1>3

LEMMA KickDoneCalm ==
    ASSUME Inv, NEW t \in Tasks \ Pausers, KickDone(t)
    PROVE  Calm
<1>1. task[t].run \in Runs /\ task[t] \in TaskRecord /\ task[t].pc = "kickWait"
      /\ UNCHANGED <<dbVars, blocked, active, child, booted, crashes>>
  BY TaskFacts DEF KickDone, NoRunPCs
<1>2. StoreTypeOK' /\ RowsCalm(crashes # 0) /\ PauseCalm /\ MemCalm
  BY <1>1, SameStore, SameMemory DEF KickDone
<1> DEFINE pc == IF t \in Agents THEN "claim" ELSE "reap"
<1>3. pc \in {"claim", "reap"}
  OBVIOUS
<1>4. t \in Runs => RunFits(t, [task[t] EXCEPT !.pc = pc])
  BY <1>1, <1>3, TailRunFits DEF TaskRecord
<1> QED BY <1>1, <1>2, <1>3, <1>4, PCFacts, GotoCalm DEF KickDone

-----------------------------------------------------------------------------
(* Requests: cancellations and pauses.                                       *)

LEMMA CancelRequestCalm ==
    ASSUME Inv, NEW c \in Cancellers, NEW r \in Runs, CancelRequest(c, r)
    PROVE  Calm
<1> DEFINE y == [task[c] EXCEPT !.pc = "cmark", !.run = r]
<1>1. /\ c \in Tasks /\ task[c] \in TaskRecord /\ created \in Nat
      /\ \A row \in task[c].todo : row.id <= created
      /\ UNCHANGED <<dbVars, blocked, active, procs, child, booted, crashes>>
  BY Kinds, TaskFacts DEF CancelRequest
<1>2. StoreTypeOK' /\ RowsCalm(crashes # 0) /\ PauseCalm /\ MemCalm
  BY <1>1, SameStore, SameMemory
<1>3. r <= created' /\ created' = created
  BY <1>1 DEF CancelRequest, Active, Inv, Numbered, RowsNumbered, Runs, dbVars
<1>4. y \in TaskOK /\ y.run = r /\ y.todo = task[c].todo /\ y.got = task[c].got
  BY <1>1, PCFacts DEF TaskOK, TaskRecord, NoRunPCs
<1>5. Fits(c, y)
  BY <1>1, <1>3, <1>4, CallerFits
<1>6. task' = [task EXCEPT ![c] = y]
  BY DEF CancelRequest
<1> QED BY <1>1, <1>2, <1>5, <1>6, Move

LEMMA PauseStepCalm ==
    ASSUME Inv, NEW p \in Pausers, NEW a \in Agents, Pause(p, a)
    PROVE  Calm
<1> DEFINE y == [task[p] EXCEPT !.pc = "scan", !.to = a]
<1>1. /\ p \in Tasks /\ p \notin Runs /\ p \notin Agents /\ task[p] \in TaskRecord
      /\ task[p] \in TaskOK /\ task[p].pc = "idle" /\ task[p].todo = {}
      /\ task[p].run <= created
  BY Kinds, TaskFacts DEF Pause, Idle, TaskOK
<1>2. StoreTypeOK /\ RowsNumbered
  BY DEF Inv, TypeInv, TypeOK, Numbered
<1>3. StoreTypeOK'
  BY <1>2 DEF Pause, StoreTypeOK, AgentStatuses
<1>4. RowsCalm(crashes # 0) /\ MemCalm
  BY <1>2, SameRowsCalm, SameMemory DEF Pause
<1>5. task' = [task EXCEPT ![p] = y]
  BY DEF Pause
<1>6. /\ y \in TaskOK /\ y.todo = {} /\ y.run = task[p].run /\ y.got = task[p].got
      /\ y.pc = "scan" /\ y.to = a
  BY <1>1, PCFacts DEF TaskOK, TaskRecord, NoRunPCs
<1>7. task'[p].pc = "scan" /\ task'[p].to = a
  BY <1>1, <1>5, <1>6 DEF Inv, TypeInv
<1>8. PauseCalm
  BY <1>2, <1>7 DEF PauseCalm, Pause, StoreTypeOK
<1>9. SweepFits(p, y)
  BY <1>1 DEF SweepFits, Covers
<1>10. Fits(p, y)
  BY <1>1, <1>6, <1>9 DEF Fits, Pause
<1> QED BY <1>1, <1>3, <1>4, <1>5, <1>8, <1>10, Move

LEMMA RowFacts ==
    ASSUME Inv, NEW s \in SUBSET Runs
    PROVE  /\ {Row(r) : r \in s} \in SUBSET Rows
           /\ \A r \in s : Row(r).id = r
<1>1. \A r \in s : Row(r) \in Rows /\ Row(r).id = r
  BY DEF Row, Rows, Inv, TypeInv, TypeOK, StoreTypeOK, RunRecord
<1> QED BY <1>1

LEMMA SweepScanCalm ==
    ASSUME Inv, NEW p \in Pausers, SweepScan(p)
    PROVE  Calm
<1> DEFINE rows == {Row(r) : r \in ActiveRuns(task[p].to)}
           y    == [task[p] EXCEPT !.pc = "sweep", !.todo = rows]
<1>1. /\ p \in Tasks /\ p \notin Runs /\ p \notin Agents /\ task[p] \in TaskRecord
      /\ task[p] \in TaskOK /\ task[p].pc = "scan" /\ task[p].todo = {}
      /\ task[p].run <= created /\ created \in Nat
      /\ UNCHANGED <<dbVars, blocked, active, procs, child, booted, crashes>>
  BY Kinds, TaskFacts DEF SweepScan, TaskOK
<1>2. StoreTypeOK' /\ RowsCalm(crashes # 0) /\ PauseCalm /\ MemCalm
  BY <1>1, SameStore, SameMemory
<1>3. rows \in SUBSET Rows /\ \A r \in ActiveRuns(task[p].to) : Row(r).id = r
  BY RowFacts DEF ActiveRuns
<1>4. \A r \in ActiveRuns(task[p].to) : r <= created
  BY <1>1 DEF ActiveRuns, Active, Inv, Numbered, RowsNumbered, Runs
<1>5. /\ y \in TaskOK /\ y.todo = rows /\ y.run = task[p].run /\ y.got = task[p].got
  <2>1. rows \in SUBSET Rows
    BY <1>3
  <2> HIDE DEF rows
  <2> QED BY <1>1, <2>1, PCFacts DEF TaskOK, TaskRecord, NoRunPCs
<1>6. SweepFits(p, y)
  <2>1. ASSUME NEW r \in Runs, Active(r), Covers(task[p], r)
        PROVE  Covers(y, r)
    <3>1. r \in ActiveRuns(task[p].to)
      BY <1>1, <2>1 DEF Covers, ActiveRuns
    <3>2. Row(r) \in y.todo /\ Row(r).id = r
      BY <1>3, <1>5, <3>1
    <3> QED BY <3>2 DEF Covers
  <2> QED BY <2>1 DEF SweepFits
<1>7. y.run <= created' /\ \A row \in y.todo : row.id <= created'
  BY <1>1, <1>3, <1>4, <1>5 DEF dbVars
<1>8. Fits(p, y)
  BY <1>1, <1>5, <1>6, <1>7 DEF Fits
<1>9. task' = [task EXCEPT ![p] = y]
  BY DEF SweepScan
<1> QED BY <1>1, <1>2, <1>8, <1>9, Move

LEMMA SweepMarkCalm ==
    ASSUME Inv, NEW p \in Pausers, SweepMark(p)
    PROVE  Calm
<1>1. /\ p \in Tasks /\ p \notin Runs /\ p \notin Agents /\ task[p] \in TaskRecord
      /\ task[p].pc = "sweep" /\ "cancelled" \in Terminal
      /\ UNCHANGED <<created, lock, lockKey, deferred, agentStatus>>
      /\ UNCHANGED <<blocked, active, child, booted, crashes>>
  BY Kinds, TaskFacts DEF SweepMark, Terminal
<1>2. PICK row \in task[p].todo :
        /\ SetRunStatus(row.id, "cancelled")
        /\ procs' = procs \ {row.id}
        /\ task' = [task EXCEPT ![p].pc = "release", ![p].run = row.id,
                                ![p].todo = @ \ {row}]
  BY DEF SweepMark
<1> DEFINE y == [task[p] EXCEPT !.pc = "release", !.run = row.id,
                                !.todo = task[p].todo \ {row}]
<1>3. /\ row.id \in Runs /\ row.id <= created
      /\ \A q \in task[p].todo : q.id <= created
  BY <1>1, TaskFacts
<1>4. StoreTypeOK' /\ RowsCalm(crashes # 0) /\ PauseCalm
  BY <1>1, <1>2, <1>3, EndRunStore
<1>5. MemCalm
  BY <1>1, <1>2, SameMemory
<1>6. /\ y \in TaskOK /\ y.todo = task[p].todo \ {row} /\ y.run = row.id
      /\ y.got = task[p].got
  BY <1>1, <1>3, PCFacts DEF TaskOK, TaskRecord, NoRunPCs
<1>7. runs'[row.id].status = "cancelled"
  BY <1>2, <1>3 DEF SetRunStatus, Inv, TypeInv, TypeOK, StoreTypeOK, RunRecord
<1>8. SweepFits(p, y)
  BY <1>1, <1>6, <1>7 DEF SweepFits, Covers
<1>9. Fits(p, y)
  BY <1>1, <1>3, <1>6, <1>8 DEF Fits
<1>10. task' = [task EXCEPT ![p] = y]
  BY <1>2
<1> QED BY <1>1, <1>4, <1>5, <1>9, <1>10, Move

LEMMA SweepDoneCalm ==
    ASSUME Inv, NEW p \in Pausers, SweepDone(p)
    PROVE  Calm
<1>1. p \in Tasks /\ p \notin Runs
  BY Kinds
<1>2. UNCHANGED dbVars /\ MemCalm
  BY SameMemory DEF SweepDone
<1> QED BY <1>1, <1>2, FinishCalm DEF SweepDone

-----------------------------------------------------------------------------
(* reapOrphanedRuns and resumeQueuedRuns.                                    *)

(* A reaper takes a new list of rows, or goes on with a shorter one.         *)
LEMMA ReaperCalm ==
    ASSUME Inv, NEW k \in Reapers, NEW y \in TaskOK,
           task' = [task EXCEPT ![k] = y],
           y.run <= created', \A row \in y.todo : row.id <= created',
           y.got \subseteq task[k].got,
           StoreTypeOK', RowsCalm(crashes # 0), PauseCalm, MemCalm
    PROVE  Calm
<1>1. k \in Tasks /\ Fits(k, y)
  BY Kinds, CallerFits
<1> QED BY <1>1, Move

LEMMA RowsOfFacts ==
    ASSUME Inv, NEW s \in {"queued", "running"}
    PROVE  RowsOf(s) \in SUBSET Rows /\ \A row \in RowsOf(s) : row.id <= created
<1> DEFINE q == {r \in Runs : runs[r].status = s}
<1>1. {Row(r) : r \in q} \in SUBSET Rows /\ \A r \in q : Row(r).id = r
  BY RowFacts
<1>2. \A r \in q : r <= created
  BY DEF Inv, Numbered, RowsNumbered, Runs, TypeInv, TypeOK, StoreTypeOK
<1> QED BY <1>1, <1>2 DEF RowsOf

LEMMA ScanCalm ==
    ASSUME Inv, NEW k \in Reapers, NEW rows \in SUBSET RunningRows,
           task' = [task EXCEPT ![k].pc = "reap", ![k].todo = rows],
           UNCHANGED <<dbVars, blocked, active, procs, child, crashes>>,
           booted' \in BOOLEAN
    PROVE  Calm
<1> DEFINE y == [task[k] EXCEPT !.pc = "reap", !.todo = rows]
<1>1. k \in Tasks /\ task[k] \in TaskRecord /\ task[k].run <= created
  BY Kinds, TaskFacts
<1>2. rows \in SUBSET Rows /\ \A row \in rows : row.id <= created
  BY RowsOfFacts DEF RunningRows
<1>3. /\ y \in TaskOK /\ y.todo = rows /\ y.run = task[k].run /\ y.got = task[k].got
  BY <1>1, <1>2, PCFacts DEF TaskOK, TaskRecord, NoRunPCs
<1>4. StoreTypeOK' /\ RowsCalm(crashes # 0) /\ PauseCalm
  BY SameStore
<1>5. MemCalm
  BY DEF MemCalm, Inv, TypeInv, TypeOK, Children
<1>6. task' = [task EXCEPT ![k] = y]
  OBVIOUS
<1>7. y.run <= created' /\ \A row \in y.todo : row.id <= created'
  BY <1>1, <1>2, <1>3 DEF dbVars
<1> QED BY <1>3, <1>4, <1>5, <1>6, <1>7, ReaperCalm

LEMMA StartupScanCalm ==
    ASSUME Inv, NEW k \in Reapers, StartupScan(k)
    PROVE  Calm
  BY ScanCalm DEF StartupScan

LEMMA PeriodicScanCalm ==
    ASSUME Inv, NEW k \in Reapers, NEW fresh, PeriodicScan(k, fresh)
    PROVE  Calm
<1> DEFINE rows == {row \in RunningRows : row.id \notin fresh /\ ~JustClaimed(row.id)}
<1>1. rows \in SUBSET RunningRows
  OBVIOUS
<1>2. booted' \in BOOLEAN
  BY DEF PeriodicScan, Inv, TypeInv, TypeOK
<1> QED BY <1>1, <1>2, ScanCalm DEF PeriodicScan

LEMMA ReapRowCalm ==
    ASSUME Inv, NEW k \in Reapers, ReapRow(k)
    PROVE  Calm
<1>1. /\ k \in Tasks /\ task[k] \in TaskRecord /\ task[k].run <= created
      /\ task[k].pc = "reap" /\ created' = created
      /\ UNCHANGED <<created, lock, lockKey, deferred, agentStatus>>
      /\ UNCHANGED <<blocked, active, procs, child, booted, crashes>>
  BY Kinds, TaskFacts DEF ReapRow
<1>2. PICK row \in task[k].todo :
        \/ /\ task' = [task EXCEPT ![k].todo = @ \ {row}]
           /\ UNCHANGED runs
        \/ /\ task' = [task EXCEPT ![k].todo = @ \ {row}]
           /\ ~InUse(row.id) /\ row.id \in child
           /\ MarkDetached(row.id)
        \/ /\ SetRunStatus(row.id, "failed")
           /\ task' = [[task EXCEPT ![k].todo = @ \ {row}]
                        EXCEPT ![k].run = row.id, ![k].out = "failed",
                               ![k].pc = IF MayRetry(row) THEN "retry" ELSE "release"]
  BY DEF ReapRow
<1>3. /\ row.id \in Runs /\ row.id <= created
      /\ \A q \in task[k].todo : q.id <= created
  BY <1>1, TaskFacts
<1>4. StoreTypeOK /\ RowsNumbered /\ MemCalm /\ PauseCalm /\ "failed" \in Terminal
  BY <1>1, SameMemory DEF Inv, TypeInv, TypeOK, Numbered, PauseCalm, Terminal
<1>5. CASE task' = [task EXCEPT ![k].todo = @ \ {row}]
  <2> DEFINE y == [task[k] EXCEPT !.todo = task[k].todo \ {row}]
  <2>1. /\ y \in TaskOK /\ y.todo = task[k].todo \ {row} /\ y.run = task[k].run
        /\ y.got = task[k].got
    BY <1>1, PCFacts DEF TaskOK, TaskRecord, NoRunPCs
  <2>2. task' = [task EXCEPT ![k] = y]
    BY <1>5
  <2>3. y.run <= created' /\ \A q \in y.todo : q.id <= created'
    BY <1>1, <1>3, <2>1
  <2>4. CASE UNCHANGED runs
    <3>1. StoreTypeOK' /\ RowsCalm(crashes # 0)
      BY <1>1, <1>4, <2>4, SameRowsCalm DEF StoreTypeOK
    <3> QED BY <1>4, <2>1, <2>2, <2>3, <3>1, ReaperCalm
  <2>5. CASE ~InUse(row.id) /\ row.id \in child /\ MarkDetached(row.id)
    <3>1. crashes # 0
      BY <2>5 DEF InUse, Inv, Children
    <3>2. RowsCalm(crashes # 0)
      <4>1. RowsCalm(TRUE)
        BY <1>1, <1>3, <1>4, <2>5, MarkDetachedCalm
      <4> QED BY <3>1, <4>1 DEF RowsCalm
    <3>3. runs' \in [Runs -> RunRecord]
      BY <1>3, <1>4, <2>5, RunUpdateType
    <3>4. StoreTypeOK'
      BY <1>1, <1>4, <3>3 DEF StoreTypeOK
    <3> QED BY <1>4, <2>1, <2>2, <2>3, <3>2, <3>4, ReaperCalm
  <2>6. CASE SetRunStatus(row.id, "failed")
    <3>1. StoreTypeOK' /\ RowsCalm(crashes # 0)
      BY <1>1, <1>3, <1>4, <2>6, EndRunStore
    <3> QED BY <1>4, <2>1, <2>2, <2>3, <3>1, ReaperCalm
  <2> QED BY <1>2, <2>4, <2>5, <2>6
<1>6. CASE /\ SetRunStatus(row.id, "failed")
           /\ task' = [[task EXCEPT ![k].todo = @ \ {row}]
                        EXCEPT ![k].run = row.id, ![k].out = "failed",
                               ![k].pc = IF MayRetry(row) THEN "retry" ELSE "release"]
  <2> DEFINE pc == IF MayRetry(row) THEN "retry" ELSE "release"
             y  == [task[k] EXCEPT !.todo = task[k].todo \ {row}, !.run = row.id,
                                   !.out = "failed", !.pc = pc]
  <2>1. /\ y \in TaskOK /\ y.todo = task[k].todo \ {row} /\ y.run = row.id
        /\ y.got = task[k].got
    <3>1. pc \in {"retry", "release"}
      OBVIOUS
    <3> HIDE DEF pc
    <3> QED BY <1>1, <1>3, <1>4, <3>1, PCFacts DEF TaskOK, TaskRecord, NoRunPCs
  <2>2. task' = [task EXCEPT ![k] = y]
    BY <1>1, <1>6 DEF Inv, TypeInv
  <2>3. y.run <= created' /\ \A q \in y.todo : q.id <= created'
    BY <1>1, <1>3, <2>1
  <2>4. StoreTypeOK' /\ RowsCalm(crashes # 0)
    BY <1>1, <1>3, <1>4, <1>6, EndRunStore
  <2> QED BY <1>4, <2>1, <2>2, <2>3, <2>4, ReaperCalm
<1> QED BY <1>2, <1>5, <1>6

LEMMA RetryStepCalm ==
    ASSUME Inv, NEW k \in Reapers, Retry(k)
    PROVE  Calm
<1>1. /\ k \in Tasks /\ k \notin Runs /\ k \notin Pausers
      /\ task[k].run \in Runs /\ task[k].run <= created
  BY Kinds, TaskFacts DEF Retry, NoRunPCs
<1>2. StoreTypeOK /\ RowsNumbered /\ (crashes # 0) \in BOOLEAN
  BY DEF Inv, TypeInv, TypeOK, Numbered
<1>3. StoreTypeOK' /\ RowsCalm(crashes # 0)
  BY <1>1, <1>2, RetryType, RetryCalm DEF Retry
<1>4. PauseCalm /\ MemCalm
  BY SameMemory DEF PauseCalm, Retry, EnqueueProcessLossRetry
<1> QED BY <1>1, <1>3, <1>4, PCFacts, GotoCalm DEF Retry

LEMMA ReapDoneCalm ==
    ASSUME Inv, NEW k \in Reapers, ReapDone(k)
    PROVE  Calm
<1> DEFINE y == [IdleTask EXCEPT !.pc = "resume", !.todo = QueuedRows]
<1>1. created \in Nat /\ UNCHANGED <<dbVars, blocked, active, procs, child, booted, crashes>>
  BY DEF ReapDone, Inv, TypeInv, TypeOK, StoreTypeOK
<1>2. QueuedRows \in SUBSET Rows /\ \A row \in QueuedRows : row.id <= created
  BY RowsOfFacts DEF QueuedRows
<1>3. y \in TaskOK /\ y.todo = QueuedRows /\ y.run = 0 /\ y.got = {}
  BY <1>2, PCFacts DEF TaskOK, TaskRecord, NoRunPCs, IdleTask, NoRun
<1>4. StoreTypeOK' /\ RowsCalm(crashes # 0) /\ PauseCalm /\ MemCalm
  BY <1>1, SameStore, SameMemory
<1>5. y.run <= created' /\ \A row \in y.todo : row.id <= created'
  BY <1>1, <1>2, <1>3 DEF dbVars
<1>6. task' = [task EXCEPT ![k] = y]
  BY DEF ReapDone
<1> QED BY <1>3, <1>4, <1>5, <1>6, ReaperCalm

LEMMA ResumeNextCalm ==
    ASSUME Inv, NEW k \in Reapers, ResumeNext(k)
    PROVE  Calm
<1>1. /\ k \in Tasks /\ task[k] \in TaskRecord /\ task[k].run <= created
      /\ \A q \in task[k].todo : q.id <= created
      /\ task[k].pc = "resume"
      /\ UNCHANGED <<dbVars, blocked, active, procs, child, booted, crashes>>
  BY Kinds, TaskFacts DEF ResumeNext
<1>2. PICK row \in task[k].todo :
        /\ Idle(runs[row.id].agent)
        /\ task' = [task EXCEPT
                ![k].pc = "resumeWait", ![k].to = runs[row.id].agent,
                ![k].todo = {q \in @ : runs[q.id].agent # runs[row.id].agent},
                ![runs[row.id].agent] = [IdleTask EXCEPT !.pc = "start", !.caller = k]]
  BY DEF ResumeNext
<1> DEFINE a    == runs[row.id].agent
           rest == {q \in task[k].todo : runs[q.id].agent # a}
           y    == [task[k] EXCEPT !.pc = "resumeWait", !.to = a, !.todo = rest]
<1>3. a \in Agents /\ a # k /\ Idle(a)
  BY <1>1, <1>2, Kinds, TaskFacts DEF Inv, Numbered, RowsNumbered
<1>4. rest \in SUBSET Rows /\ rest \subseteq task[k].todo
  BY <1>1 DEF TaskRecord
<1>5. y \in TaskOK /\ y.todo = rest /\ y.run = task[k].run /\ y.got = task[k].got
  <2> HIDE DEF rest, a
  <2> QED BY <1>1, <1>3, <1>4, PCFacts DEF TaskOK, TaskRecord, NoRunPCs
<1>6. Fits(k, y)
  BY <1>1, <1>4, <1>5, CallerFits DEF dbVars
<1>7. task' = [task EXCEPT ![k] = y, ![a] = [IdleTask EXCEPT !.pc = "start", !.caller = k]]
  BY <1>2, <1>3
<1>8. MemCalm
  BY <1>1, SameMemory
<1> QED BY <1>1, <1>3, <1>6, <1>7, <1>8, StartMove

LEMMA ResumeWaitCalm ==
    ASSUME Inv, NEW k \in Reapers, ResumeWait(k)
    PROVE  Calm
<1>1. k \in Tasks /\ k \notin Runs /\ k \notin Pausers
  BY Kinds
<1>2. StoreTypeOK' /\ RowsCalm(crashes # 0) /\ PauseCalm /\ MemCalm
  BY SameStore, SameMemory DEF ResumeWait
<1> QED BY <1>1, <1>2, PCFacts, GotoCalm DEF ResumeWait, NoRunPCs

LEMMA ResumeDoneCalm ==
    ASSUME Inv, NEW k \in Reapers, ResumeDone(k)
    PROVE  Calm
<1>1. k \in Tasks /\ k \notin Runs /\ k \notin Pausers
  BY Kinds
<1>2. UNCHANGED dbVars /\ MemCalm
  BY SameMemory DEF ResumeDone
<1> QED BY <1>1, <1>2, FinishCalm DEF ResumeDone

-----------------------------------------------------------------------------
(* The surroundings: no task moves.                                          *)

LEMMA StillCalm ==
    ASSUME Inv, UNCHANGED task, StoreTypeOK', RowsCalm(crashes # 0), PauseCalm, MemCalm
    PROVE  Calm
<1>1. task \in [Tasks -> TaskOK]
  BY DEF Inv, TypeInv
<1> QED BY <1>1 DEF Calm

LEMMA BoardCalm ==
    ASSUME Inv,
           \/ \E a \in Resumable : ResumeAgent(a)
           \/ \E a \in Blockable : ToggleBlock(a)
           \/ \E i \in Editable : EditIssue(i)
    PROVE  Calm
<1>1. StoreTypeOK /\ RowsNumbered
  BY DEF Inv, TypeInv, TypeOK, Numbered
<1>2. CASE \E a \in Resumable : ResumeAgent(a)
  <2>1. StoreTypeOK' /\ PauseCalm
    BY <1>1, <1>2 DEF ResumeAgent, StoreTypeOK, AgentStatuses, PauseCalm
  <2>2. RowsCalm(crashes # 0)
    BY <1>1, <1>2, SameRowsCalm DEF ResumeAgent
  <2>3. UNCHANGED memVars
    BY <1>2 DEF ResumeAgent
  <2> QED BY <2>1, <2>2, <2>3, SameMemory, StillCalm DEF memVars
<1>3. CASE \E a \in Blockable : ToggleBlock(a)
  <2>1. UNCHANGED <<dbVars, active, procs, child, task, booted, crashes>>
    BY <1>3 DEF ToggleBlock
  <2>2. blocked' \subseteq Agents
    BY <1>3, HeartbeatAssumption DEF ToggleBlock, Inv, TypeInv, TypeOK
  <2>3. MemCalm
    BY <2>1, <2>2 DEF MemCalm, Inv, TypeInv, TypeOK, Children
  <2> QED BY <2>1, <2>3, SameStore, StillCalm
<1>4. CASE \E i \in Editable : EditIssue(i)
  <2>1. StoreTypeOK' /\ PauseCalm
    BY <1>1, <1>4 DEF EditIssue, UpdateIssueClearsLock, StoreTypeOK, PauseCalm
  <2>2. RowsCalm(crashes # 0)
    BY <1>1, <1>4, SameRowsCalm DEF EditIssue, UpdateIssueClearsLock
  <2>3. UNCHANGED memVars
    BY <1>4 DEF EditIssue
  <2> QED BY <2>1, <2>2, <2>3, SameMemory, StillCalm DEF memVars
<1> QED BY <1>2, <1>3, <1>4

LEMMA ChildCalm ==
    ASSUME Inv, NEW r \in Runs, PersistPid(r) \/ ChildExit(r) \/ ReportActivity(r)
    PROVE  Calm
<1>1. StoreTypeOK /\ RowsNumbered /\ (crashes # 0) \in BOOLEAN
  BY DEF Inv, TypeInv, TypeOK, Numbered
<1>2. CASE PersistPid(r) \/ ReportActivity(r)
  <2>1. UNCHANGED <<created, lock, lockKey, deferred, agentStatus, memVars>>
    BY <1>2 DEF PersistPid, ReportActivity
  <2>2. r <= created
    BY <1>2 DEF PersistPid, ReportActivity, Inv, Launching, Idle, Numbered, RowsNumbered,
                Runs, TypeInv, TypeOK, StoreTypeOK
  <2>3. RowsCalm(crashes # 0) /\ runs' \in [Runs -> RunRecord]
    BY <1>1, <1>2, <2>1, <2>2, FlagCalm DEF PersistPid, ReportActivity
  <2>4. StoreTypeOK' /\ PauseCalm
    BY <1>1, <2>1, <2>3 DEF StoreTypeOK, PauseCalm
  <2> QED BY <2>1, <2>3, <2>4, SameMemory, StillCalm DEF memVars
<1>3. CASE ChildExit(r)
  <2>1. MemCalm
    BY <1>3 DEF ChildExit, MemCalm, Inv, TypeInv, TypeOK, Children
  <2> QED BY <1>3, <2>1, SameStore, StillCalm DEF ChildExit
<1> QED BY <1>2, <1>3

LEMMA StutterCalm ==
    ASSUME Inv, UNCHANGED vars
    PROVE  Calm
  BY SameStore, SameMemory, StillCalm DEF vars, memVars

-----------------------------------------------------------------------------
(* The three steps that are not calm.                                        *)

(* A claim: the run has no executor and no other starter, because it is       *)
(* queued, and its slot was counted when it was selected.                     *)
LEMMA ClaimUpdateInv ==
    ASSUME Inv, NEW a \in Agents, ClaimUpdate(a)
    PROVE  Inv'
<1> DEFINE r == task[a].run
<1>1. /\ a \in Tasks /\ a \notin Runs /\ a \notin Pausers /\ task[a] \in TaskRecord
      /\ task[a].pc = "claiming" /\ r \in Runs /\ r <= created
      /\ UNCHANGED <<created, lock, lockKey, deferred, agentStatus>>
      /\ UNCHANGED <<blocked, active, procs, child, booted, crashes>>
  BY Kinds, TaskFacts DEF ClaimUpdate, NoRunPCs
<1>2. /\ StoreTypeOK /\ RowsNumbered /\ task \in [Tasks -> TaskOK]
      /\ runs \in [Runs -> RunRecord] /\ runs[r] \in RunRecord
  BY <1>1 DEF Inv, TypeInv, TypeOK, Numbered, StoreTypeOK
<1>3. CASE ~MayClaim(r)
  <2>1. Goto(a, "claim") /\ UNCHANGED runs
    BY <1>3 DEF ClaimUpdate
  <2>2. StoreTypeOK' /\ RowsCalm(crashes # 0) /\ PauseCalm /\ MemCalm
    BY <1>1, <2>1, SameStore, SameMemory DEF dbVars
  <2>3. Calm
    BY <1>1, <2>1, <2>2, PCFacts, GotoCalm
  <2> QED BY <2>3, CalmInv
<1>4. CASE MayClaim(r)
  <2> DEFINE y == [task[a] EXCEPT !.pc = "stamp", !.got = task[a].got \cup {r}]
  <2>1. SetClaimed(r) /\ task' = [task EXCEPT ![a] = y] /\ runs[r].status = "queued"
    BY <1>4 DEF ClaimUpdate, MayClaim
  <2>2. /\ y \in TaskOK /\ y.pc = "stamp" /\ y.run = r /\ y.todo = task[a].todo
        /\ y.got = task[a].got \cup {r}
    BY <1>1, PCFacts DEF TaskOK, TaskRecord, NoRunPCs
  <2>3. /\ runs' \in [Runs -> RunRecord]
        /\ runs'[r].status = "running" /\ runs'[r].agent = runs[r].agent
        /\ \A q \in Runs : q # r => runs'[q] = runs[q]
    <3>1. runs' = [runs EXCEPT ![r] = [runs[r] EXCEPT !.status = "running"]]
      BY <1>2, <2>1 DEF SetClaimed
    <3>2. [runs[r] EXCEPT !.status = "running"] \in RunRecord
      BY <1>2 DEF RunRecord, RunStatuses
    <3> QED BY <1>1, <1>2, <3>1, <3>2 DEF RunRecord
  <2>4. /\ task' \in [Tasks -> TaskOK] /\ task'[a] = y
        /\ \A t \in Tasks : t # a => task'[t] = task[t]
    BY <1>1, <1>2, <2>1, <2>2
  <2>5. TypeInv'
    <3>1. task' \in [Tasks -> TaskRecord]
      BY <2>4 DEF TaskOK
    <3>2. StoreTypeOK'
      BY <1>1, <1>2, <2>3 DEF StoreTypeOK
    <3> QED BY <1>1, <2>4, <3>1, <3>2 DEF TypeInv, TypeOK, Inv
  <2>6. Numbered'
    <3>1. RowsNumbered'
      BY <1>1, <1>2, <2>3 DEF RowsNumbered
    <3>2. task'[a].run = task[a].run /\ task'[a].todo = task[a].todo
      BY <2>2, <2>4
    <3>3. \A t \in Tasks : task'[t].run = task[t].run /\ task'[t].todo = task[t].todo
      BY <2>4, <3>2
    <3> QED BY ONLY Inv, <1>1, <3>1, <3>3 DEF Numbered, Inv
  <2>7. /\ task[r].pc = "idle" /\ \A b \in Agents : r \notin task[b].got
        /\ \A q \in Runs : task'[q] = task[q]
    BY <1>1, <2>1, <2>4, Kinds DEF Inv, Launching, Idle
  <2>8. Launching'
    <3>1. \A b \in Agents : task'[b].got \subseteq task[b].got \cup (IF b = a THEN {r} ELSE {})
      BY <2>2, <2>4, Kinds
    <3>2. \A b \in Agents : task[b].got \subseteq Runs
      BY TaskFacts, Kinds
    <3>3. \A b \in Agents : \A q \in task'[b].got : Idle(q)'
      BY <1>1, <2>7, <3>1, <3>2 DEF Inv, Launching, Idle
    <3>4. \A b, c \in Agents : b # c => task'[b].got \cap task'[c].got = {}
      BY <2>7, <3>1 DEF Inv, Launching
    <3>5. \A q \in Runs : runs'[q].status \in {"absent", "queued"} =>
            Idle(q)' /\ \A b \in Agents : q \notin task'[b].got
      BY <2>3, <2>7, <3>1 DEF Inv, Launching, Idle
    <3>6. \A q \in active : q \in Runs
      BY DEF Inv, TypeInv, TypeOK
    <3> QED BY <1>1, <2>7, <3>3, <3>4, <3>5, <3>6 DEF Inv, Launching
  <2>9. Children'
    BY <1>1, <2>7 DEF Inv, TypeInv, TypeOK, Children
  <2>10. \A q \in Runs : runs'[q].agent = runs[q].agent
    BY <2>3
  <2>11. SlotsHold'
    <3>1. SUFFICES ASSUME crashes = 0, NEW b \in Agents
                   PROVE  /\ OwnClaims(b, task'[b], runs')
                          /\ Cardinality(RunningRuns(b)') + Claims(task'[b]) <= MaxConcurrent
      BY <1>1 DEF SlotsHold
    <3>2. /\ OwnClaims(b, task[b], runs) /\ OwnClaims(a, task[a], runs)
          /\ Cardinality(RunningRuns(b)) + Claims(task[b]) <= MaxConcurrent
      BY <3>1 DEF Inv, SlotsHold
    <3>3. \A row \in task[b].todo : row.id \in Runs
      BY TaskFacts, Kinds
    <3>4. CASE b # a
      <4>1. task'[b] = task[b]
        BY <2>4, <3>4, Kinds
      <4>2. RunningRuns(b)' = RunningRuns(b)
        BY <1>1, <2>3, <2>10, <3>2, <3>4 DEF RunningRuns, OwnClaims
      <4>3. OwnClaims(b, task'[b], runs')
        <5>1. task[b].pc = "claiming" => task[b].run \in Runs
          BY TaskFacts, Kinds DEF NoRunPCs
        <5> QED BY <2>10, <3>2, <3>3, <4>1, <5>1 DEF OwnClaims
      <4> QED BY <3>2, <4>1, <4>2, <4>3
    <3>5. CASE b = a
      <4>1. RunningRuns(a)' = RunningRuns(a) \cup {r} /\ r \notin RunningRuns(a)
        BY <1>1, <2>1, <2>3, <3>2 DEF RunningRuns, OwnClaims
      <4>2. IsFiniteSet(RunningRuns(a)) /\ Cardinality(RunningRuns(a)) \in Nat
        BY RunsFinite DEF RunningRuns
      <4>3. Cardinality(RunningRuns(a)') = Cardinality(RunningRuns(a)) + 1
        BY <4>1, <4>2, FS_AddElement
      <4>4. Cardinality(task[a].todo) \in Nat
        BY <3>2, FS_CardinalityType DEF OwnClaims
      <4>5. Claims(task'[a]) = Claims(task[a]) - 1
        BY <1>1, <2>2, <2>4, <4>4 DEF Claims
      <4>6. OwnClaims(a, task'[a], runs')
        BY <2>2, <2>4, <2>10, <3>2, <3>3, <3>5 DEF OwnClaims
      <4>7. Claims(task[a]) \in Nat /\ MaxConcurrent \in Nat
        BY <4>4, HeartbeatAssumption DEF Claims
      <4> QED BY <3>2, <3>5, <4>2, <4>3, <4>5, <4>6, <4>7
    <3> QED BY <3>4, <3>5
  <2>12. SweepHolds'
    <3>1. SUFFICES ASSUME crashes = 0, NEW q \in Runs, ~Invokable(runs[q].agent)',
                          \/ runs'[q].status = "running"
                          \/ runs'[q].status = "queued" /\ Claiming(q)'
                   PROVE  \E p \in Pausers : Covers(task[p], q)'
      BY <1>1 DEF SweepHolds
    <3>2. \/ runs[q].status = "running"
          \/ runs[q].status = "queued" /\ Claiming(q)
      <4>1. CASE q = r
        BY <1>1, <2>1, <4>1 DEF Claiming
      <4>2. CASE q # r
        BY <2>2, <2>3, <2>4, <3>1, <4>2, Kinds DEF Claiming
      <4> QED BY <4>1, <4>2
    <3>3. ~Invokable(runs[q].agent)
      BY <1>1, <2>10, <3>1 DEF Invokable
    <3>4. PICK p \in Pausers : Covers(task[p], q)
      BY <3>1, <3>2, <3>3 DEF Inv, SweepHolds
    <3>5. task'[p] = task[p]
      BY <1>1, <2>4, Kinds
    <3> QED BY <2>10, <3>4, <3>5 DEF Covers
  <2> QED BY <2>5, <2>6, <2>8, <2>9, <2>11, <2>12 DEF Inv
<1> QED BY <1>3, <1>4

(* A launch: every claimed run gets its executor, and the starter forgets it. *)
LEMMA LaunchInv ==
    ASSUME Inv, NEW a \in Agents, Launch(a)
    PROVE  Inv'
<1> DEFINE got    == task[a].got
           Exe(r) == [IdleTask EXCEPT !.pc = "launched", !.run = r]
<1>1. /\ a \in Tasks /\ a \notin Runs /\ a \notin Pausers /\ got \subseteq Runs
      /\ UNCHANGED <<dbVars, blocked, active, procs, child, booted, crashes>>
  BY Kinds, TaskFacts DEF Launch
<1>2. UNCHANGED <<runs, created, lock, lockKey, deferred, agentStatus>>
  BY <1>1 DEF dbVars
<1>3. /\ task'[a] = IdleTask
      /\ \A r \in got : task'[r] = Exe(r)
      /\ \A t \in Tasks : t # a /\ t \notin got => task'[t] = task[t]
  BY <1>1, Kinds DEF Launch
<1>4. /\ \A r \in got : Idle(r) /\ runs[r].status \notin {"absent", "queued"}
      /\ \A b \in Agents : b # a => task[b].got \cap got = {}
  BY <1>1 DEF Inv, Launching
<1>5. /\ \A r \in Runs : Exe(r) \in TaskOK /\ Exe(r).pc = "launched" /\ Exe(r).run = r
                         /\ Exe(r).todo = {} /\ Exe(r).got = {}
  BY PCFacts DEF IdleTask, TaskOK, TaskRecord, NoRunPCs, NoRun
<1> HIDE DEF Exe
<1>6. /\ \A b \in Agents : b # a => task'[b] = task[b]
      /\ \A p \in Pausers : task'[p] = task[p]
  BY <1>1, <1>3, Kinds
<1>7. TypeInv'
  <2>1. ASSUME NEW t \in Tasks PROVE task'[t] \in TaskOK
    <3>1. task[t] \in TaskOK
      BY TaskFacts
    <3> QED BY <1>1, <1>3, <1>5, <3>1, IdleTaskOK
  <2>2. task' \in [Tasks -> TaskOK]
    BY <2>1 DEF Launch
  <2>3. task' \in [Tasks -> TaskRecord]
    BY <2>2 DEF TaskOK
  <2>4. StoreTypeOK'
    BY <1>1, SameStore
  <2> QED BY <1>1, <2>2, <2>3, <2>4 DEF TypeInv, TypeOK, Inv
<1>8. Numbered'
  <2>1. created \in Nat /\ \A r \in got : r <= created
    BY <1>1, <1>4 DEF Inv, TypeInv, TypeOK, StoreTypeOK, Numbered, RowsNumbered, Runs
  <2>2. ASSUME NEW t \in Tasks
        PROVE  task'[t].run <= created /\ \A row \in task'[t].todo : row.id <= created
    <3>1. task[t].run <= created /\ \A row \in task[t].todo : row.id <= created
      BY TaskFacts
    <3> QED BY <1>1, <1>3, <1>5, <2>1, <3>1, IdleTaskFields
  <2> QED BY <1>2, <2>2 DEF Numbered, RowsNumbered, Inv
<1>9. ASSUME NEW r \in Runs
      PROVE  task'[r] = IF r \in got THEN Exe(r) ELSE task[r]
  BY <1>1, <1>3, Kinds
<1>10. Launching'
  <2>1. \A r \in active : r \in Runs /\ r \notin got
    BY <1>4 DEF Inv, TypeInv, TypeOK, Launching, Idle
  <2>2. \A b \in Agents : task'[b].got = IF b = a THEN {} ELSE task[b].got
    BY <1>3, <1>6, IdleTaskFields
  <2>3. \A b \in Agents : task[b].got \subseteq Runs
    BY TaskFacts, Kinds
  <2>4. \A b \in Agents : \A r \in task'[b].got : Idle(r)'
    BY <1>4, <1>9, <2>2, <2>3 DEF Idle, Inv, Launching
  <2>5. \A b, c \in Agents : b # c => task'[b].got \cap task'[c].got = {}
    BY <2>2 DEF Inv, Launching
  <2>6. \A r \in Runs : runs'[r].status \in {"absent", "queued"} =>
            Idle(r)' /\ \A b \in Agents : r \notin task'[b].got
    BY <1>2, <1>4, <1>9, <2>2 DEF Idle, Inv, Launching
  <2>7. \A r \in Runs : task'[r].pc \in {"setup", "starting"} => r \in active'
    BY <1>1, <1>5, <1>9 DEF Inv, Launching
  <2>8. \A r \in active' : task'[r].pc \notin {"idle", "launched", "kick"}
    BY <1>1, <1>9, <2>1 DEF Inv, Launching
  <2> QED BY <2>4, <2>5, <2>6, <2>7, <2>8 DEF Launching
<1>11. Children'
  <2>1. crashes = 0 => \A r \in child : r \in Runs /\ r \notin got
    BY <1>4 DEF Inv, TypeInv, TypeOK, Children, Idle
  <2> QED BY <1>1, <1>9, <2>1 DEF Inv, Children
<1>12. SlotsHold'
  <2>1. SUFFICES ASSUME crashes = 0, NEW b \in Agents
                 PROVE  /\ OwnClaims(b, task'[b], runs)
                        /\ Cardinality(RunningRuns(b)) + Claims(task'[b]) <= MaxConcurrent
    BY <1>1, <1>2 DEF SlotsHold, RunningRuns
  <2>2. /\ OwnClaims(b, task[b], runs)
        /\ Cardinality(RunningRuns(b)) + Claims(task[b]) <= MaxConcurrent
    BY <2>1 DEF Inv, SlotsHold
  <2>3. CASE b # a
    BY <1>6, <2>2, <2>3
  <2>4. CASE b = a
    <3>1. Claims(IdleTask) = 0 /\ OwnClaims(a, IdleTask, runs)
      BY IdleTaskFields, FS_EmptySet DEF Claims, OwnClaims
    <3>2. Claims(task[a]) \in Nat /\ MaxConcurrent \in Nat
      BY <2>2, <2>4, FS_CardinalityType, HeartbeatAssumption DEF OwnClaims, Claims
    <3>3. Cardinality(RunningRuns(a)) \in Nat
      BY RunsFinite DEF RunningRuns
    <3> QED BY <1>3, <2>2, <2>4, <3>1, <3>2, <3>3
  <2> QED BY <2>3, <2>4
<1>13. SweepHolds'
  <2>1. \A r \in Runs : Claiming(r)' => Claiming(r)
    BY <1>3, <1>6, IdleTaskFields DEF Claiming
  <2>2. \A p \in Pausers, r \in Runs : Covers(task[p], r) => Covers(task[p], r)'
    BY <1>2, <1>6 DEF Covers
  <2> QED BY <1>1, <1>2, <2>1, <2>2 DEF SweepHolds, Inv, Invokable
<1> QED BY <1>7, <1>8, <1>10, <1>11, <1>12, <1>13 DEF Inv

(* A restart: no task and no handle is left, and a limit is not claimed.     *)
LEMMA CrashInv ==
    ASSUME Inv, Crash
    PROVE  Inv'
<1>1. /\ crashes \in Nat /\ crashes' = crashes + 1 /\ crashes' \in 0 .. MaxCrashes
      /\ crashes' # 0
  BY HeartbeatAssumption DEF Crash, Inv, TypeInv, TypeOK
<1>2. StoreTypeOK' /\ UNCHANGED <<runs, created>>
  BY SameStore DEF Crash, dbVars
<1>3. TypeInv'
  <2>1. task' \in [Tasks -> TaskOK] /\ task' \in [Tasks -> TaskRecord]
    BY IdleTaskOK DEF Crash, TaskOK
  <2> QED BY <1>1, <1>2, <2>1 DEF Crash, TypeInv, TypeOK, Inv
<1>4. \A t \in Tasks : task'[t].pc = "idle" /\ task'[t].run = 0 /\ task'[t].todo = {}
                       /\ task'[t].got = {}
  BY DEF Crash, IdleTask, NoRun
<1>5. Numbered'
  <2>1. created \in Nat
    BY DEF Inv, TypeInv, TypeOK, StoreTypeOK
  <2> QED BY <1>2, <1>4, <2>1 DEF Numbered, RowsNumbered, Inv
<1>6. Launching'
  BY <1>4, Kinds DEF Crash, Launching, Idle
<1>7. Children' /\ SlotsHold' /\ SweepHolds'
  BY <1>1 DEF Crash, Children, SlotsHold, SweepHolds
<1> QED BY <1>3, <1>5, <1>6, <1>7 DEF Inv

-----------------------------------------------------------------------------
(* Inv is inductive.                                                         *)

LEMMA InitInv == Init => Inv
<1> SUFFICES ASSUME Init PROVE Inv
  OBVIOUS
<1>0. MaxCrashes \in Nat /\ MaxConcurrent \in Nat
  BY HeartbeatAssumption
<1>1. \A t \in Tasks : task[t] = IdleTask
  BY DEF Init
<1>2. IdleTask.pc = "idle" /\ IdleTask.run = 0 /\ IdleTask.todo = {} /\ IdleTask.got = {}
  BY IdleTaskFields
<1>3. /\ created = 0 /\ \A r \in Runs : runs[r].status = "absent" /\ runs[r].agent = NoAgent
      /\ active = {} /\ procs = {} /\ child = {}
  BY DEF Init, StoreInit, AbsentRun
<1>4. TypeInv
  <2>1. AbsentRun \in RunRecord
    BY DEF AbsentRun, RunRecord, RunStatuses
  <2>2. StoreTypeOK
    BY <2>1, RunStoreAssumption DEF Init, StoreInit, StoreTypeOK, AgentStatuses
  <2>3. task \in [Tasks -> TaskOK] /\ task \in [Tasks -> TaskRecord]
    BY IdleTaskOK DEF Init, TaskOK
  <2>4. /\ blocked \subseteq Agents /\ active \subseteq Runs /\ procs \subseteq Runs
        /\ child \subseteq Runs /\ booted \in BOOLEAN
    BY Zenon DEF Init
  <2>5. crashes \in 0 .. MaxCrashes
    <3>1. crashes = 0
      BY DEF Init
    <3> QED BY <1>0, <3>1
  <2> QED BY <2>2, <2>3, <2>4, <2>5 DEF TypeInv, TypeOK
<1>5. Numbered
  BY <1>1, <1>2, <1>3 DEF Numbered, RowsNumbered, Runs
<1>6. Launching
  BY <1>1, <1>2, <1>3, Kinds DEF Launching, Idle
<1>7. Children
  BY <1>3 DEF Children
<1>8. SlotsHold
  <2>1. \A a \in Agents : RunningRuns(a) = {}
    BY <1>3 DEF RunningRuns
  <2>2. \A a \in Agents : OwnClaims(a, task[a], runs) /\ Claims(task[a]) = 0
    BY <1>1, <1>2, FS_EmptySet, Kinds DEF OwnClaims, Claims
  <2>3. \A a \in Agents : Cardinality(RunningRuns(a)) + Claims(task[a]) <= MaxConcurrent
    <3>1. Cardinality({}) = 0
      BY FS_EmptySet
    <3> QED BY <1>0, <2>1, <2>2, <3>1
  <2> QED BY <2>2, <2>3 DEF SlotsHold
<1>9. SweepHolds
  BY <1>3 DEF SweepHolds
<1> QED BY <1>4, <1>5, <1>6, <1>7, <1>8, <1>9 DEF Inv

LEMMA StepKinds ==
    ASSUME Inv, [Next]_vars
    PROVE  \/ Calm \/ Crash
           \/ \E a \in Agents : ClaimUpdate(a) \/ Launch(a)
<1>1. ASSUME NEW t \in Tasks \ Pausers, TailStep(t) PROVE Calm
  BY <1>1, ReleaseStepCalm, PromoteStartCalm, PromoteDoneCalm, FinalizeReadCalm,
     FinalizeWriteCalm, KickCalm, KickDoneCalm DEF TailStep
<1>2. ASSUME NEW w \in Wakers, WakerStep(w) PROVE Calm
  BY <1>2, WakeCommitCalm, WakeReturnCalm, KickCalm, Kinds DEF WakerStep
<1>3. ASSUME NEW a \in Agents, StarterStep(a), ~ClaimUpdate(a), ~Launch(a) PROVE Calm
  <2>1. a \in Tasks \ Pausers
    BY Kinds
  <2> QED BY <1>1, <1>3, <2>1, StartCheckCalm, StartSelectCalm, ClaimReadCalm,
             ClaimStampCalm, CancelReadCalm, CancelMarkCalm DEF StarterStep
<1>4. ASSUME NEW r \in Runs, ExecutorStep(r) PROVE Calm
  <2>1. r \in Tasks \ Pausers
    BY Kinds
  <2> QED BY <1>1, <1>4, <2>1, ExecBeginCalm, ExecPrepareCalm, ExecSpawnCalm, ExecEndCalm,
             ExecMarkCalm, ExecCleanupCalm DEF ExecutorStep
<1>5. ASSUME NEW c \in Cancellers, CancellerStep(c) PROVE Calm
  BY <1>1, <1>5, CancelMarkCalm, Kinds DEF CancellerStep
<1>6. ASSUME NEW p \in Pausers, PauserStep(p) PROVE Calm
  BY <1>6, SweepScanCalm, SweepMarkCalm, SweepDoneCalm, ReleaseStepCalm,
     PromoteStartCalm, PromoteDoneCalm, Kinds DEF PauserStep
<1>7. ASSUME NEW k \in Reapers, ReaperStep(k) PROVE Calm
  <2>1. k \in Tasks \ Pausers
    BY Kinds
  <2> QED BY <1>1, <1>7, <2>1, StartupScanCalm, ReapRowCalm, RetryStepCalm, ReapDoneCalm,
             ResumeNextCalm, ResumeWaitCalm, ResumeDoneCalm DEF ReaperStep
<1>8. ASSUME EnvironmentStep, ~Crash PROVE Calm
  BY <1>8, WakeAdmitCalm, CancelRequestCalm, PauseStepCalm, PeriodicScanCalm,
     BoardCalm, ChildCalm DEF EnvironmentStep
<1>9. CASE UNCHANGED vars
  BY <1>9, StutterCalm
<1> QED BY <1>2, <1>3, <1>4, <1>5, <1>6, <1>7, <1>8, <1>9 DEF Next

LEMMA NextInv == Inv /\ [Next]_vars => Inv'
  BY StepKinds, CalmInv, CrashInv, ClaimUpdateInv, LaunchInv

LEMMA Invariance == Spec => []Inv
  BY InitInv, NextInv, PTL DEF Spec

-----------------------------------------------------------------------------
(* The results.                                                              *)

(* Rows, memory and tasks keep their types, for all constants.               *)
THEOREM TypeCorrect == Spec => []TypeOK
<1>1. Inv => TypeOK
  BY DEF Inv, TypeInv
<1> QED BY <1>1, Invariance, PTL

(* A run is launched once, for all constants: whatever wakeups, starters,     *)
(* cancellations, sweeps, reapers, retries and restarts interleave.          *)
THEOREM RunsAreLaunchedOnce == Spec => []LaunchedOnce
<1>1. Inv => LaunchedOnce
  BY DEF Inv, Launching, LaunchedOnce, Idle
<1> QED BY <1>1, Invariance, PTL

(* Until the server restarts, a live child has an executor in charge of it.   *)
THEOREM ChildrenHaveExecutors == Spec => []ChildHasExecutor
<1>1. Inv => ChildHasExecutor
  BY DEF Inv, Children, ChildHasExecutor
<1> QED BY <1>1, Invariance, PTL

(* Until the server restarts, an agent has at most maxConcurrentRuns runs in  *)
(* status running.  (After a restart a detached run may be revived on top of  *)
(* them: see the README.)                                                    *)
THEOREM LimitIsKept == Spec => [](crashes = 0 => RunningWithinLimit)
<1>1. Inv => (crashes = 0 => RunningWithinLimit)
  <2>1. SUFFICES ASSUME Inv, crashes = 0, NEW a \in Agents
                 PROVE  Cardinality(RunningRuns(a)) <= MaxConcurrent
    BY DEF RunningWithinLimit
  <2>2. /\ IsFiniteSet(task[a].todo)
        /\ Cardinality(RunningRuns(a)) + Claims(task[a]) <= MaxConcurrent
    BY <2>1 DEF Inv, SlotsHold, OwnClaims
  <2>3. Claims(task[a]) \in Nat /\ MaxConcurrent \in Nat
    BY <2>2, FS_CardinalityType, HeartbeatAssumption DEF Claims
  <2>4. Cardinality(RunningRuns(a)) \in Nat
    BY RunsFinite DEF RunningRuns
  <2> QED BY <2>2, <2>3, <2>4
<1> QED BY <1>1, Invariance, PTL

(* Until the server restarts, no run of an agent slips past the sweep that    *)
(* its pause began.                                                          *)
THEOREM PauseSweepsAll == Spec => [](crashes = 0 => PausedIsSwept)
<1>1. Inv => (crashes = 0 => PausedIsSwept)
  BY DEF Inv, SweepHolds, PausedIsSwept, Covers
<1> QED BY <1>1, Invariance, PTL

-----------------------------------------------------------------------------
(* The refinement.                                                           *)

LEMMA QueueInit == Init => Queue!Init
  BY DEF Init, StoreInit, AbsentRun, Queue!Init

(* A step that leaves the rows alone is a stutter of the queue.              *)
LEMMA QueueStutter == ASSUME UNCHANGED runs PROVE UNCHANGED Queue!vars
  BY DEF Queue!vars

(* A calm step inserts a run, ends a run, or changes no status.              *)
LEMMA QueueCalm ==
    ASSUME Inv, Calm, crashes = 0
    PROVE  [Queue!Next]_Queue!vars
<1>1. /\ RowsCalm(FALSE) /\ created \in Nat /\ created' \in Nat
      /\ runs \in [Runs -> RunRecord] /\ runs' \in [Runs -> RunRecord]
  BY DEF Calm, RowsCalm, Inv, TypeInv, TypeOK, StoreTypeOK
<1>2. CASE \A r \in Runs : runs'[r] = runs[r]
  <2>1. UNCHANGED runs
    BY <1>1, <1>2
  <2> QED BY <2>1, QueueStutter
<1>3. ASSUME NEW r \in Runs, runs'[r] # runs[r]
      PROVE  [Queue!Next]_Queue!vars
  <2>1. \A q \in Runs : q # r => runs'[q] = runs[q]
    BY <1>1, <1>3 DEF RowsCalm
  <2>2. runs'[r].status \in RunStatuses /\ runs[r].status \in RunStatuses
    BY <1>1 DEF RunRecord
  <2>3. CASE created < r /\ r <= created'
    <3>1. /\ runs[r].status = "absent" /\ runs'[r].status = "queued"
          /\ runs'[r].agent \in Agents
      BY <1>1, <2>3 DEF RowsCalm, Inv, Numbered, RowsNumbered
    <3>2. PICK a \in Agents : a = runs'[r].agent
      BY <3>1
    <3>3. Queue!Submit(r, a)
      BY <2>1, <3>1, <3>2 DEF Queue!Submit
    <3> QED BY <3>3 DEF Queue!Next
  <2>4. CASE r <= created /\ runs'[r].status # runs[r].status
             /\ runs[r].status \in {"queued", "running"}
    <3>1. runs'[r].status \in Terminal /\ runs'[r].agent = runs[r].agent
      BY <1>1, <2>4 DEF RowsCalm
    <3>2. Queue!End(r)
      BY <2>1, <2>4, <3>1 DEF Queue!End, Terminal
    <3> QED BY <3>2 DEF Queue!Next
  <2>5. CASE r <= created /\ (runs'[r].status = runs[r].status \/
                              runs[r].status \in Terminal)
    <3>1. /\ runs'[r].agent = runs[r].agent
          /\ \/ runs'[r].status = runs[r].status
             \/ runs'[r].status \in Terminal /\ runs[r].status \in Terminal
      BY <1>1, <2>5 DEF RowsCalm
    <3>2. \A q \in Runs : runs'[q].agent = runs[q].agent
      BY <2>1, <3>1
    <3>3. UNCHANGED Queue!vars
      BY <2>1, <3>1, <3>2 DEF Queue!vars, Terminal
    <3> QED BY <3>3
  <2>6. CASE created' < r
    BY <1>1, <1>3, <2>6 DEF RowsCalm, Inv, Numbered, RowsNumbered
  <2>7. runs[r].status # "absent" \/ created < r
    BY <1>1 DEF Inv, Numbered, RowsNumbered, Runs
  <2> QED BY <1>1, <2>2, <2>3, <2>4, <2>5, <2>6, <2>7 DEF RunStatuses, Runs
<1> QED BY <1>2, <1>3

(* A claim starts a run, and there is a slot for it.                         *)
LEMMA QueueClaim ==
    ASSUME Inv, NEW a \in Agents, ClaimUpdate(a), crashes = 0
    PROVE  [Queue!Next]_Queue!vars
<1>1. task[a].run \in Runs /\ task[a].pc = "claiming"
  BY TaskFacts, Kinds DEF ClaimUpdate, NoRunPCs
<1>2. PICK r \in Runs : r = task[a].run
  BY <1>1
<1>3. CASE ~MayClaim(r)
  BY <1>3, <1>2, QueueStutter DEF ClaimUpdate
<1>4. CASE MayClaim(r)
  <2>1. /\ runs[r].status = "queued"
        /\ runs' = [runs EXCEPT ![r].status = "running"]
        /\ runs \in [Runs -> RunRecord] /\ runs[r] \in RunRecord
    BY <1>4, <1>2 DEF ClaimUpdate, MayClaim, SetClaimed, Inv, TypeInv, TypeOK, StoreTypeOK
  <2>2. /\ runs'[r].status = "running" /\ runs'[r].agent = runs[r].agent
        /\ \A q \in Runs : q # r => runs'[q] = runs[q]
    BY <2>1 DEF RunRecord
  <2>3. /\ runs[r].agent = a /\ IsFiniteSet(task[a].todo)
        /\ Cardinality(RunningRuns(a)) + Claims(task[a]) <= MaxConcurrent
    BY <1>1, <1>2 DEF Inv, SlotsHold, OwnClaims
  <2>4. Cardinality(RunningRuns(a)) < MaxConcurrent
    <3>1. Cardinality(task[a].todo) \in Nat /\ MaxConcurrent \in Nat
      BY <2>3, FS_CardinalityType, HeartbeatAssumption
    <3>2. Cardinality(RunningRuns(a)) \in Nat
      BY RunsFinite DEF RunningRuns
    <3> QED BY <1>1, <2>3, <3>1, <3>2 DEF Claims
  <2>5. Queue!RunningOf(a) = RunningRuns(a)
    BY DEF Queue!RunningOf, RunningRuns
  <2>6. Queue!Cardinality(Queue!RunningOf(a)) = Cardinality(RunningRuns(a))
    BY <2>5 DEF Queue!Cardinality, Cardinality
  <2>7. Queue!Start(r)
    BY <2>1, <2>2, <2>3, <2>4, <2>6 DEF Queue!Start
  <2> QED BY <2>7 DEF Queue!Next
<1> QED BY <1>3, <1>4

(* Until the server restarts, the orchestrator implements RunQueue: a run is  *)
(* submitted once, started at most once and only into a free slot, and over   *)
(* for good, whatever its tasks interleave.                                  *)
THEOREM QueueIsImplemented == Spec /\ [](crashes = 0) => ImplementsQueue
<1>1. Inv /\ crashes = 0 /\ (crashes = 0)' /\ [Next]_vars => [Queue!Next]_Queue!vars
  <2> SUFFICES ASSUME Inv, crashes = 0, crashes' = 0, [Next]_vars
               PROVE  [Queue!Next]_Queue!vars
    OBVIOUS
  <2>1. ~Crash
    BY DEF Crash
  <2>2. \A a \in Agents : Launch(a) => UNCHANGED runs
    BY DEF Launch, dbVars
  <2> QED BY <2>1, <2>2, StepKinds, QueueCalm, QueueClaim, QueueStutter
<1> QED BY <1>1, QueueInit, Invariance, PTL DEF Spec, ImplementsQueue, Queue!Spec

-----------------------------------------------------------------------------
(* The reaper: mild steps.                                                   *)

LEMMA MildKeeps ==
    ASSUME Inv, Inv', created <= created', ReaperInv, Mild
    PROVE  ReaperInv'
<1>1. \A r \in Runs : Retried(r)' => Retried(r)
  <2>1. ASSUME NEW r \in Runs, NEW q \in Runs, runs'[q].retryOf = r
        PROVE  runs[q].retryOf = r
    <3>1. r # NoRun
      BY DEF Runs, NoRun
    <3> QED BY <2>1, <3>1 DEF Mild, RowsMild
  <2> QED BY <2>1 DEF Retried
<1>2. created \in Nat /\ created' \in Nat
  BY DEF Inv, TypeInv, TypeOK, StoreTypeOK
<1>3. RetryRows'
  <2>1. SUFFICES ASSUME NEW r \in Runs
                 PROVE  IF runs'[r].retryOf = NoRun THEN runs'[r].retries = 0
                        ELSE /\ runs'[r].retries > 0
                             /\ runs'[r].retryOf <= created'
                             /\ runs'[runs'[r].retryOf].retries = 0
                             /\ runs'[runs'[r].retryOf].status \in Terminal
                             /\ \A q \in Runs : runs'[q].retryOf = runs'[r].retryOf => q = r
    BY DEF RetryRows
  <2>2. CASE runs'[r].retryOf = NoRun
    BY <2>2 DEF Mild, RowsMild, ReaperInv, RetryRows
  <2>3. CASE runs'[r].retryOf # NoRun
    <3>1. runs'[r].retryOf = runs[r].retryOf /\ runs'[r].retries = runs[r].retries
      BY <2>3 DEF Mild, RowsMild
    <3>2. PICK o \in Runs : o = runs[r].retryOf
      BY <2>3, <3>1 DEF Inv, TypeInv, TypeOK, StoreTypeOK, RunRecord, NoRun
    <3>3. /\ runs[r].retries > 0 /\ o <= created
          /\ runs[o].retries = 0 /\ runs[o].status \in Terminal
          /\ \A q \in Runs : runs[q].retryOf = o => q = r
      BY <2>3, <3>1, <3>2 DEF ReaperInv, RetryRows
    <3>4. runs'[o].retries = 0 /\ runs'[o].status \in Terminal
      BY <3>3 DEF Mild, RowsMild
    <3>5. \A q \in Runs : runs'[q].retryOf = o => q = r
      <4>1. o # NoRun
        BY DEF Runs, NoRun
      <4> QED BY <3>3, <4>1 DEF Mild, RowsMild
    <3>6. o <= created'
      BY <1>2, <3>3 DEF Runs
    <3> QED BY <2>3, <3>1, <3>2, <3>3, <3>4, <3>5, <3>6
  <2> QED BY <2>2, <2>3
<1>4. ASSUME NEW k \in Reapers PROVE Reaping(k)'
  <2>1. k \in Tasks /\ Reaping(k)
    BY Kinds DEF ReaperInv
  <2>2. task'[k].todo \subseteq task[k].todo /\ \A row \in task[k].todo : row.id \in Runs
    BY <2>1, TaskFacts DEF Mild, TasksMild
  <2>3. /\ \A p, q \in task'[k].todo : p.id = q.id => p = q
        /\ \A row \in task'[k].todo : ~Retried(row.id)'
    BY <1>1, <2>1, <2>2 DEF Reaping
  <2>4. CASE task'[k].pc \notin {"retry", "release"}
    BY <2>3, <2>4 DEF Reaping
  <2>5. CASE task'[k].pc \in {"retry", "release"}
    <3>1. task'[k] = task[k]
      BY <2>5 DEF Mild, TasksMild
    <3>2. PICK r \in Runs : r = task[k].run
      BY <2>1, <2>5, <3>1, TaskFacts DEF NoRunPCs
    <3>3. /\ runs[r].status \in Terminal /\ r \notin active
          /\ \A row \in task[k].todo : row.id # r
          /\ task[k].pc = "retry" => r \notin child /\ runs[r].retries = 0 /\ ~Retried(r)
      BY <2>1, <2>5, <3>1, <3>2 DEF Reaping
    <3>4. runs'[r].status \in Terminal /\ (runs[r].retries = 0 => runs'[r].retries = 0)
      BY <3>3 DEF Mild, RowsMild
    <3>5. ~Active(r)
      BY <3>3 DEF Active, Terminal
    <3>6. r \notin active' /\ (r \notin child => r \notin child')
      BY <3>3, <3>5 DEF Mild, ProcsMild
    <3>7. ~Retried(r) => ~Retried(r)'
      BY <1>1
    <3>8. task'[k].run = r
      BY <3>1, <3>2
    <3>9. task[k].pc = "retry" => r \notin child' /\ runs'[r].retries = 0 /\ ~Retried(r)'
      BY <3>3, <3>4, <3>6, <3>7
    <3>10. \A row \in task'[k].todo : row.id # r
      BY <3>1, <3>3
    <3> QED BY <2>3, <3>1, <3>4, <3>6, <3>8, <3>9, <3>10 DEF Reaping
  <2> QED BY <2>4, <2>5
<1> QED BY <1>3, <1>4 DEF ReaperInv

(* The statements on the rows that neither revive nor retry.                 *)
LEMMA SameRowsMild == ASSUME UNCHANGED runs PROVE RowsMild
  BY DEF RowsMild

LEMMA NewRunMild ==
    ASSUME Inv, NEW a, NEW i, runs' = WithNewRun(a, i, NoRun, 0)
    PROVE  RowsMild
<1>1. runs \in [Runs -> RunRecord] /\ created \in Nat
  BY DEF Inv, TypeInv, TypeOK, StoreTypeOK
<1>2. \A r \in Runs : r # created + 1 => runs'[r] = runs[r]
  BY <1>1 DEF WithNewRun
<1>3. created + 1 \in Runs =>
        /\ runs'[created + 1].retryOf = NoRun /\ runs'[created + 1].retries = 0
        /\ runs[created + 1].status = "absent"
  BY <1>1 DEF WithNewRun, AbsentRun, Inv, Numbered, RowsNumbered
<1> QED BY <1>2, <1>3 DEF RowsMild, Terminal

LEMMA RunUpdateMild ==
    ASSUME Inv, NEW r \in Runs, NEW s \in Terminal,
           \/ SetRunStatus(r, s)
           \/ runs[r].status = "queued" /\ SetClaimed(r)
           \/ runs' = [runs EXCEPT ![r].pid = TRUE]
           \/ runs' = [runs EXCEPT ![r].detached = FALSE]
    PROVE  RowsMild
<1>1. runs \in [Runs -> RunRecord] /\ runs[r] \in RunRecord
  BY DEF Inv, TypeInv, TypeOK, StoreTypeOK
<1>2. PICK z : /\ runs' = [runs EXCEPT ![r] = z]
               /\ \/ z = [runs[r] EXCEPT !.status = s, !.detached = FALSE]
                  \/ runs[r].status = "queued" /\ z = [runs[r] EXCEPT !.status = "running"]
                  \/ z = [runs[r] EXCEPT !.pid = TRUE]
                  \/ z = [runs[r] EXCEPT !.detached = FALSE]
  BY DEF SetRunStatus, SetClaimed
<1>3. /\ z.retryOf = runs[r].retryOf /\ z.retries = runs[r].retries
      /\ runs[r].status \in Terminal => z.status \in Terminal
  BY <1>1, <1>2 DEF RunRecord, Terminal
<1>4. runs'[r] = z /\ \A q \in Runs : q # r => runs'[q] = runs[q]
  BY <1>1, <1>2
<1> QED BY <1>3, <1>4 DEF RowsMild

(* The transactions.                                                         *)
LEMMA WakeRowsMild ==
    ASSUME Inv, NEW a, NEW i, NEW comment, NEW kind, NEW r,
           \/ EnqueueIssueWake(a, i, comment, kind, r)
           \/ EnqueueScopedWake(a, i, comment, kind, r)
    PROVE  RowsMild
<1>1. UNCHANGED runs \/ runs' = WithNewRun(a, i, NoRun, 0)
  BY DEF EnqueueIssueWake, EnqueueScopedWake, QueueRun
<1> QED BY <1>1, SameRowsMild, NewRunMild

LEMMA ReleaseRowsMild ==
    ASSUME Inv, NEW r, NEW to, ReleaseAndPromote(r, to)
    PROVE  RowsMild
<1>1. UNCHANGED runs \/ \E i \in Issues : runs' = WithNewRun(to, i, NoRun, 0)
  BY DEF ReleaseAndPromote, dbVars
<1> QED BY <1>1, SameRowsMild, NewRunMild

(* A step of a task that is not a reaper, or of a reaper that reaps nothing.  *)
LEMMA SameProcsMild == ASSUME UNCHANGED <<active, child>> PROVE ProcsMild
  BY DEF ProcsMild

LEMMA MoveMild ==
    ASSUME Inv, NEW t \in Tasks, NEW y, task' = [task EXCEPT ![t] = y],
           t \in Reapers => y.todo \subseteq task[t].todo /\ y.pc \notin {"retry", "release"}
    PROVE  TasksMild
<1>1. task \in [Tasks -> TaskOK] /\ \A k \in Reapers : k \in Tasks
  BY Kinds DEF Inv, TypeInv
<1> QED BY <1>1 DEF TasksMild

LEMMA OtherMild ==
    ASSUME Inv, NEW t \in Tasks \ Reapers, NEW y, task' = [task EXCEPT ![t] = y]
    PROVE  TasksMild
  BY MoveMild

(* Plain moves.                                                              *)
LEMMA MovePlain ==
    ASSUME Inv, NEW t \in Tasks, NEW y, task' = [task EXCEPT ![t] = y], PlainMove(t, y)
    PROVE  TasksPlain
<1>1. task \in [Tasks -> TaskOK]
  BY DEF Inv, TypeInv
<1> QED BY <1>1 DEF TasksPlain

LEMMA GotoPlain ==
    ASSUME Inv, NEW t \in Tasks, NEW pc, Goto(t, pc), pc \notin SpecialPCs,
           task[t].pc # "idle"
    PROVE  TasksPlain
<1> DEFINE y == [task[t] EXCEPT !.pc = pc]
<1>1. task[t] \in TaskRecord
  BY TaskFacts
<1>2. y.pc = pc /\ y.todo = task[t].todo /\ y.run = task[t].run
  BY <1>1 DEF TaskRecord
<1>3. PlainMove(t, y)
  BY <1>2 DEF PlainMove
<1> QED BY <1>3, MovePlain DEF Goto

LEMMA FinishPlain ==
    ASSUME Inv, NEW t \in Tasks, Finish(t)
    PROVE  TasksPlain
<1>1. PlainMove(t, IdleTask)
  BY IdleTaskFields DEF PlainMove, SpecialPCs
<1> QED BY <1>1, MovePlain DEF Finish

(* A task goes on, and the step begins a start of a.                         *)
LEMMA StartPlain ==
    ASSUME Inv, NEW t \in Tasks, NEW y, NEW a \in Agents, NEW c,
           NEW z, \/ z = [IdleTask EXCEPT !.pc = "start", !.caller = c]
                  \/ z = [IdleTask EXCEPT !.pc = "start"],
           task' = [task EXCEPT ![t] = y, ![a] = z], PlainMove(t, y)
    PROVE  TasksPlain
<1>1. task \in [Tasks -> TaskOK] /\ a \in Tasks /\ a \notin Runs
  BY Kinds DEF Inv, TypeInv
<1>2. z.todo = {} /\ z.pc = "start"
  BY DEF IdleTask
<1>3. PlainMove(a, z)
  BY <1>1, <1>2 DEF PlainMove, SpecialPCs
<1> QED BY <1>1, <1>3 DEF TasksPlain

LEMMA EnterStartPlain ==
    ASSUME Inv, NEW t \in Tasks, NEW a \in Agents, NEW pc \in {"promoteWait", "kickWait"},
           EnterStart(t, a, pc), task[t].pc # "idle"
    PROVE  TasksPlain
<1> DEFINE y == [task[t] EXCEPT !.pc = pc]
<1>1. task[t] \in TaskRecord /\ a # t
  BY TaskFacts DEF EnterStart, Idle
<1>2. task' = [task EXCEPT ![t] = y,
                           ![a] = [IdleTask EXCEPT !.pc = "start", !.caller = t]]
  BY <1>1 DEF EnterStart
<1>3. y.pc = pc /\ y.todo = task[t].todo /\ y.run = task[t].run
  BY <1>1 DEF TaskRecord
<1>4. PlainMove(t, y)
  BY <1>3 DEF PlainMove, SpecialPCs
<1> QED BY <1>2, <1>4, StartPlain

(* The tail.                                                                 *)
LEMMA ReleasePlain ==
    ASSUME Inv, NEW t \in Tasks, Release(t)
    PROVE  TasksPlain
<1>1. task[t] \in TaskRecord /\ task[t].pc = "release"
  BY TaskFacts DEF Release
<1>2. PICK to \in Agents \cup {NoAgent} :
        task' = [task EXCEPT ![t].pc = IF to = NoAgent THEN AfterRelease(t) ELSE "promote",
                             ![t].to = to]
  BY DEF Release
<1>3. PICK pc \in {"sweep", "finread", "promote"} :
        task' = [task EXCEPT ![t] = [task[t] EXCEPT !.pc = pc, !.to = to]]
  BY <1>2 DEF AfterRelease
<1> DEFINE y == [task[t] EXCEPT !.pc = pc, !.to = to]
<1>4. y.pc = pc /\ y.todo = task[t].todo /\ y.run = task[t].run
  BY <1>1 DEF TaskRecord
<1>5. PlainMove(t, y)
  BY <1>1, <1>4 DEF PlainMove, SpecialPCs
<1> QED BY <1>3, <1>5, MovePlain

LEMMA TailPlain ==
    ASSUME Inv, NEW t \in Tasks, TailStep(t)
    PROVE  TasksPlain
<1>1. task[t] \in TaskRecord
  BY TaskFacts
<1>2. CASE PromoteStart(t)
  <2>1. task[t].to \in Agents
    BY <1>2, TaskFacts DEF PromoteStart
  <2> QED BY <1>2, <2>1, EnterStartPlain DEF PromoteStart
<1>3. CASE PromoteDone(t)
  BY <1>3, GotoPlain DEF PromoteDone, AfterRelease, SpecialPCs
<1>4. CASE FinalizeRead(t)
  <2>1. CASE Goto(t, AfterFinalize(t))
    BY <1>4, <2>1, GotoPlain DEF FinalizeRead, AfterFinalize, SpecialPCs
  <2>2. ASSUME NEW next, task' = [task EXCEPT ![t].pc = "finwrite", ![t].out = next]
        PROVE  TasksPlain
    <3> DEFINE y == [task[t] EXCEPT !.pc = "finwrite", !.out = next]
    <3>1. y.pc = "finwrite" /\ y.todo = task[t].todo /\ y.run = task[t].run
      BY <1>1 DEF TaskRecord
    <3>2. PlainMove(t, y)
      BY <1>4, <3>1 DEF FinalizeRead, PlainMove, SpecialPCs
    <3>3. task' = [task EXCEPT ![t] = y]
      BY <2>2
    <3> QED BY <3>2, <3>3, MovePlain
  <2> QED BY <1>4, <2>1, <2>2 DEF FinalizeRead
<1>5. CASE FinalizeWrite(t)
  BY <1>5, GotoPlain DEF FinalizeWrite, AfterFinalize, SpecialPCs
<1>6. CASE Kick(t)
  <2>1. AgentOf(t) \in Agents
    BY <1>6, TaskFacts DEF Kick, NoRunPCs
  <2>2. CASE EnterStart(t, AgentOf(t), "kickWait")
    BY <1>6, <2>1, <2>2, EnterStartPlain DEF Kick
  <2>3. CASE task' = [task EXCEPT ![t] = IdleTask,
                                  ![AgentOf(t)] = [IdleTask EXCEPT !.pc = "start"]]
    <3>1. PlainMove(t, IdleTask)
      BY IdleTaskFields DEF PlainMove, SpecialPCs
    <3> QED BY <2>1, <2>3, <3>1, StartPlain
  <2> QED BY <1>6, <2>2, <2>3 DEF Kick
<1>7. CASE KickDone(t)
  <2>1. PICK pc \in {"claim", "reap"} : Goto(t, pc)
    BY <1>7 DEF KickDone
  <2> QED BY <1>7, <2>1, GotoPlain DEF KickDone, SpecialPCs
<1> QED BY <1>2, <1>3, <1>4, <1>5, <1>6, <1>7, ReleasePlain DEF TailStep

LEMMA PlainMild == ASSUME TasksPlain PROVE TasksMild
  BY Kinds DEF TasksPlain, PlainMove, SpecialPCs, TasksMild

LEMMA TailMild ==
    ASSUME Inv, NEW t \in Tasks, TailStep(t)
    PROVE  Mild
<1>1. ProcsMild
  BY SameProcsMild DEF TailStep, Release, PromoteStart, PromoteDone, FinalizeRead,
     FinalizeWrite, Kick, KickDone
<1>2. RowsMild
  <2>1. CASE Release(t)
    BY <2>1, ReleaseRowsMild DEF Release
  <2>2. CASE ~Release(t)
    BY <2>2, SameRowsMild DEF TailStep, PromoteStart, PromoteDone, FinalizeRead,
       FinalizeWrite, Kick, KickDone, dbVars
  <2> QED BY <2>1, <2>2
<1> QED BY <1>1, <1>2, TailPlain, PlainMild DEF Mild

(* The steps of the other tasks and of the surroundings.                     *)
LEMMA WakerMild ==
    ASSUME Inv, NEW w \in Wakers, WakerStep(w)
    PROVE  Mild
<1>1. w \in Tasks \ Reapers
  BY Kinds
<1>2. CASE WakeCommit(w)
  <2>1. RowsMild
    BY <1>2, WakeRowsMild DEF WakeCommit
  <2>2. ProcsMild
    BY <1>2, SameProcsMild DEF WakeCommit
  <2>3. PICK y : task' = [task EXCEPT ![w] = y]
    BY <1>2 DEF WakeCommit
  <2> QED BY <1>1, <2>1, <2>2, <2>3, OtherMild DEF Mild
<1>3. CASE WakeReturn(w)
  BY <1>1, <1>3, SameRowsMild, SameProcsMild, FinishPlain, PlainMild
     DEF WakeReturn, Mild, dbVars
<1>4. CASE Kick(w)
  BY <1>1, <1>4, TailMild DEF TailStep
<1> QED BY <1>2, <1>3, <1>4 DEF WakerStep

LEMMA CancelMarkMild ==
    ASSUME Inv, NEW t \in Tasks \ Reapers, CancelMark(t)
    PROVE  Mild
<1>1. task[t].run \in Runs /\ "cancelled" \in Terminal
  BY TaskFacts DEF CancelMark, NoRunPCs, Terminal
<1>2. RowsMild
  BY <1>1, RunUpdateMild DEF CancelMark
<1>3. PICK y : task' = [task EXCEPT ![t] = y]
  BY DEF CancelMark
<1> QED BY <1>2, <1>3, OtherMild, SameProcsMild DEF CancelMark, Mild

LEMMA StarterMild ==
    ASSUME Inv, NEW a \in Agents, StarterStep(a)
    PROVE  Mild
<1>1. a \in Tasks \ Reapers
  BY Kinds
<1>2. CASE TailStep(a)
  BY <1>1, <1>2, TailMild
<1>3. CASE CancelMark(a)
  BY <1>1, <1>3, CancelMarkMild
<1>4. CASE ClaimUpdate(a)
  <2>1. task[a].run \in Runs /\ "failed" \in Terminal
    BY <1>1, <1>4, TaskFacts DEF ClaimUpdate, NoRunPCs, Terminal
  <2>2. RowsMild
    BY <1>4, <2>1, RunUpdateMild, SameRowsMild DEF ClaimUpdate, MayClaim
  <2>3. PICK y : task' = [task EXCEPT ![a] = y]
    BY <1>4 DEF ClaimUpdate, Goto
  <2> QED BY <1>1, <1>4, <2>2, <2>3, OtherMild, SameProcsMild DEF ClaimUpdate, Mild
<1>5. CASE Launch(a)
  <2>1. task[a].got \subseteq Runs
    BY <1>1, TaskFacts
  <2>2. \A k \in Reapers : k \in Tasks /\ k # a /\ k \notin task[a].got
    BY <2>1, Kinds
  <2>3. TasksMild
    BY <1>5, <2>2 DEF Launch, TasksMild
  <2> QED BY <1>5, <2>3, SameRowsMild, SameProcsMild DEF Launch, Mild, dbVars
<1>6. CASE StartCheck(a) \/ StartSelect(a) \/ ClaimRead(a) \/ ClaimStamp(a) \/ CancelRead(a)
  <2>1. PICK y : task' = [task EXCEPT ![a] = y]
    BY <1>6 DEF StartCheck, StartSelect, ClaimRead, ClaimStamp, CancelRead, Goto, Finish
  <2>2. UNCHANGED <<runs, active, child>>
    BY <1>6 DEF StartCheck, StartSelect, ClaimRead, ClaimStamp, CancelRead, StampLock, dbVars
  <2> QED BY <1>1, <2>1, <2>2, OtherMild, SameRowsMild, SameProcsMild DEF Mild
<1> QED BY <1>2, <1>3, <1>4, <1>5, <1>6 DEF StarterStep

LEMMA ExecutorMild ==
    ASSUME Inv, NEW r \in Runs, ExecutorStep(r)
    PROVE  Mild
<1>1. r \in Tasks \ Reapers
  BY Kinds
<1>2. CASE TailStep(r)
  BY <1>1, <1>2, TailMild
<1>3. CASE ~TailStep(r)
  <2>1. PICK y : task' = [task EXCEPT ![r] = y]
    BY <1>3 DEF ExecutorStep, ExecBegin, ExecPrepare, ExecSpawn, ExecReturn, ExecThrow,
       ExecMark, ExecCleanup, Goto, Finish
  <2>2. RowsMild
    <3>1. CASE ExecMark(r)
      <4>1. task[r].out \in Terminal
        BY <1>1, <3>1, TaskFacts DEF ExecMark, TaskOK
      <4> QED BY <3>1, <4>1, RunUpdateMild DEF ExecMark
    <3>2. CASE ~ExecMark(r)
      BY <1>3, <3>2, SameRowsMild DEF ExecutorStep, ExecBegin, ExecPrepare, ExecSpawn,
         ExecReturn, ExecThrow, ExecCleanup, dbVars
    <3> QED BY <3>1, <3>2
  <2>3. ProcsMild
    <3>1. CASE ExecBegin(r)
      BY <3>1 DEF ExecBegin, ProcsMild
    <3>2. CASE ExecSpawn(r)
      <4>1. r \in active
        BY <3>2 DEF ExecSpawn, Inv, Launching
      <4> QED BY <3>2, <4>1 DEF ExecSpawn, ProcsMild
    <3>3. CASE ExecCleanup(r)
      BY <3>3 DEF ExecCleanup, ProcsMild
    <3>4. CASE ~ExecBegin(r) /\ ~ExecSpawn(r) /\ ~ExecCleanup(r)
      BY <1>3, <3>4, SameProcsMild DEF ExecutorStep, ExecPrepare, ExecReturn, ExecThrow,
         ExecMark
    <3> QED BY <3>1, <3>2, <3>3, <3>4
  <2> QED BY <1>1, <2>1, <2>2, <2>3, OtherMild DEF Mild
<1> QED BY <1>2, <1>3

LEMMA CancellerMild ==
    ASSUME Inv, NEW c \in Cancellers, CancellerStep(c)
    PROVE  Mild
<1>1. c \in Tasks \ Reapers
  BY HeartbeatAssumption DEF Tasks
<1> QED BY <1>1, TailMild, CancelMarkMild DEF CancellerStep

LEMMA PauserMild ==
    ASSUME Inv, NEW p \in Pausers, PauserStep(p)
    PROVE  Mild
<1>1. p \in Tasks \ Reapers
  BY Kinds
<1>2. CASE Release(p) \/ PromoteStart(p) \/ PromoteDone(p)
  BY <1>1, <1>2, TailMild DEF TailStep
<1>3. CASE SweepScan(p) \/ SweepMark(p) \/ SweepDone(p)
  <2>1. PICK y : task' = [task EXCEPT ![p] = y]
    BY <1>3 DEF SweepScan, SweepMark, SweepDone, Finish
  <2>2. RowsMild
    <3>1. CASE SweepMark(p)
      <4>1. PICK row \in task[p].todo : SetRunStatus(row.id, "cancelled")
        BY <3>1 DEF SweepMark
      <4>2. row.id \in Runs /\ "cancelled" \in Terminal
        BY <1>1, TaskFacts DEF Terminal
      <4> QED BY <4>1, <4>2, RunUpdateMild
    <3>2. CASE ~SweepMark(p)
      BY <1>3, <3>2, SameRowsMild DEF SweepScan, SweepDone, dbVars
    <3> QED BY <3>1, <3>2
  <2>3. ProcsMild
    BY <1>3, SameProcsMild DEF SweepScan, SweepMark, SweepDone
  <2> QED BY <1>1, <2>1, <2>2, <2>3, OtherMild DEF Mild
<1> QED BY <1>2, <1>3 DEF PauserStep

LEMMA EnvironmentMild ==
    ASSUME Inv, EnvironmentStep, ~ \E k \in Reapers, fresh \in SUBSET Runs : PeriodicScan(k, fresh)
    PROVE  Mild
<1>0. \A k \in Reapers : k \in Tasks
  BY Kinds
<1>1. CASE \E w \in Wakers, a \in Agents : WakeAdmit(w, a)
  <2>1. PICK w \in Wakers, a \in Agents : WakeAdmit(w, a)
    BY <1>1
  <2>2. w \in Tasks \ Reapers
    BY Kinds
  <2>3. PICK y : task' = [task EXCEPT ![w] = y]
    BY <2>1 DEF WakeAdmit
  <2> QED BY <2>1, <2>2, <2>3, OtherMild, SameRowsMild, SameProcsMild DEF WakeAdmit, Mild, dbVars
<1>2. CASE \E c \in Cancellers, r \in Runs : CancelRequest(c, r)
  <2>1. PICK c \in Cancellers, r \in Runs : CancelRequest(c, r)
    BY <1>2
  <2>2. c \in Tasks \ Reapers
    BY HeartbeatAssumption DEF Tasks
  <2>3. PICK y : task' = [task EXCEPT ![c] = y]
    BY <2>1 DEF CancelRequest
  <2> QED BY <2>1, <2>2, <2>3, OtherMild, SameRowsMild, SameProcsMild
          DEF CancelRequest, Mild, dbVars
<1>3. CASE \E p \in Pausers, a \in Agents : Pause(p, a)
  <2>1. PICK p \in Pausers, a \in Agents : Pause(p, a)
    BY <1>3
  <2>2. p \in Tasks \ Reapers
    BY Kinds
  <2>3. PICK y : task' = [task EXCEPT ![p] = y]
    BY <2>1 DEF Pause
  <2> QED BY <2>1, <2>2, <2>3, OtherMild, SameRowsMild, SameProcsMild DEF Pause, Mild
<1>4. CASE Crash
  <2>1. \A k \in Reapers : task'[k] = IdleTask
    BY <1>0, <1>4 DEF Crash
  <2>2. TasksMild
    BY <2>1, IdleTaskFields DEF TasksMild
  <2>3. ProcsMild /\ RowsMild
    BY <1>4, SameRowsMild DEF Crash, ProcsMild, dbVars
  <2> QED BY <2>2, <2>3 DEF Mild
<1>5. ASSUME UNCHANGED task PROVE TasksMild
  BY <1>5 DEF TasksMild
<1>6. CASE \E r \in Runs : PersistPid(r) \/ ChildExit(r) \/ ReportActivity(r)
  <2>1. PICK r \in Runs : PersistPid(r) \/ ChildExit(r) \/ ReportActivity(r)
    BY <1>6
  <2>2. RowsMild
    <3>1. "failed" \in Terminal
      BY DEF Terminal
    <3> QED BY <2>1, <3>1, RunUpdateMild, SameRowsMild
            DEF PersistPid, ChildExit, ReportActivity, dbVars
  <2>3. ProcsMild
    BY <2>1 DEF PersistPid, ChildExit, ReportActivity, memVars, ProcsMild
  <2>4. UNCHANGED task
    BY <2>1 DEF PersistPid, ChildExit, ReportActivity, memVars
  <2> QED BY <1>5, <2>2, <2>3, <2>4 DEF Mild
<1>7. CASE \/ \E a \in Resumable : ResumeAgent(a)
           \/ \E a \in Blockable : ToggleBlock(a)
           \/ \E i \in Editable : EditIssue(i)
  <2>1. UNCHANGED <<runs, active, child, task>>
    BY <1>7 DEF ResumeAgent, ToggleBlock, EditIssue, UpdateIssueClearsLock, memVars, dbVars
  <2> QED BY <1>5, <2>1, SameRowsMild, SameProcsMild DEF Mild
<1> QED BY <1>1, <1>2, <1>3, <1>4, <1>6, <1>7 DEF EnvironmentStep

(* The reaper's own steps.  Its ticks do not overlap.                        *)

LEMMA ScanReaps ==
    ASSUME Inv, ReaperInv, NEW k \in Reapers, NEW s \in {"queued", "running"},
           UNCHANGED <<runs, created, active, child>>,
           NEW y, task' = [task EXCEPT ![k] = y],
           y.todo \subseteq RowsOf(s), y.pc \notin {"retry", "release"}
    PROVE  ReaperInv'
<1>1. task \in [Tasks -> TaskOK] /\ k \in Tasks
  BY Kinds DEF Inv, TypeInv
<1>2. RetryRows'
  BY DEF ReaperInv, RetryRows
<1>3. \A r : Retried(r)' <=> Retried(r)
  BY DEF Retried
<1>4. ASSUME NEW l \in Reapers PROVE Reaping(l)'
  <2>1. l \in Tasks /\ Reaping(l)
    BY Kinds DEF ReaperInv
  <2>2. CASE l # k
    <3>1. task'[l] = task[l]
      BY <1>1, <2>1, <2>2
    <3> QED BY <1>3, <2>1, <3>1 DEF Reaping, Retried
  <2>3. CASE l = k
    <3>1. task'[l] = y
      BY <1>1, <2>3
    <3>2. \A row \in y.todo : /\ row = Row(row.id) /\ row.id \in Runs
                              /\ runs[row.id].status = s
      <4>1. \A q \in {p \in Runs : runs[p].status = s} : Row(q).id = q
        BY RowFacts
      <4> QED BY <4>1 DEF RowsOf
    <3>3. \A row \in y.todo : ~Retried(row.id)
      <4>1. SUFFICES ASSUME NEW row \in y.todo, NEW q \in Runs, runs[q].retryOf = row.id
                     PROVE  FALSE
        BY DEF Retried
      <4>2. runs[q].retryOf # NoRun
        BY <3>2, <4>1 DEF Runs, NoRun
      <4>3. runs[row.id].status \in Terminal
        BY <4>1, <4>2 DEF ReaperInv, RetryRows
      <4> QED BY <3>2, <4>3 DEF Terminal
    <3>4. \A p, q \in y.todo : p.id = q.id => p = q
      BY <3>2
    <3>5. \A row \in y.todo : ~Retried(row.id)'
      BY <1>3, <3>3
    <3> QED BY <3>1, <3>4, <3>5 DEF Reaping
  <2> QED BY <2>2, <2>3
<1> QED BY <1>2, <1>4 DEF ReaperInv

LEMMA ReapRowReaps ==
    ASSUME \A k, l \in Reapers : k = l,
           Inv, Inv', ReaperInv, NEW k \in Reapers, ReapRow(k)
    PROVE  ReaperInv'
<1>1. /\ k \in Tasks /\ task[k] \in TaskRecord /\ task[k].pc = "reap"
      /\ task \in [Tasks -> TaskOK] /\ created \in Nat
      /\ runs \in [Runs -> RunRecord]
      /\ UNCHANGED <<created, active, child>>
  BY Kinds, TaskFacts DEF ReapRow, Inv, TypeInv, TypeOK, StoreTypeOK
<1>2. PICK row \in task[k].todo :
        LET r    == row.id
            skip == [task EXCEPT ![k].todo = @ \ {row}]
        IN \/ task' = skip /\ UNCHANGED runs
           \/ task' = skip /\ MarkDetached(r)
           \/ /\ ~InUse(r) /\ ~(Tracked(row) /\ r \in child)
              /\ SetRunStatus(r, "failed")
              /\ task' = [skip EXCEPT ![k].run = r, ![k].out = "failed",
                              ![k].pc = IF MayRetry(row) THEN "retry" ELSE "release"]
  BY DEF ReapRow
<1>3. PICK r \in Runs : r = row.id
  BY <1>1, TaskFacts
<1>4. /\ ~Retried(r)
      /\ \A p, q \in task[k].todo : p.id = q.id => p = q
      /\ \A q \in task[k].todo : ~Retried(q.id)
  BY <1>2, <1>3 DEF ReaperInv, Reaping
<1> DEFINE rest == task[k].todo \ {row}
<1>5. CASE task' = [task EXCEPT ![k].todo = @ \ {row}] /\ UNCHANGED runs
  <2>1. task' = [task EXCEPT ![k] = [task[k] EXCEPT !.todo = rest]]
    BY <1>5
  <2>2. /\ [task[k] EXCEPT !.todo = rest].todo = rest
        /\ [task[k] EXCEPT !.todo = rest].pc = "reap"
    BY <1>1 DEF TaskRecord
  <2>3. TasksMild
    BY <1>1, <2>1, <2>2, MoveMild
  <2> QED BY <1>1, <1>5, <2>3, MildKeeps, SameRowsMild, SameProcsMild DEF Mild
<1>6. CASE task' = [task EXCEPT ![k].todo = @ \ {row}] /\ MarkDetached(r)
  <2>1. PICK z : z = [runs[r] EXCEPT !.status = "running", !.detached = TRUE]
    OBVIOUS
  <2>2. z.retryOf = runs[r].retryOf /\ z.retries = runs[r].retries
    BY <1>1, <2>1 DEF RunRecord
  <2>3. runs'[r] = z /\ \A q \in Runs : q # r => runs'[q] = runs[q]
    BY <1>1, <1>6, <2>1 DEF MarkDetached
  <2>4. \A q \in Runs : runs'[q].retryOf = runs[q].retryOf /\ runs'[q].retries = runs[q].retries
    BY <2>2, <2>3
  <2>5. \A q \in Runs : Retried(q)' <=> Retried(q)
    BY <2>4 DEF Retried
  <2>6. RetryRows'
    <3>1. ASSUME NEW q \in Runs, runs[q].retryOf # NoRun
          PROVE  /\ runs[q].retries > 0
                 /\ runs[q].retryOf <= created
                 /\ runs'[runs[q].retryOf].retries = 0
                 /\ runs'[runs[q].retryOf].status \in Terminal
      <4>1. PICK o \in Runs : o = runs[q].retryOf
        BY <1>1, <3>1 DEF RunRecord, NoRun
      <4>2. o # r
        BY <1>4, <4>1 DEF Retried
      <4> QED BY <2>3, <3>1, <4>1, <4>2 DEF ReaperInv, RetryRows
    <3>2. \A q \in Runs : IF runs[q].retryOf = NoRun THEN runs[q].retries = 0
                          ELSE \A p \in Runs : runs[p].retryOf = runs[q].retryOf => p = q
      BY DEF ReaperInv, RetryRows
    <3> QED BY <1>1, <2>4, <3>1, <3>2 DEF RetryRows
  <2>7. task'[k].todo = rest /\ task'[k].pc = "reap"
    BY <1>1, <1>6 DEF TaskRecord
  <2>8. \A q \in rest : q.id \in Runs
    BY <1>1, TaskFacts
  <2>9. Reaping(k)'
    BY <1>4, <2>5, <2>7, <2>8 DEF Reaping
  <2> QED BY <2>6, <2>9 DEF ReaperInv
<1>7. CASE /\ ~InUse(r) /\ ~(Tracked(row) /\ r \in child)
           /\ SetRunStatus(r, "failed")
           /\ task' = [[task EXCEPT ![k].todo = @ \ {row}]
                         EXCEPT ![k].run = r, ![k].out = "failed",
                                ![k].pc = IF MayRetry(row) THEN "retry" ELSE "release"]
  <2>1. "failed" \in Terminal
    BY DEF Terminal
  <2>2. RowsMild
    BY <1>7, <2>1, RunUpdateMild
  <2>3. /\ runs'[r].status = "failed" /\ runs'[r].retries = runs[r].retries
        /\ \A q \in Runs : runs'[q].retryOf = runs[q].retryOf
    <3>1. PICK z : z = [runs[r] EXCEPT !.status = "failed", !.detached = FALSE]
      OBVIOUS
    <3>2. z.status = "failed" /\ z.retries = runs[r].retries /\ z.retryOf = runs[r].retryOf
      BY <1>1, <3>1 DEF RunRecord
    <3>3. runs'[r] = z /\ \A q \in Runs : q # r => runs'[q] = runs[q]
      BY <1>1, <1>7, <3>1 DEF SetRunStatus
    <3> QED BY <3>2, <3>3
  <2>4. \A q \in Runs : Retried(q)' <=> Retried(q)
    BY <2>3 DEF Retried
  <2>5. PICK pc \in {"retry", "release"} :
          /\ pc = "retry" => MayRetry(row)
          /\ task' = [[task EXCEPT ![k].todo = @ \ {row}]
                        EXCEPT ![k].run = r, ![k].out = "failed", ![k].pc = pc]
    BY <1>7
  <2>6. task'[k].todo = rest /\ task'[k].pc = pc /\ task'[k].run = r
    BY <1>1, <2>5 DEF TaskRecord
  <2>7. pc = "retry" => r \notin child /\ runs[r].retries = 0
    BY <1>1, <1>3, <1>7, <2>5 DEF MayRetry, RunRecord
  <2>8. r \notin active
    BY <1>7 DEF InUse
  <2>9. \A q \in rest : q.id \in Runs /\ q.id # r
    BY <1>1, <1>2, <1>3, <1>4, TaskFacts
  <2>10. Reaping(k)'
    <3>1. \A q \in rest : ~Retried(q.id)'
      BY <1>4, <2>4, <2>9
    <3>2. ~Retried(r)'
      BY <1>4, <2>4
    <3> QED BY <1>1, <1>4, <2>1, <2>3, <2>6, <2>7, <2>8, <2>9, <3>1, <3>2 DEF Reaping
  <2>11. RetryRows'
    <3>1. ASSUME NEW q \in Runs, runs[q].retryOf # NoRun
          PROVE  /\ runs'[runs[q].retryOf].retries = 0
                 /\ runs'[runs[q].retryOf].status \in Terminal
      <4>1. PICK o \in Runs : o = runs[q].retryOf
        BY <1>1, <3>1 DEF RunRecord, NoRun
      <4>2. runs[o].retries = 0 /\ runs[o].status \in Terminal
        BY <3>1, <4>1 DEF ReaperInv, RetryRows
      <4> QED BY <2>2, <4>1, <4>2 DEF RowsMild
    <3>2. \A q \in Runs : runs'[q].retries = runs[q].retries
      <4>1. \A q \in Runs : q # r => runs'[q] = runs[q]
        BY <1>1, <1>7 DEF SetRunStatus
      <4> QED BY <2>3, <4>1
    <3>3. \A q \in Runs : IF runs[q].retryOf = NoRun THEN runs[q].retries = 0
                          ELSE /\ runs[q].retries > 0 /\ runs[q].retryOf <= created
                               /\ \A p \in Runs : runs[p].retryOf = runs[q].retryOf => p = q
      BY DEF ReaperInv, RetryRows
    <3> QED BY <1>1, <2>3, <3>1, <3>2, <3>3 DEF RetryRows
  <2> QED BY <2>10, <2>11 DEF ReaperInv
<1> QED BY <1>2, <1>3, <1>5, <1>6, <1>7

LEMMA RetryReaps ==
    ASSUME \A k, l \in Reapers : k = l,
           Inv, Inv', ReaperInv, NEW k \in Reapers, Retry(k)
    PROVE  ReaperInv'
<1>1. /\ k \in Tasks /\ task[k] \in TaskRecord /\ task[k].pc = "retry"
      /\ task \in [Tasks -> TaskOK] /\ created \in Nat /\ created < MaxRuns
      /\ runs \in [Runs -> RunRecord]
      /\ UNCHANGED <<active, child>>
      /\ created' = created + 1
  BY Kinds, TaskFacts DEF Retry, EnqueueProcessLossRetry, Inv, TypeInv, TypeOK, StoreTypeOK
<1>2. PICK r \in Runs : r = task[k].run
  BY <1>1, TaskFacts DEF NoRunPCs
<1>3. /\ r <= created /\ runs[r].status \in Terminal /\ runs[r].retries = 0 /\ ~Retried(r)
      /\ \A p, q \in task[k].todo : p.id = q.id => p = q
      /\ \A q \in task[k].todo : ~Retried(q.id) /\ q.id # r /\ q.id \in Runs
  BY <1>1, <1>2, TaskFacts DEF ReaperInv, Reaping
<1>4. PICK n \in Runs : n = created + 1
  BY <1>1, RunStoreAssumption DEF Runs
<1>5. /\ runs'[n].retryOf = r /\ runs'[n].retries = 1
      /\ \A q \in Runs : q # n => runs'[q] = runs[q]
  <2>1. runs' = WithNewRun(runs[r].agent, runs[r].issue, r, runs[r].retries + 1)
    BY <1>2 DEF Retry, EnqueueProcessLossRetry
  <2>2. PICK z : z = [AbsentRun EXCEPT !.status = "queued", !.agent = runs[r].agent,
                        !.issue = runs[r].issue, !.retryOf = r,
                        !.retries = runs[r].retries + 1]
    OBVIOUS
  <2>3. z.retryOf = r /\ z.retries = 1
    BY <1>3, <2>2 DEF AbsentRun
  <2>4. runs' = [runs EXCEPT ![n] = z]
    BY <1>4, <2>1, <2>2 DEF WithNewRun
  <2> QED BY <1>1, <2>3, <2>4
<1>6. RetryRows'
  <2>1. SUFFICES ASSUME NEW q \in Runs
                 PROVE  IF runs'[q].retryOf = NoRun THEN runs'[q].retries = 0
                        ELSE /\ runs'[q].retries > 0
                             /\ runs'[q].retryOf <= created'
                             /\ runs'[runs'[q].retryOf].retries = 0
                             /\ runs'[runs'[q].retryOf].status \in Terminal
                             /\ \A p \in Runs : runs'[p].retryOf = runs'[q].retryOf => p = q
    BY DEF RetryRows
  <2>2. r # n /\ runs'[r] = runs[r]
    BY <1>1, <1>3, <1>4, <1>5 DEF Runs
  <2>3. \A p \in Runs : runs[p].retryOf # r
    BY <1>3 DEF Retried
  <2>4. CASE q = n
    <3>1. \A p \in Runs : runs'[p].retryOf = r => p = n
      BY <1>5, <2>3
    <3>2. r <= created'
      BY <1>1, <1>3 DEF Runs
    <3>3. r # NoRun
      BY DEF Runs, NoRun
    <3> QED BY <1>3, <1>5, <2>2, <2>4, <3>1, <3>2, <3>3
  <2>5. CASE q # n /\ runs[q].retryOf = NoRun
    BY <1>5, <2>5 DEF ReaperInv, RetryRows
  <2>6. CASE q # n /\ runs[q].retryOf # NoRun
    <3>1. PICK o \in Runs : o = runs[q].retryOf
      BY <1>1, <2>6 DEF RunRecord, NoRun
    <3>2. /\ runs[q].retries > 0 /\ o <= created
          /\ runs[o].retries = 0 /\ runs[o].status \in Terminal
          /\ \A p \in Runs : runs[p].retryOf = o => p = q
      BY <2>6, <3>1 DEF ReaperInv, RetryRows
    <3>3. o # n /\ o <= created' /\ o # r
      BY <1>1, <1>4, <2>3, <3>1, <3>2 DEF Runs
    <3>4. runs'[o] = runs[o] /\ runs'[q] = runs[q]
      BY <1>5, <2>6, <3>3
    <3>5. \A p \in Runs : runs'[p].retryOf = o => p = q
      BY <1>5, <3>2, <3>3
    <3> QED BY <2>6, <3>1, <3>2, <3>3, <3>4, <3>5
  <2> QED BY <2>4, <2>5, <2>6
<1>7. task'[k].todo = task[k].todo /\ task'[k].pc = "finread"
  BY <1>1 DEF Retry, Goto, TaskRecord
<1>8. \A q \in task[k].todo : ~Retried(q.id)'
  <2>1. SUFFICES ASSUME NEW q \in task[k].todo, NEW p \in Runs, runs'[p].retryOf = q.id
                 PROVE  FALSE
    BY DEF Retried
  <2>2. p # n
    BY <1>3, <1>5, <2>1
  <2> QED BY <1>3, <1>5, <2>1, <2>2 DEF Retried
<1>9. Reaping(k)'
  BY <1>3, <1>7, <1>8 DEF Reaping
<1> QED BY <1>6, <1>9 DEF ReaperInv

LEMMA ResumeMild ==
    ASSUME Inv, NEW k \in Reapers, ResumeNext(k) \/ ResumeWait(k) \/ ResumeDone(k)
    PROVE  Mild
<1>1. /\ k \in Tasks /\ k \notin Runs /\ task[k] \in TaskRecord
      /\ task[k].pc \in {"resume", "resumeWait"}
      /\ UNCHANGED <<runs, active, child>>
  BY Kinds, TaskFacts DEF ResumeNext, ResumeWait, ResumeDone, dbVars
<1>2. TasksPlain
  <2>1. CASE ResumeNext(k)
    <3>1. PICK row \in task[k].todo :
            task' = [task EXCEPT
                ![k].pc = "resumeWait", ![k].to = runs[row.id].agent,
                ![k].todo = {q \in @ : runs[q.id].agent # runs[row.id].agent},
                ![runs[row.id].agent] = [IdleTask EXCEPT !.pc = "start", !.caller = k]]
      BY <2>1 DEF ResumeNext
    <3>2. PICK a \in Agents : a = runs[row.id].agent /\ a # k
      BY <1>1, <3>1, Kinds, TaskFacts DEF Inv, Numbered, RowsNumbered
    <3> DEFINE rest == {q \in task[k].todo : runs[q.id].agent # a}
               y    == [task[k] EXCEPT !.pc = "resumeWait", !.to = a, !.todo = rest]
    <3>3. task' = [task EXCEPT ![k] = y,
                     ![a] = [IdleTask EXCEPT !.pc = "start", !.caller = k]]
      BY <3>1, <3>2
    <3>4. y.todo = rest /\ y.pc = "resumeWait"
      BY <1>1 DEF TaskRecord
    <3>5. PlainMove(k, y)
      BY <1>1, <3>4 DEF PlainMove, SpecialPCs
    <3> QED BY <1>1, <3>3, <3>5, StartPlain
  <2>2. CASE ResumeWait(k)
    BY <1>1, <2>2, GotoPlain DEF ResumeWait, SpecialPCs
  <2>3. CASE ResumeDone(k)
    BY <1>1, <2>3, FinishPlain DEF ResumeDone
  <2> QED BY <2>1, <2>2, <2>3
<1> QED BY <1>1, <1>2, PlainMild, SameRowsMild, SameProcsMild DEF Mild

(* ReaperInv is inductive.                                                   *)
LEMMA ReaperInit == Init => ReaperInv
<1> SUFFICES ASSUME Init PROVE ReaperInv
  OBVIOUS
<1>1. \A r \in Runs : runs[r].retryOf = NoRun /\ runs[r].retries = 0
  BY DEF Init, StoreInit, AbsentRun
<1>2. \A k \in Reapers : task[k].todo = {} /\ task[k].pc = "idle"
  BY Kinds, IdleTaskFields DEF Init
<1> QED BY <1>1, <1>2 DEF ReaperInv, RetryRows, Reaping

LEMMA ReaperNext ==
    ASSUME \A k, l \in Reapers : k = l, Inv, ReaperInv, [Next]_vars
    PROVE  ReaperInv'
<1>1. Inv'
  BY NextInv
<1>2. ASSUME Mild PROVE ReaperInv'
  <2>1. created <= created'
    <3>1. created \in Nat
      BY DEF Inv, TypeInv, TypeOK, StoreTypeOK
    <3>2. created' \in {created, created + 1}
      BY <3>1, StepKinds DEF Calm, RowsCalm, Crash, ClaimUpdate, Launch, dbVars
    <3> QED BY <3>1, <3>2
  <2> QED BY <1>1, <1>2, <2>1, MildKeeps
<1>3. ASSUME NEW k \in Reapers, ReaperStep(k) PROVE ReaperInv'
  <2>1. k \in Tasks /\ task[k] \in TaskRecord
    BY Kinds, TaskFacts
  <2>2. CASE TailStep(k)
    BY <1>2, <2>1, <2>2, TailMild
  <2>3. CASE ReapRow(k) \/ Retry(k)
    BY <1>1, <2>3, ReapRowReaps, RetryReaps
  <2>4. CASE ResumeNext(k) \/ ResumeWait(k) \/ ResumeDone(k)
    BY <1>2, <2>4, ResumeMild
  <2>5. CASE StartupScan(k)
    <3> DEFINE y == [task[k] EXCEPT !.pc = "reap", !.todo = RunningRows]
    <3>1. /\ task' = [task EXCEPT ![k] = y]
          /\ UNCHANGED <<runs, created, active, child>>
      BY <2>5 DEF StartupScan, dbVars
    <3>2. y.todo = RowsOf("running") /\ y.pc = "reap"
      BY <2>1 DEF TaskRecord, RunningRows
    <3> QED BY <3>1, <3>2, ScanReaps
  <2>6. CASE ReapDone(k)
    <3> DEFINE y == [IdleTask EXCEPT !.pc = "resume", !.todo = QueuedRows]
    <3>1. /\ task' = [task EXCEPT ![k] = y]
          /\ UNCHANGED <<runs, created, active, child>>
      BY <2>6 DEF ReapDone, dbVars
    <3>2. y.todo = RowsOf("queued") /\ y.pc = "resume"
      BY DEF IdleTask, QueuedRows
    <3> QED BY <3>1, <3>2, ScanReaps
  <2> QED BY <1>3, <2>2, <2>3, <2>4, <2>5, <2>6 DEF ReaperStep
<1>4. ASSUME NEW k \in Reapers, NEW fresh, PeriodicScan(k, fresh) PROVE ReaperInv'
  <2> DEFINE rows == {row \in RunningRows : row.id \notin fresh /\ ~JustClaimed(row.id)}
             y    == [task[k] EXCEPT !.pc = "reap", !.todo = rows]
  <2>1. /\ task' = [task EXCEPT ![k] = y]
        /\ UNCHANGED <<runs, created, active, child>>
    BY <1>4 DEF PeriodicScan, dbVars
  <2>2. task[k] \in TaskRecord /\ rows \subseteq RowsOf("running")
    BY Kinds, TaskFacts DEF RunningRows
  <2>3. y.todo = rows /\ y.pc = "reap"
    BY <2>2 DEF TaskRecord
  <2> QED BY <2>1, <2>2, <2>3, ScanReaps
<1>5. CASE UNCHANGED vars
  <2>1. UNCHANGED <<runs, active, child, task>>
    BY <1>5 DEF vars, dbVars, memVars
  <2> QED BY <1>2, <2>1 DEF Mild, RowsMild, ProcsMild, TasksMild
<1>6. CASE EnvironmentStep
  BY <1>2, <1>4, <1>6, EnvironmentMild
<1> QED BY <1>2, <1>3, <1>5, <1>6, WakerMild, StarterMild, ExecutorMild, CancellerMild,
       PauserMild DEF Next

LEMMA ReaperInvariance ==
    ASSUME \A k, l \in Reapers : k = l
    PROVE  Spec => [](Inv /\ ReaperInv)
<1>1. Inv /\ ReaperInv /\ [Next]_vars => (Inv /\ ReaperInv)'
  BY NextInv, ReaperNext
<1> QED BY <1>1, InitInv, ReaperInit, PTL DEF Spec

(* If the ticks of the reaper do not overlap, a lost run is retried at most   *)
(* once and a retry is never retried, however many restarts lose it.         *)
THEOREM RunsAreRetriedOnce ==
    ASSUME \A k, l \in Reapers : k = l
    PROVE  Spec => []RetriedOnce
<1>1. Inv /\ ReaperInv => RetriedOnce
  <2>1. SUFFICES ASSUME Inv, ReaperInv, NEW r \in Runs, runs[r].retryOf # NoRun
                 PROVE  /\ runs[runs[r].retryOf].retryOf = NoRun
                        /\ \A q \in Runs : runs[q].retryOf = runs[r].retryOf => q = r
    BY DEF RetriedOnce
  <2>2. PICK o \in Runs : o = runs[r].retryOf
    BY <2>1 DEF Inv, TypeInv, TypeOK, StoreTypeOK, RunRecord, NoRun
  <2>3. runs[o].retries = 0 /\ \A q \in Runs : runs[q].retryOf = o => q = r
    BY <2>1, <2>2 DEF ReaperInv, RetryRows
  <2>4. runs[o].retryOf = NoRun
    BY <2>1, <2>3 DEF ReaperInv, RetryRows
  <2> QED BY <2>2, <2>3, <2>4
<1> QED BY <1>1, ReaperInvariance, PTL

(* If the ticks of the reaper do not overlap, what it fails is not being      *)
(* executed and what it retries has no child, although the rows it visits     *)
(* were read before other calls moved on.                                    *)
THEOREM ReapedRunsAreDead ==
    ASSUME \A k, l \in Reapers : k = l
    PROVE  Spec => []ReaperSparesLiveRuns
<1>1. ReaperInv => ReaperSparesLiveRuns
  BY DEF ReaperInv, Reaping, ReaperSparesLiveRuns
<1> QED BY <1>1, ReaperInvariance, PTL

-----------------------------------------------------------------------------
(* The orchestration lock.                                                   *)

(* What the statements do to the rows.                                       *)
LEMMA StatusSet ==
    ASSUME Inv, NEW r \in Runs, NEW s,
           SetRunStatus(r, s) \/ (s = "running" /\ SetClaimed(r))
    PROVE  /\ runs'[r].status = s
           /\ \A q \in Runs : /\ runs'[q].agent = runs[q].agent
                              /\ runs'[q].issue = runs[q].issue
                              /\ q # r => runs'[q].status = runs[q].status
<1>1. runs \in [Runs -> RunRecord] /\ runs[r] \in RunRecord
  BY DEF Inv, TypeInv, TypeOK, StoreTypeOK
<1>2. PICK z : /\ runs' = [runs EXCEPT ![r] = z]
               /\ \/ z = [runs[r] EXCEPT !.status = s, !.detached = FALSE]
                  \/ z = [runs[r] EXCEPT !.status = s]
  BY DEF SetRunStatus, SetClaimed
<1>3. z.status = s /\ z.agent = runs[r].agent /\ z.issue = runs[r].issue
  BY <1>1, <1>2 DEF RunRecord
<1> QED BY <1>1, <1>2, <1>3

LEMMA FlagSet ==
    ASSUME Inv, NEW r \in Runs,
           \/ runs' = [runs EXCEPT ![r].pid = TRUE]
           \/ runs' = [runs EXCEPT ![r].detached = FALSE]
    PROVE  \A q \in Runs : /\ runs'[q].agent = runs[q].agent
                           /\ runs'[q].issue = runs[q].issue
                           /\ runs'[q].status = runs[q].status
<1>1. runs \in [Runs -> RunRecord] /\ runs[r] \in RunRecord
  BY DEF Inv, TypeInv, TypeOK, StoreTypeOK
<1>2. PICK z : /\ runs' = [runs EXCEPT ![r] = z]
               /\ \/ z = [runs[r] EXCEPT !.pid = TRUE]
                  \/ z = [runs[r] EXCEPT !.detached = FALSE]
  OBVIOUS
<1>3. z.status = runs[r].status /\ z.agent = runs[r].agent /\ z.issue = runs[r].issue
  BY <1>1, <1>2 DEF RunRecord
<1> QED BY <1>1, <1>2, <1>3

LEMMA RowAdded ==
    ASSUME Inv, NEW a, NEW i, created < MaxRuns, runs' = WithNewRun(a, i, NoRun, 0)
    PROVE  /\ created + 1 \in Runs /\ runs[created + 1].status = "absent"
           /\ runs'[created + 1].status = "queued" /\ runs'[created + 1].agent = a
           /\ runs'[created + 1].issue = i
           /\ \A q \in Runs : q # created + 1 => runs'[q] = runs[q]
<1>1. runs \in [Runs -> RunRecord] /\ created \in Nat
  BY DEF Inv, TypeInv, TypeOK, StoreTypeOK
<1>2. PICK n \in Runs : n = created + 1
  BY <1>1, RunStoreAssumption DEF Runs
<1>3. runs[n].status = "absent"
  BY <1>1, <1>2 DEF Inv, Numbered, RowsNumbered
<1>4. PICK z : z = [AbsentRun EXCEPT !.status = "queued", !.agent = a, !.issue = i,
                        !.retryOf = NoRun, !.retries = 0]
  OBVIOUS
<1>5. z.status = "queued" /\ z.agent = a /\ z.issue = i
  BY <1>4 DEF AbsentRun
<1>6. runs' = [runs EXCEPT ![n] = z]
  BY <1>2, <1>4 DEF WithNewRun
<1> QED BY <1>1, <1>2, <1>3, <1>5, <1>6

(* The parts of the invariants, kept by a step that changes the lock of one   *)
(* issue i at most, or none if i is NoIssue.                                 *)
LEMMA LocksMoved ==
    ASSUME Inv, Inv', LocksInv, NEW i \in Issues \cup {NoIssue}, created <= created',
           \A j \in Issues : j = i \/ lock'[j] = lock[j],
           \A r \in Runs : r <= created => runs'[r].issue = runs[r].issue,
           \A r \in Runs : Active(r)' =>
                \/ Active(r) /\ runs'[r].issue = runs[r].issue
                \/ runs'[r].issue = i,
           i \in Issues =>
                /\ \A p, q \in Runs : Active(p)' /\ Active(q)' /\ runs'[p].issue = i
                                      /\ runs'[q].issue = i => p = q
                /\ lock'[i] # NoRun =>
                        /\ lock'[i] <= created' /\ runs'[lock'[i]].issue = i
                        /\ \A q \in Runs : Active(q)' /\ runs'[q].issue = i => q = lock'[i]
    PROVE  LocksInv'
<1>1. created \in Nat /\ created' \in Nat /\ lock \in [Issues -> Runs \cup {NoRun}]
  BY DEF Inv, TypeInv, TypeOK, StoreTypeOK
<1>2. ASSUME NEW j \in Issues, j # i, lock'[j] # NoRun
      PROVE  /\ lock'[j] <= created' /\ runs'[lock'[j]].issue = j
             /\ \A q \in Runs : Active(q)' /\ runs'[q].issue = j => q = lock'[j]
  <2>1. PICK r \in Runs : r = lock[j] /\ r = lock'[j]
    BY <1>1, <1>2
  <2>2. /\ r <= created /\ runs[r].issue = j
        /\ \A q \in Runs : Active(q) /\ runs[q].issue = j => q = r
    BY <1>2, <2>1 DEF LocksInv
  <2>3. r <= created' /\ runs'[r].issue = j
    BY <1>1, <2>2 DEF Runs
  <2>4. \A q \in Runs : Active(q)' /\ runs'[q].issue = j => q = r
    BY <1>2, <2>2
  <2> QED BY <2>1, <2>3, <2>4
<1>3. ASSUME NEW r \in Runs, NEW q \in Runs, Active(r)', Active(q)',
             runs'[r].issue = runs'[q].issue, runs'[r].issue # NoIssue
      PROVE  r = q
  <2>1. CASE runs'[r].issue = i
    <3>1. i \in Issues
      BY <1>3, <2>1
    <3> QED BY <1>3, <2>1, <3>1
  <2>2. CASE runs'[r].issue # i
    BY <1>3, <2>2 DEF LocksInv, OneActiveRunPerIssue
  <2> QED BY <2>1, <2>2
<1>4. OneActiveRunPerIssue'
  BY <1>3 DEF OneActiveRunPerIssue
<1> QED BY <1>2, <1>4 DEF LocksInv

LEMMA KeysMoved ==
    ASSUME Inv, LocksInv, KeysInv, NEW i \in Issues \cup {NoIssue},
           \A j \in Issues : j = i \/ (lock'[j] = lock[j] /\ lockKey'[j] = lockKey[j]),
           \A r \in Runs : r <= created => runs'[r].agent = runs[r].agent,
           i \in Issues => lockKey'[i] = IF lock'[i] = NoRun THEN NoAgent
                                         ELSE runs'[lock'[i]].agent,
           \A w \in Wakers : task'[w].pc = "merged" =>
                task'[w] = task[w] \/ runs'[task'[w].run].agent = task'[w].to
    PROVE  KeysInv'
<1>1. created \in Nat /\ lock \in [Issues -> Runs \cup {NoRun}]
  BY DEF Inv, TypeInv, TypeOK, StoreTypeOK
<1>2. \A j \in Issues : j # i => lockKey'[j] = IF lock'[j] = NoRun THEN NoAgent
                                               ELSE runs'[lock'[j]].agent
  BY <1>1 DEF KeysInv, LocksInv
<1>3. ASSUME NEW w \in Wakers, task'[w].pc = "merged"
      PROVE  runs'[task'[w].run].agent = task'[w].to
  <2>1. CASE task'[w] = task[w]
    <3>1. w \in Tasks
      BY Kinds
    <3>2. /\ task[w].run \in Runs /\ task[w].run <= created
          /\ runs[task[w].run].agent = task[w].to
      BY <1>3, <2>1, <3>1, TaskFacts DEF NoRunPCs, KeysInv, CoalescedIntoOwnRun, AgentOf
    <3> QED BY <2>1, <3>2
  <2> QED BY <1>3, <2>1
<1> QED BY <1>2, <1>3 DEF KeysInv, CoalescedIntoOwnRun, AgentOf

(* The parts of the invariants, kept by what leaves their subject alone.      *)
LEMMA LocksKept ==
    ASSUME Inv, Inv', LocksInv, UNCHANGED lock, created <= created',
           \A r \in Runs : /\ runs'[r].issue = runs[r].issue
                           /\ Active(r)' => Active(r)
    PROVE  LocksInv'
<1>1. \A r \in Runs : Active(r)' => Active(r) /\ runs'[r].issue = runs[r].issue
  OBVIOUS
<1> QED BY <1>1, LocksMoved, RunStoreAssumption

LEMMA TasksKept ==
    ASSUME Inv, TasksInv,
           \A r \in Runs : /\ r <= created => runs'[r].agent = runs[r].agent
                           /\ runs[r].status \in Terminal => runs'[r].status \in Terminal
                           /\ runs[r].status = "running" /\ Stamping(r)
                                => runs'[r].status = "running",
           \A a \in Agents : task'[a] = task[a] \/ StarterOK(a)',
           \A t \in Tasks : \/ task'[t] = task[t]
                            \/ task'[t].pc # "release"
                            \/ runs'[task'[t].run].status \in Terminal,
           \A r \in Runs : task'[r] = task[r] \/ task'[r].pc = "idle" \/ task'[r].run = r
    PROVE  TasksInv'
<1>1. ASSUME NEW a \in Agents, task'[a] = task[a] PROVE StarterOK(a)'
  <2>1. a \in Tasks /\ StarterOK(a)
    BY Kinds DEF TasksInv
  <2>2. \A row \in task[a].todo : runs'[row.id].agent = a
    BY <2>1, TaskFacts DEF StarterOK
  <2>3. CASE task[a].pc \in {"claiming", "stamp", "cread", "cmark"}
    <3>1. PICK r \in Runs : r = task[a].run /\ r <= created
      BY <2>1, <2>3, TaskFacts DEF NoRunPCs
    <3>2. runs[r].agent = a
      BY <2>1, <2>3, <3>1 DEF StarterOK
    <3>3. runs'[r].agent = a
      BY <3>1, <3>2
    <3>4. task[a].pc = "stamp" => r \in task[a].got /\ runs'[r].status = "running"
      BY <2>1, <3>1 DEF StarterOK, Stamping
    <3> QED BY <1>1, <2>2, <3>1, <3>3, <3>4 DEF StarterOK
  <2>4. CASE task[a].pc \notin {"claiming", "stamp", "cread", "cmark"}
    BY <1>1, <2>2, <2>4 DEF StarterOK
  <2> QED BY <2>3, <2>4
<1>2. ASSUME NEW t \in Tasks, task'[t].pc = "release"
      PROVE  runs'[task'[t].run].status \in Terminal
  <2>1. CASE task'[t] = task[t]
    <3>1. task[t].run \in Runs /\ runs[task[t].run].status \in Terminal
      BY <1>2, <2>1, TaskFacts DEF TasksInv, NoRunPCs
    <3> QED BY <2>1, <3>1
  <2> QED BY <1>2, <2>1
<1>3. \A r \in Runs : Idle(r)' \/ task'[r].run = r
  BY DEF TasksInv, Idle
<1> QED BY <1>1, <1>2, <1>3 DEF TasksInv

LEMMA KeysKept ==
    ASSUME Inv, LocksInv, KeysInv, UNCHANGED <<lock, lockKey>>,
           \A r \in Runs : r <= created => runs'[r].agent = runs[r].agent,
           \A w \in Wakers : task'[w].pc = "merged" => task'[w] = task[w]
    PROVE  KeysInv'
BY KeysMoved, RunStoreAssumption

LEMMA OwnersKept ==
    ASSUME Inv, OwnersInv, UNCHANGED <<lock, deferred, crashes>>,
           crashes = 0 => /\ blocked' = blocked
                          /\ \A a \in Agents : /\ Invokable(a) => Invokable(a)'
                                               /\ task'[a].pc \notin {"cread", "cmark"},
           \A r \in Runs : /\ runs'[r].issue = runs[r].issue
                           /\ Unstamped(r) => Unstamped(r)'
                           /\ Active(r) => Active(r)',
           \A t \in Tasks : task[t].pc = "release" => task'[t] = task[t]
    PROVE  OwnersInv'
<1>1. lock \in [Issues -> Runs \cup {NoRun}]
  BY DEF Inv, TypeInv, TypeOK, StoreTypeOK
<1>2. ASSUME NEW i \in Issues, Owned(i) PROVE Owned(i)'
  <2>1. CASE lock[i] = NoRun
    BY <1>2, <2>1 DEF Owned
  <2>2. CASE lock[i] # NoRun
    <3>1. PICK r \in Runs : r = lock[i]
      BY <1>1, <2>2
    <3>2. CASE Active(r)
      <4>1. Active(r)'
        BY <3>2
      <4>2. r # NoRun /\ lock'[i] = r
        BY <2>2, <3>1
      <4>3. Active(lock[i])'
        BY <3>1, <4>1 DEF Active
      <4> QED BY <2>2, <4>3 DEF Owned
    <3>3. ASSUME NEW t \in Tasks, task[t].pc = "release", task[t].run = r PROVE Owned(i)'
      BY <2>2, <3>1, <3>3 DEF Owned
    <3> QED BY <1>2, <2>2, <3>1, <3>2, <3>3 DEF Owned
  <2> QED BY <2>1, <2>2
<1> QED BY <1>2 DEF OwnersInv

(* Plain steps.                                                              *)
LEMMA PlainTasks ==
    ASSUME Inv, TasksInv, TasksPlain,
           \A r \in Runs : /\ r <= created => runs'[r].agent = runs[r].agent
                           /\ runs[r].status \in Terminal => runs'[r].status \in Terminal
                           /\ runs[r].status = "running" /\ Stamping(r)
                                => runs'[r].status = "running"
    PROVE  TasksInv'
<1>1. \A t \in Tasks : task'[t] = task[t] \/ PlainMove(t, task'[t])
  BY DEF TasksPlain
<1>2. ASSUME NEW a \in Agents, task'[a] # task[a] PROVE StarterOK(a)'
  <2>1. a \in Tasks /\ PlainMove(a, task'[a]) /\ StarterOK(a)
    BY <1>1, <1>2, Kinds DEF TasksInv
  <2>2. \A row \in task'[a].todo : runs'[row.id].agent = a
    BY <2>1, TaskFacts DEF PlainMove, StarterOK
  <2> QED BY <2>1, <2>2 DEF PlainMove, SpecialPCs, StarterOK
<1>3. \A t \in Tasks : task'[t] = task[t] \/ task'[t].pc # "release"
  BY <1>1 DEF PlainMove, SpecialPCs
<1>4. ASSUME NEW r \in Runs, task'[r] # task[r], task'[r].pc # "idle"
      PROVE  task'[r].run = r
  <2>1. r \in Tasks /\ PlainMove(r, task'[r])
    BY <1>1, <1>4, Kinds
  <2> QED BY <1>4, <2>1 DEF PlainMove, TasksInv, Idle
<1> QED BY <1>2, <1>3, <1>4, TasksKept

LEMMA PlainKeeps ==
    ASSUME Inv, Inv', Plain
    PROVE  /\ IssueInv => IssueInv'
           /\ IssueInv /\ KeysInv => KeysInv'
           /\ Blockable = {} /\ OwnersInv => OwnersInv'
<1>1. created \in Nat /\ created' = created
  BY DEF Inv, TypeInv, TypeOK, StoreTypeOK, Plain
<1>2. \A r \in Runs : /\ runs'[r].status = runs[r].status
                      /\ runs'[r].agent = runs[r].agent
                      /\ runs'[r].issue = runs[r].issue
  BY DEF Plain
<1>3. \A r \in Runs : Active(r)' <=> Active(r)
  BY <1>2 DEF Active
<1>4. \A t \in Tasks : task'[t] = task[t] \/ PlainMove(t, task'[t])
  BY DEF Plain, TasksPlain
<1>5. IssueInv => LocksInv'
  BY <1>1, <1>2, <1>3, LocksKept DEF Plain, IssueInv
<1>6. ASSUME IssueInv PROVE TasksInv'
  BY <1>2, <1>6, PlainTasks DEF Plain, IssueInv
<1>7. ASSUME IssueInv, KeysInv PROVE KeysInv'
  <2>1. \A w \in Wakers : task'[w].pc = "merged" => task'[w] = task[w]
    BY <1>4, Kinds DEF PlainMove, SpecialPCs
  <2> QED BY <1>2, <1>7, <2>1, KeysKept DEF Plain, IssueInv
<1>8. ASSUME Blockable = {}, OwnersInv PROVE OwnersInv'
  <2>1. \A a \in Agents : Invokable(a) => Invokable(a)'
    BY DEF Plain, Invokable
  <2>2. ASSUME crashes = 0, NEW a \in Agents PROVE task'[a].pc \notin {"cread", "cmark"}
    <3>1. a \in Tasks /\ task[a].pc \notin {"cread", "cmark"}
      BY <1>8, <2>2, Kinds DEF OwnersInv
    <3> QED BY <1>4, <3>1 DEF PlainMove, SpecialPCs
  <2>3. ASSUME NEW r \in Runs, Unstamped(r) PROVE Unstamped(r)'
    <3>1. Stamping(r) => Stamping(r)'
      BY Kinds DEF Plain, Stamping
    <3> QED BY <1>2, <2>3, <3>1 DEF Unstamped
  <2>4. \A t \in Tasks : task[t].pc = "release" => task'[t] = task[t]
    BY DEF Plain
  <2> QED BY <1>2, <1>3, <1>8, <2>1, <2>2, <2>3, <2>4, OwnersKept DEF Plain
<1> QED BY <1>5, <1>6, <1>7, <1>8 DEF IssueInv

(* A move of one task, or of one and the starter it starts, is plain if the   *)
(* move is and the task was not stamping or releasing.                       *)
LEMMA PlainStep ==
    ASSUME Inv, TasksPlain, UNCHANGED <<created, lock, lockKey, deferred, crashes, blocked>>,
           \A r \in Runs : /\ runs'[r].status = runs[r].status
                           /\ runs'[r].agent = runs[r].agent
                           /\ runs'[r].issue = runs[r].issue,
           \A a \in Agents : agentStatus'[a] = agentStatus[a] \/ agentStatus'[a] # "paused",
           NEW t \in Tasks, task[t].pc \notin {"stamp", "release"},
           \A u \in Tasks : u = t \/ Idle(u) \/ task'[u] = task[u]
    PROVE  Plain
<1>1. \A u \in Tasks : task[u].pc \in {"stamp", "release"} => task'[u] = task[u]
  BY DEF Idle
<1> QED BY <1>1 DEF Plain, Invokable

LEMMA TailIsPlain ==
    ASSUME Inv, NEW t \in Tasks \ Pausers, TailStep(t)
    PROVE  Plain \/ Release(t)
<1>1. SUFFICES ASSUME ~Release(t) PROVE Plain
  OBVIOUS
<1>2. task[t].pc \in {"promote", "promoteWait", "finread", "finwrite", "kick", "kickWait"}
  BY <1>1 DEF TailStep, PromoteStart, PromoteDone, FinalizeRead, FinalizeWrite, Kick, KickDone
<1>3. UNCHANGED <<runs, created, lock, lockKey, deferred, crashes, blocked>>
  BY <1>1 DEF TailStep, PromoteStart, PromoteDone, FinalizeRead, FinalizeWrite, Kick,
     KickDone, dbVars
<1>4. \A a \in Agents : agentStatus'[a] = agentStatus[a] \/ agentStatus'[a] # "paused"
  <2>1. CASE FinalizeWrite(t)
    <3>1. task[t].out # "paused"
      BY <2>1, TaskFacts DEF FinalizeWrite, TaskOK
    <3> QED BY <2>1, <3>1 DEF FinalizeWrite, Inv, TypeInv, TypeOK, StoreTypeOK
  <2>2. CASE ~FinalizeWrite(t)
    BY <1>1, <2>2 DEF TailStep, PromoteStart, PromoteDone, FinalizeRead, Kick, KickDone, dbVars
  <2> QED BY <2>1, <2>2
<1>5. \A u \in Tasks : u = t \/ Idle(u) \/ task'[u] = task[u]
  <2>1. task \in [Tasks -> TaskOK]
    BY DEF Inv, TypeInv
  <2>2. ASSUME NEW a, NEW pc, EnterStart(t, a, pc)
        PROVE  \A u \in Tasks : u = t \/ Idle(u) \/ task'[u] = task[u]
    BY <2>1, <2>2 DEF EnterStart
  <2>3. CASE Kick(t)
    BY <2>1, <2>2, <2>3 DEF Kick
  <2>4. CASE ~Kick(t)
    BY <1>1, <2>1, <2>2, <2>4 DEF TailStep, PromoteStart, PromoteDone, FinalizeRead,
       FinalizeWrite, KickDone, Goto
  <2> QED BY <2>3, <2>4
<1> QED BY <1>2, <1>3, <1>4, <1>5, TailPlain, PlainStep

LEMMA OneMoves ==
    ASSUME Inv, NEW t \in Tasks, NEW y, task' = [task EXCEPT ![t] = y]
    PROVE  \A u \in Tasks : u = t \/ Idle(u) \/ task'[u] = task[u]
<1>1. task \in [Tasks -> TaskOK]
  BY DEF Inv, TypeInv
<1> QED BY <1>1

LEMMA WakerIsPlain ==
    ASSUME Inv, NEW w \in Wakers,
           WakeReturn(w) \/ Kick(w) \/ \E a \in Agents : WakeAdmit(w, a)
    PROVE  Plain
<1>1. w \in Tasks /\ w \in Tasks \ Pausers /\ w \notin Runs /\ task[w] \in TaskRecord
  BY Kinds, TaskFacts
<1>2. CASE WakeReturn(w)
  <2>1. task' = [task EXCEPT ![w] = IdleTask]
    BY <1>2 DEF WakeReturn, Finish
  <2>2. TasksPlain /\ task[w].pc \notin {"stamp", "release"}
    BY <1>1, <1>2, FinishPlain DEF WakeReturn
  <2> QED BY <1>1, <1>2, <2>1, <2>2, OneMoves, PlainStep DEF WakeReturn, dbVars
<1>3. CASE Kick(w)
  <2>1. TailStep(w) /\ ~Release(w)
    BY <1>3 DEF TailStep, Kick, Release
  <2> QED BY <1>1, <2>1, TailIsPlain
<1>4. ASSUME NEW a \in Agents, WakeAdmit(w, a) PROVE Plain
  <2> DEFINE y == [task[w] EXCEPT !.pc = "admitted", !.to = a]
  <2>1. task' = [task EXCEPT ![w] = y] /\ task[w].pc \notin {"stamp", "release"}
    BY <1>4 DEF WakeAdmit, Idle
  <2>2. PlainMove(w, y)
    BY <1>1 DEF PlainMove, SpecialPCs, TaskRecord
  <2>3. TasksPlain
    BY <1>1, <2>1, <2>2, MovePlain
  <2>4. UNCHANGED <<dbVars, blocked, crashes>>
    BY <1>4 DEF WakeAdmit
  <2> QED BY <1>1, <2>1, <2>3, <2>4, OneMoves, PlainStep DEF dbVars
<1> QED BY <1>2, <1>3, <1>4

LEMMA StartCheckIsPlain ==
    ASSUME Inv, NEW a \in Agents, StartCheck(a)
    PROVE  Plain
<1>1. a \in Tasks /\ task[a].pc = "start"
  BY Kinds DEF StartCheck
<1>2. TasksPlain
  BY <1>1, FinishPlain, GotoPlain DEF StartCheck, SpecialPCs
<1>3. \A u \in Tasks : u = a \/ Idle(u) \/ task'[u] = task[u]
  BY <1>1, OneMoves DEF StartCheck, Goto, Finish
<1>4. UNCHANGED <<dbVars, blocked, crashes>>
  BY DEF StartCheck
<1> QED BY <1>1, <1>2, <1>3, <1>4, PlainStep DEF dbVars

LEMMA ExecIsPlain ==
    ASSUME Inv, NEW r \in Runs,
           \/ ExecBegin(r) \/ ExecPrepare(r) \/ ExecSpawn(r)
           \/ ExecReturn(r) \/ ExecThrow(r) \/ ExecCleanup(r)
    PROVE  Plain
<1>1. /\ r \in Tasks /\ task[r] \in TaskRecord
      /\ task[r].pc \in {"launched", "setup", "starting", "executing", "cleanup"}
      /\ UNCHANGED <<runs, created, lock, lockKey, deferred, blocked, crashes>>
  BY Kinds, TaskFacts DEF ExecBegin, ExecPrepare, ExecSpawn, ExecReturn, ExecThrow,
     ExecCleanup, dbVars
<1>2. TasksPlain
  <2>1. CASE ExecBegin(r) \/ ExecPrepare(r) \/ ExecSpawn(r) \/ ExecCleanup(r)
    BY <1>1, <2>1, FinishPlain, GotoPlain
       DEF ExecBegin, ExecPrepare, ExecSpawn, ExecCleanup, SpecialPCs
  <2>2. ASSUME NEW out, task' = [task EXCEPT ![r].pc = "mark", ![r].out = out]
        PROVE  TasksPlain
    <3> DEFINE y == [task[r] EXCEPT !.pc = "mark", !.out = out]
    <3>1. task' = [task EXCEPT ![r] = y]
      BY <2>2
    <3>2. PlainMove(r, y)
      BY <1>1 DEF PlainMove, SpecialPCs, TaskRecord
    <3> QED BY <1>1, <3>1, <3>2, MovePlain
  <2> QED BY <2>1, <2>2 DEF ExecReturn, ExecThrow
<1>3. PICK y : task' = [task EXCEPT ![r] = y]
  BY DEF ExecBegin, ExecPrepare, ExecSpawn, ExecReturn, ExecThrow, ExecCleanup, Goto, Finish
<1>4. \A a \in Agents : agentStatus'[a] = agentStatus[a] \/ agentStatus'[a] # "paused"
  <2>1. agentStatus \in [Agents -> AgentStatuses]
    BY DEF Inv, TypeInv, TypeOK, StoreTypeOK
  <2> QED BY <2>1 DEF ExecBegin, ExecPrepare, ExecSpawn, ExecReturn, ExecThrow,
             ExecCleanup, dbVars
<1> QED BY <1>1, <1>2, <1>3, <1>4, OneMoves, PlainStep

LEMMA OutsideIsPlain ==
    ASSUME Inv,
           \/ \E a \in Resumable : ResumeAgent(a)
           \/ \E a \in Blockable : ToggleBlock(a)
           \/ \E r \in Runs : PersistPid(r) \/ ChildExit(r) \/ ReportActivity(r)
           \/ UNCHANGED vars
    PROVE  Plain
<1>1. UNCHANGED <<created, lock, lockKey, deferred, crashes, task>>
  BY DEF ResumeAgent, ToggleBlock, PersistPid, ChildExit, ReportActivity, vars, memVars, dbVars
<1>2. \A r \in Runs : /\ runs'[r].status = runs[r].status
                      /\ runs'[r].agent = runs[r].agent
                      /\ runs'[r].issue = runs[r].issue
  <2>1. CASE \E r \in Runs : PersistPid(r) \/ ReportActivity(r)
    BY <2>1, FlagSet DEF PersistPid, ReportActivity
  <2>2. CASE ~ \E r \in Runs : PersistPid(r) \/ ReportActivity(r)
    BY <2>2 DEF ResumeAgent, ToggleBlock, ChildExit, vars, dbVars
  <2> QED BY <2>1, <2>2
<1>3. \A a \in Agents : Invokable(a) => agentStatus'[a] # "paused"
  <2>1. agentStatus \in [Agents -> AgentStatuses]
    BY DEF Inv, TypeInv, TypeOK, StoreTypeOK
  <2> QED BY <2>1 DEF ResumeAgent, ToggleBlock, PersistPid, ChildExit, ReportActivity,
             vars, memVars, dbVars, Invokable
<1>4. Blockable = {} => blocked' = blocked
  BY DEF ResumeAgent, ToggleBlock, PersistPid, ChildExit, ReportActivity, vars, memVars, dbVars
<1> QED BY <1>1, <1>2, <1>3, <1>4 DEF Plain, TasksPlain

(* The steps of an undisturbed orchestrator.                                 *)
LEMMA UndisturbedSteps ==
    ASSUME Undisturbed, Inv, [Next]_vars
    PROVE  \/ Plain
           \/ \E w \in Wakers : WakeCommit(w)
           \/ \E a \in Agents : StartSelect(a) \/ ClaimRead(a) \/ CancelRead(a) \/ Launch(a)
           \/ \E a \in Agents : ClaimUpdate(a)
           \/ \E a \in Agents : ClaimStamp(a)
           \/ \E a \in Agents : CancelMark(a)
           \/ \E r \in Runs : ExecMark(r)
           \/ \E t \in Runs \cup Agents : Release(t)
           \/ \E k \in Reapers : \/ ReaperStep(k)
                                 \/ \E fresh \in SUBSET Runs : PeriodicScan(k, fresh)
           \/ \E i \in Editable : EditIssue(i)
           \/ Crash
<1>1. ASSUME NEW w \in Wakers, WakerStep(w) PROVE WakeCommit(w) \/ Plain
  BY <1>1, WakerIsPlain DEF WakerStep
<1>2. ASSUME NEW a \in Agents, StarterStep(a)
      PROVE  \/ Plain \/ Release(a)
             \/ StartSelect(a) \/ ClaimRead(a) \/ CancelRead(a) \/ Launch(a)
             \/ ClaimUpdate(a) \/ ClaimStamp(a) \/ CancelMark(a)
  <2>1. a \in Tasks \ Pausers
    BY Kinds
  <2> QED BY <1>2, <2>1, TailIsPlain, StartCheckIsPlain DEF StarterStep
<1>3. ASSUME NEW r \in Runs, ExecutorStep(r) PROVE Plain \/ ExecMark(r) \/ Release(r)
  <2>1. r \in Tasks \ Pausers
    BY Kinds
  <2> QED BY <1>3, <2>1, TailIsPlain, ExecIsPlain DEF ExecutorStep
<1>4. ASSUME EnvironmentStep
      PROVE  \/ Plain \/ Crash \/ \E i \in Editable : EditIssue(i)
             \/ \E k \in Reapers, fresh \in SUBSET Runs : PeriodicScan(k, fresh)
  BY <1>4, WakerIsPlain, OutsideIsPlain DEF EnvironmentStep, Undisturbed
<1> QED BY <1>1, <1>2, <1>3, <1>4, OutsideIsPlain DEF Next, Undisturbed

(* The steps of starters that change no row.                                 *)
LEMMA MoveKeeps ==
    ASSUME Inv, Inv', IssueInv, UNCHANGED <<dbVars, blocked, crashes>>,
           \A t \in Tasks : task[t].pc \in {"stamp", "release"} => task'[t] = task[t],
           \A t \in Tasks : task'[t] = task[t] \/ task'[t].pc \notin {"release", "merged"},
           \A a \in Agents : task'[a] = task[a] \/ StarterOK(a)',
           \A r \in Runs : task'[r] = task[r] \/ task'[r].pc = "idle" \/ task'[r].run = r
    PROVE  /\ IssueInv'
           /\ KeysInv => KeysInv'
           /\ OwnersInv /\ (crashes = 0 => \A a \in Agents : task'[a].pc \notin {"cread", "cmark"})
                => OwnersInv'
<1>1. UNCHANGED <<runs, created, lock, lockKey, deferred, agentStatus>> /\ created \in Nat
  BY DEF dbVars, Inv, TypeInv, TypeOK, StoreTypeOK
<1>2. LocksInv'
  BY <1>1, LocksKept DEF IssueInv, Active
<1>3. TasksInv'
  BY <1>1, TasksKept DEF IssueInv
<1>4. KeysInv => KeysInv'
  <2>1. \A w \in Wakers : task'[w].pc = "merged" => task'[w] = task[w]
    BY Kinds
  <2> QED BY <1>1, <2>1, KeysKept DEF IssueInv
<1>5. ASSUME OwnersInv, crashes = 0 => \A a \in Agents : task'[a].pc \notin {"cread", "cmark"}
      PROVE  OwnersInv'
  <2>1. \A r \in Runs : Stamping(r) => Stamping(r)'
    BY Kinds DEF Stamping
  <2>2. \A r \in Runs : (Unstamped(r) => Unstamped(r)') /\ (Active(r) => Active(r)')
    BY <1>1, <2>1 DEF Unstamped, Active
  <2>3. \A a \in Agents : Invokable(a) => Invokable(a)'
    BY <1>1 DEF Invokable
  <2>4. \A t \in Tasks : task[t].pc = "release" => task'[t] = task[t]
    OBVIOUS
  <2> QED BY <1>1, <1>5, <2>2, <2>3, <2>4, OwnersKept
<1> QED BY <1>2, <1>3, <1>4, <1>5 DEF IssueInv

LEMMA StarterMoveKeeps ==
    ASSUME Inv, Inv', IssueInv, NEW a \in Agents, UNCHANGED <<dbVars, blocked, crashes>>,
           task[a].pc \notin {"stamp", "release"},
           NEW y, task' = [task EXCEPT ![a] = y],
           \A row \in y.todo : runs[row.id].agent = a,
           y.pc \in {"claiming", "cread", "cmark"} => runs[y.run].agent = a,
           y.pc \notin {"stamp", "release", "merged"}
    PROVE  /\ IssueInv'
           /\ KeysInv => KeysInv'
           /\ OwnersInv /\ (crashes = 0 => y.pc \notin {"cread", "cmark"}) => OwnersInv'
<1>1. task \in [Tasks -> TaskOK] /\ a \in Tasks /\ a \notin Runs
  BY Kinds DEF Inv, TypeInv
<1>2. task'[a] = y /\ \A t \in Tasks : t # a => task'[t] = task[t]
  BY <1>1
<1>3. StarterOK(a)'
  BY <1>2 DEF StarterOK, dbVars
<1>4. OwnersInv /\ (crashes = 0 => y.pc \notin {"cread", "cmark"}) =>
        (crashes = 0 => \A b \in Agents : task'[b].pc \notin {"cread", "cmark"})
  BY <1>2, Kinds DEF OwnersInv
<1>5. \A t \in Tasks : task[t].pc \in {"stamp", "release"} => task'[t] = task[t]
  BY <1>2
<1>6. \A t \in Tasks : task'[t] = task[t] \/ task'[t].pc \notin {"release", "merged"}
  BY <1>2
<1>7. \A b \in Agents : task'[b] = task[b] \/ StarterOK(b)'
  BY <1>2, <1>3, Kinds
<1>8. \A r \in Runs : task'[r] = task[r] \/ task'[r].pc = "idle" \/ task'[r].run = r
  BY <1>1, <1>2, Kinds
<1> QED BY <1>4, <1>5, <1>6, <1>7, <1>8, MoveKeeps

LEMMA StarterReadKeeps ==
    ASSUME Inv, Inv', IssueInv, NEW a \in Agents,
           StartSelect(a) \/ ClaimRead(a) \/ CancelRead(a) \/ Launch(a)
    PROVE  /\ IssueInv'
           /\ KeysInv => KeysInv'
           /\ OwnersInv => OwnersInv'
<1>1. /\ a \in Tasks /\ a \notin Runs /\ task[a] \in TaskRecord /\ StarterOK(a)
      /\ task[a].pc \in {"select", "claim", "cread"}
      /\ UNCHANGED <<dbVars, blocked, crashes>>
      /\ task \in [Tasks -> TaskOK]
  BY Kinds, TaskFacts DEF StartSelect, ClaimRead, CancelRead, Launch, Inv, TypeInv,
     IssueInv, TasksInv
<1>2. IdleTask.todo = {} /\ IdleTask.pc = "idle" /\ IdleTask.run = 0
  BY IdleTaskFields
<1>3. CASE StartSelect(a)
  <2>1. CASE Finish(a)
    BY <1>1, <1>2, <2>1, StarterMoveKeeps DEF Finish
  <2>2. ASSUME NEW batch \in OldestOf(QueuedRuns(a), Slots(a)),
               task' = [task EXCEPT ![a].pc = "claim", ![a].todo = {Row(r) : r \in batch}]
        PROVE  /\ IssueInv'
               /\ KeysInv => KeysInv'
               /\ OwnersInv => OwnersInv'
    <3> DEFINE rows == {Row(r) : r \in batch}
               y    == [task[a] EXCEPT !.pc = "claim", !.todo = rows]
    <3>1. batch \in SUBSET Runs /\ \A r \in batch : runs[r].agent = a
      BY DEF OldestOf, QueuedRuns
    <3>2. \A row \in rows : runs[row.id].agent = a
      BY <3>1, RowFacts
    <3>3. y.todo = rows /\ y.pc = "claim"
      BY <1>1 DEF TaskRecord
    <3>4. task' = [task EXCEPT ![a] = y]
      BY <2>2
    <3> HIDE DEF y
    <3> QED BY <1>1, <3>2, <3>3, <3>4, StarterMoveKeeps
  <2> QED BY <1>3, <2>1, <2>2 DEF StartSelect
<1>4. CASE ClaimRead(a)
  <2>1. PICK row \in task[a].todo, pc \in {"claiming", "cread"} :
          /\ pc = (IF MayStart(a) THEN "claiming" ELSE "cread")
          /\ task' = [task EXCEPT ![a].todo = @ \ {row}, ![a].run = row.id, ![a].pc = pc]
    BY <1>4 DEF ClaimRead
  <2> DEFINE y == [task[a] EXCEPT !.todo = task[a].todo \ {row}, !.run = row.id, !.pc = pc]
  <2>2. y.todo = task[a].todo \ {row} /\ y.run = row.id /\ y.pc = pc
    BY <1>1 DEF TaskRecord
  <2>3. task' = [task EXCEPT ![a] = y]
    BY <2>1
  <2>4. runs[row.id].agent = a /\ \A q \in task[a].todo : runs[q.id].agent = a
    BY <1>1 DEF StarterOK
  <2>5. OwnersInv /\ crashes = 0 => pc = "claiming"
    BY <2>1 DEF OwnersInv, MayStart
  <2> HIDE DEF y
  <2> QED BY <1>1, <2>2, <2>3, <2>4, <2>5, StarterMoveKeeps
<1>5. CASE CancelRead(a)
  <2>1. PICK pc \in {"cmark", "claim"} : task' = [task EXCEPT ![a] = [task[a] EXCEPT !.pc = pc]]
    BY <1>5 DEF CancelRead, Goto
  <2> DEFINE y == [task[a] EXCEPT !.pc = pc]
  <2>2. y.pc = pc /\ y.todo = task[a].todo /\ y.run = task[a].run
    BY <1>1 DEF TaskRecord
  <2>3. /\ runs[task[a].run].agent = a /\ \A q \in task[a].todo : runs[q.id].agent = a
        /\ OwnersInv => crashes # 0
    BY <1>1, <1>5 DEF StarterOK, CancelRead, OwnersInv
  <2>4. task' = [task EXCEPT ![a] = y]
    BY <2>1
  <2> HIDE DEF y
  <2> QED BY <1>1, <2>2, <2>3, <2>4, StarterMoveKeeps
<1>6. CASE Launch(a)
  <2>1. task[a].pc = "claim" /\ task[a].got \subseteq Runs
    BY <1>1, <1>6, TaskFacts DEF Launch
  <2>2. /\ task'[a] = IdleTask
        /\ \A t \in Tasks : t # a /\ t \notin task[a].got => task'[t] = task[t]
        /\ \A t \in task[a].got : task'[t] = [IdleTask EXCEPT !.pc = "launched", !.run = t]
    BY <1>1, <1>6, <2>1, Kinds DEF Launch
  <2>3. \A t \in task[a].got : task'[t].run = t /\ task'[t].pc = "launched" /\ Idle(t)
    BY <1>1, <2>2 DEF IdleTask, Inv, Launching
  <2>4. \A b \in Agents : b = a \/ task'[b] = task[b]
    BY <2>1, <2>2, Kinds
  <2>5. StarterOK(a)'
    BY <1>2, <2>2 DEF StarterOK
  <2>6. \A t \in Tasks : task[t].pc \in {"stamp", "release"} => task'[t] = task[t]
    BY <2>1, <2>2, <2>3 DEF Idle
  <2>7. \A t \in Tasks : task'[t] = task[t] \/ task'[t].pc \notin {"release", "merged"}
    BY <1>2, <2>2, <2>3
  <2>8. \A r \in Runs : task'[r] = task[r] \/ task'[r].pc = "idle" \/ task'[r].run = r
    BY <1>1, <2>2, <2>3, Kinds
  <2>9. OwnersInv => (crashes = 0 => \A b \in Agents : task'[b].pc \notin {"cread", "cmark"})
    BY <1>2, <2>2, <2>4 DEF OwnersInv
  <2>10. \A b \in Agents : task'[b] = task[b] \/ StarterOK(b)'
    BY <2>4, <2>5
  <2> QED BY <1>1, <2>6, <2>7, <2>8, <2>9, <2>10, MoveKeeps
<1> QED BY <1>3, <1>4, <1>5, <1>6

(* The same for a step that changes the lock of one issue at most.           *)
LEMMA OwnersMoved ==
    ASSUME Inv, LocksInv, OwnersInv, UNCHANGED <<agentStatus, blocked, crashes>>,
           NEW i \in Issues \cup {NoIssue},
           \A j \in Issues : j = i \/ (lock'[j] = lock[j] /\ deferred'[j] = deferred[j]),
           i \in Issues => (deferred'[i] # <<>> => Owned(i)'),
           \A a \in Agents : task'[a] = task[a] \/ task'[a].pc \notin {"cread", "cmark"},
           \A r \in Runs : runs[r].issue # i =>
                /\ Unstamped(r) => Unstamped(r)' /\ runs'[r].issue = runs[r].issue
                /\ Active(r) => Active(r)',
           \A t \in Tasks : task[t].pc = "release" =>
                task'[t] = task[t] \/ \A j \in Issues : lock[j] = task[t].run => j = i
    PROVE  OwnersInv'
<1>1. lock \in [Issues -> Runs \cup {NoRun}]
  BY DEF Inv, TypeInv, TypeOK, StoreTypeOK
<1>2. ASSUME NEW j \in Issues, j # i, Owned(j) PROVE Owned(j)'
  <2>1. CASE lock[j] = NoRun
    <3>1. PICK r \in Runs : runs[r].issue = j /\ Unstamped(r)
      BY <1>2, <2>1 DEF Owned
    <3>2. runs'[r].issue = j /\ Unstamped(r)'
      BY <1>2, <3>1
    <3>3. lock'[j] = NoRun
      BY <1>2, <2>1
    <3> QED BY <3>2, <3>3 DEF Owned
  <2>2. CASE lock[j] # NoRun
    <3>1. PICK r \in Runs : r = lock[j]
      BY <1>1, <2>2
    <3>2. lock'[j] = r /\ r # NoRun /\ runs[r].issue = j
      BY <1>2, <2>2, <3>1 DEF LocksInv
    <3>3. ASSUME Active(r) PROVE Owned(j)'
      <4>1. Active(r)'
        BY <1>2, <3>2, <3>3
      <4>2. Active(lock[j])'
        BY <3>2, <4>1 DEF Active
      <4> QED BY <3>2, <4>2 DEF Owned
    <3>4. ASSUME NEW t \in Tasks, task[t].pc = "release", task[t].run = r PROVE Owned(j)'
      <4>1. task'[t] = task[t]
        BY <1>2, <3>1, <3>4
      <4> QED BY <3>2, <3>4, <4>1 DEF Owned
    <3> QED BY <1>2, <2>2, <3>1, <3>3, <3>4 DEF Owned
  <2> QED BY <2>1, <2>2
<1>3. ASSUME crashes = 0, NEW a \in Agents
      PROVE  Invokable(a)' /\ task'[a].pc \notin {"cread", "cmark"}
  BY <1>3 DEF OwnersInv, Invokable
<1>4. ASSUME crashes = 0, NEW j \in Issues, deferred'[j] # <<>> PROVE Owned(j)'
  BY <1>2, <1>4 DEF OwnersInv
<1> QED BY <1>3, <1>4 DEF OwnersInv

(* The claim.                                                                *)
LEMMA ClaimUpdateKeeps ==
    ASSUME Inv, Inv', IssueInv, NEW a \in Agents, ClaimUpdate(a)
    PROVE  /\ IssueInv'
           /\ KeysInv => KeysInv'
           /\ OwnersInv => OwnersInv'
<1>1. /\ a \in Tasks /\ a \notin Runs /\ task[a] \in TaskRecord /\ StarterOK(a)
      /\ task[a].pc = "claiming" /\ task \in [Tasks -> TaskOK] /\ created \in Nat
  BY Kinds, TaskFacts DEF ClaimUpdate, Inv, TypeInv, IssueInv, TasksInv
<1>2. /\ \A row \in task[a].todo : runs[row.id].agent = a /\ row.id \in Runs
                                   /\ row.id <= created
      /\ runs[task[a].run].agent = a
  BY <1>1, TaskFacts DEF StarterOK
<1>3. PICK r \in Runs : r = task[a].run /\ r <= created
  BY <1>1, TaskFacts DEF NoRunPCs
<1>4. UNCHANGED <<created, lock, lockKey, deferred, agentStatus, blocked, crashes>>
  BY DEF ClaimUpdate
<1>5. CASE ~MayClaim(r)
  <2> DEFINE y == [task[a] EXCEPT !.pc = "claim"]
  <2>1. task' = [task EXCEPT ![a] = y] /\ UNCHANGED dbVars
    BY <1>3, <1>5 DEF ClaimUpdate, Goto, dbVars
  <2>2. y.pc = "claim" /\ y.todo = task[a].todo
    BY <1>1 DEF TaskRecord
  <2> HIDE DEF y
  <2> QED BY <1>1, <1>2, <1>4, <2>1, <2>2, StarterMoveKeeps
<1>6. CASE MayClaim(r)
  <2> DEFINE y == [task[a] EXCEPT !.pc = "stamp", !.got = task[a].got \cup {r}]
  <2>1. task' = [task EXCEPT ![a] = y] /\ SetClaimed(r)
    BY <1>3, <1>6 DEF ClaimUpdate
  <2>2. y.pc = "stamp" /\ y.todo = task[a].todo /\ y.run = r /\ r \in y.got
    BY <1>1, <1>3 DEF TaskRecord
  <2> HIDE DEF y
  <2>3. /\ runs[r].status = "queued" /\ runs'[r].status = "running"
        /\ \A q \in Runs : /\ runs'[q].agent = runs[q].agent
                           /\ runs'[q].issue = runs[q].issue
                           /\ q # r => runs'[q].status = runs[q].status
    BY <1>6, <2>1, StatusSet DEF MayClaim
  <2>4. task'[a] = y /\ \A t \in Tasks : t # a => task'[t] = task[t]
    BY <1>1, <2>1
  <2>5. \A q \in Runs : Active(q)' <=> Active(q)
    BY <2>3 DEF Active
  <2>6. LocksInv'
    BY <1>1, <1>4, <2>3, <2>5, LocksKept DEF IssueInv
  <2>7. StarterOK(a)'
    BY <1>2, <1>3, <2>2, <2>3, <2>4 DEF StarterOK
  <2>8. /\ \A b \in Agents : task'[b] = task[b] \/ StarterOK(b)'
        /\ \A t \in Tasks : \/ task'[t] = task[t] \/ task'[t].pc # "release"
                            \/ runs'[task'[t].run].status \in Terminal
        /\ \A q \in Runs : task'[q] = task[q] \/ task'[q].pc = "idle" \/ task'[q].run = q
    BY <1>1, <2>2, <2>4, <2>7, Kinds
  <2>9. \A q \in Runs : /\ q <= created => runs'[q].agent = runs[q].agent
                        /\ runs[q].status \in Terminal => runs'[q].status \in Terminal
                        /\ runs[q].status = "running" /\ Stamping(q)
                                => runs'[q].status = "running"
    BY <2>3 DEF Terminal
  <2>10. TasksInv'
    BY <2>8, <2>9, TasksKept DEF IssueInv
  <2>11. ASSUME KeysInv PROVE KeysInv'
    <3>1. \A w \in Wakers : task'[w].pc = "merged" => task'[w] = task[w]
      BY <2>2, <2>4, Kinds
    <3> QED BY <1>4, <2>9, <2>11, <3>1, KeysKept DEF IssueInv
  <2>12. ASSUME OwnersInv PROVE OwnersInv'
    <3>1. Stamping(r)'
      BY <2>2, <2>4 DEF Stamping
    <3>2. \A q \in Runs : q # r /\ Stamping(q) => Stamping(q)'
      BY <1>1, <2>4, Kinds DEF Stamping
    <3>3. \A q \in Runs : Unstamped(q) => Unstamped(q)'
      BY <2>3, <3>1, <3>2 DEF Unstamped
    <3>4. crashes = 0 => \A b \in Agents : (Invokable(b) => Invokable(b)')
                                           /\ task'[b].pc \notin {"cread", "cmark"}
      BY <1>4, <2>2, <2>4, <2>12, Kinds DEF OwnersInv, Invokable
    <3>5. \A t \in Tasks : task[t].pc = "release" => task'[t] = task[t]
      BY <1>1, <2>4
    <3> QED BY <1>4, <2>3, <2>5, <2>12, <3>3, <3>4, <3>5, OwnersKept
  <2> QED BY <2>6, <2>10, <2>11, <2>12 DEF IssueInv
<1> QED BY <1>5, <1>6

(* Ending a run: its executor or its starter goes on to release it.          *)
LEMMA MarkKeeps ==
    ASSUME Inv, Inv', IssueInv, NEW t \in Tasks \ Wakers, NEW r \in Runs, NEW s \in Terminal,
           SetRunStatus(r, s), NEW y, task' = [task EXCEPT ![t] = y],
           task[t].pc \notin {"stamp", "release"},
           y.pc = "release", y.run = r, y.todo \subseteq task[t].todo, t \in Runs => r = t,
           UNCHANGED <<created, lock, lockKey, deferred, agentStatus, blocked, crashes>>,
           ~Stamping(r), OwnersInv /\ crashes = 0 => runs[r].status # "queued"
    PROVE  /\ IssueInv'
           /\ KeysInv => KeysInv'
           /\ OwnersInv => OwnersInv'
<1>1. t \in Tasks /\ task \in [Tasks -> TaskOK] /\ created \in Nat
  BY Kinds DEF Inv, TypeInv, TypeOK, StoreTypeOK
<1>2. task'[t] = y /\ \A u \in Tasks : u # t => task'[u] = task[u]
  BY <1>1
<1>3. /\ runs'[r].status = s
      /\ \A q \in Runs : /\ runs'[q].agent = runs[q].agent
                         /\ runs'[q].issue = runs[q].issue
                         /\ q # r => runs'[q].status = runs[q].status
  BY StatusSet
<1>4. ~Active(r)' /\ \A q \in Runs : (Active(q)' => Active(q))
                                     /\ (q # r /\ Active(q) => Active(q)')
  BY <1>3 DEF Active, Terminal
<1>5. LocksInv'
  BY <1>1, <1>3, <1>4, LocksKept DEF IssueInv
<1>6. ASSUME t \in Agents PROVE StarterOK(t)'
  <2>1. \A row \in task[t].todo : runs'[row.id].agent = t
    BY <1>1, <1>3, <1>6, TaskFacts DEF IssueInv, TasksInv, StarterOK
  <2> QED BY <1>2, <2>1 DEF StarterOK
<1>7. /\ \A b \in Agents : task'[b] = task[b] \/ StarterOK(b)'
      /\ \A u \in Tasks : \/ task'[u] = task[u] \/ task'[u].pc # "release"
                          \/ runs'[task'[u].run].status \in Terminal
      /\ \A q \in Runs : task'[q] = task[q] \/ task'[q].pc = "idle" \/ task'[q].run = q
  BY <1>2, <1>3, <1>6, Kinds
<1>8. \A q \in Runs : /\ q <= created => runs'[q].agent = runs[q].agent
                      /\ runs[q].status \in Terminal => runs'[q].status \in Terminal
                      /\ runs[q].status = "running" /\ Stamping(q)
                              => runs'[q].status = "running"
  BY <1>3
<1>9. TasksInv'
  BY <1>7, <1>8, TasksKept DEF IssueInv
<1>10. ASSUME KeysInv PROVE KeysInv'
  <2>1. \A w \in Wakers : task'[w].pc = "merged" => task'[w] = task[w]
    BY <1>2, Kinds
  <2> QED BY <1>8, <1>10, <2>1, KeysKept DEF IssueInv
<1>11. ASSUME OwnersInv PROVE OwnersInv'
  <2>1. ASSUME crashes = 0, NEW q \in Runs, Unstamped(q)
        PROVE  Unstamped(q)'
    <3>1. q # r
      BY <1>11, <2>1 DEF Unstamped
    <3>2. Stamping(q) => Stamping(q)'
      BY <1>2, Kinds DEF Stamping
    <3> QED BY <1>3, <2>1, <3>1, <3>2 DEF Unstamped
  <2>2. ASSUME crashes = 0, NEW i \in Issues, Owned(i) PROVE Owned(i)'
    <3>1. CASE lock[i] = NoRun
      BY <1>3, <2>1, <2>2, <3>1 DEF Owned
    <3>2. CASE lock[i] # NoRun
      <4>1. PICK q \in Runs : q = lock[i] /\ q = lock'[i] /\ q # NoRun
        BY <3>2 DEF Inv, TypeInv, TypeOK, StoreTypeOK
      <4>2. CASE q = r
        BY <1>1, <1>2, <4>1, <4>2 DEF Owned
      <4>3. CASE q # r /\ Active(q)
        <5>1. Active(q)'
          BY <1>4, <4>3
        <5>2. Active(lock[i])'
          BY <4>1, <5>1 DEF Active
        <5> QED BY <4>1, <5>2 DEF Owned
      <4>4. ASSUME NEW u \in Tasks, task[u].pc = "release", task[u].run = q PROVE Owned(i)'
        <5>1. task'[u] = task[u]
          BY <1>2, <4>4
        <5> QED BY <4>1, <4>4, <5>1 DEF Owned
      <4> QED BY <2>2, <3>2, <4>1, <4>2, <4>3, <4>4 DEF Owned
    <3> QED BY <3>1, <3>2
  <2>3. crashes = 0 => \A a \in Agents : Invokable(a)' /\ task'[a].pc \notin {"cread", "cmark"}
    BY <1>2, <1>11, Kinds DEF OwnersInv, Invokable
  <2> QED BY <1>11, <2>2, <2>3 DEF OwnersInv
<1> QED BY <1>5, <1>9, <1>10, <1>11 DEF IssueInv

LEMMA CancelMarkKeeps ==
    ASSUME Inv, Inv', IssueInv, NEW a \in Agents, CancelMark(a)
    PROVE  /\ IssueInv'
           /\ KeysInv => KeysInv'
           /\ OwnersInv => OwnersInv'
<1>1. a \in Tasks /\ task[a] \in TaskRecord /\ StarterOK(a) /\ task[a].pc = "cmark"
  BY Kinds, TaskFacts DEF CancelMark, IssueInv, TasksInv
<1>2. PICK r \in Runs : r = task[a].run /\ runs[r].agent = a
  BY <1>1, TaskFacts DEF NoRunPCs, StarterOK
<1> DEFINE y == [task[a] EXCEPT !.pc = "release", !.out = "cancelled"]
<1>3. task' = [task EXCEPT ![a] = y] /\ SetRunStatus(r, "cancelled") /\ "cancelled" \in Terminal
  BY <1>2 DEF CancelMark, Terminal
<1>4. y.pc = "release" /\ y.run = r /\ y.todo \subseteq task[a].todo
  BY <1>1, <1>2 DEF TaskRecord
<1> HIDE DEF y
<1>5. ~Stamping(r)
  BY <1>1, <1>2 DEF Stamping, IssueInv, TasksInv, StarterOK
<1>6. OwnersInv => crashes # 0
  BY <1>1 DEF OwnersInv
<1>7. a \in Tasks \ Wakers /\ a \notin Runs /\ task[a].pc \notin {"stamp", "release"}
  BY <1>1, Kinds
<1>8. UNCHANGED <<created, lock, lockKey, deferred, agentStatus, blocked, crashes>>
  BY DEF CancelMark
<1> QED BY <1>3, <1>4, <1>5, <1>6, <1>7, <1>8, MarkKeeps

LEMMA ExecMarkKeeps ==
    ASSUME Inv, Inv', IssueInv, NEW r \in Runs, ExecMark(r)
    PROVE  /\ IssueInv'
           /\ KeysInv => KeysInv'
           /\ OwnersInv => OwnersInv'
<1>1. r \in Tasks \ Wakers /\ task[r] \in TaskRecord /\ task[r].pc = "mark" /\ task[r].run = r
  BY Kinds, TaskFacts DEF ExecMark, IssueInv, TasksInv, Idle
<1>2. PICK s \in Terminal : s = task[r].out
  BY <1>1, TaskFacts DEF TaskOK
<1> DEFINE y == [task[r] EXCEPT !.pc = "release"]
<1>3. task' = [task EXCEPT ![r] = y] /\ SetRunStatus(r, s)
  BY <1>2 DEF ExecMark, Goto
<1>4. y.pc = "release" /\ y.run = r /\ y.todo \subseteq task[r].todo
  BY <1>1 DEF TaskRecord
<1> HIDE DEF y
<1>5. ~Idle(r) /\ runs[r].status # "queued" /\ ~Stamping(r)
  BY <1>1, Kinds DEF Idle, Stamping, IssueInv, TasksInv, StarterOK, Inv, Launching
<1>6. UNCHANGED <<created, lock, lockKey, deferred, agentStatus, blocked, crashes>>
  BY DEF ExecMark
<1> QED BY <1>1, <1>3, <1>4, <1>5, <1>6, MarkKeeps

(* The stamp: the run takes the lock of its issue, which names no other run.  *)
LEMMA ClaimStampKeeps ==
    ASSUME Inv, Inv', IssueInv, NEW a \in Agents, ClaimStamp(a)
    PROVE  /\ IssueInv'
           /\ KeysInv => KeysInv'
           /\ OwnersInv => OwnersInv'
<1>1. /\ a \in Tasks /\ task[a] \in TaskRecord /\ StarterOK(a) /\ task[a].pc = "stamp"
      /\ created \in Nat /\ task \in [Tasks -> TaskOK]
  BY Kinds, TaskFacts DEF ClaimStamp, IssueInv, TasksInv, Inv, TypeInv
<1>2. PICK r \in Runs : /\ r = task[a].run /\ r <= created /\ runs[r].agent = a
                        /\ runs[r].status = "running"
  BY <1>1, TaskFacts DEF NoRunPCs, StarterOK
<1>3. PICK i \in Issues \cup {NoIssue} : i = runs[r].issue
  BY DEF Inv, TypeInv, TypeOK, StoreTypeOK, RunRecord
<1>4. /\ UNCHANGED <<runs, created, deferred, agentStatus, blocked, crashes>>
      /\ StampLock(r) /\ Goto(a, "claim")
  BY <1>2 DEF ClaimStamp, StampLock
<1>5. Active(r) /\ \A q \in Runs : Active(q) /\ runs[q].issue = i /\ i # NoIssue => q = r
  BY <1>2, <1>3 DEF Active, IssueInv, LocksInv, OneActiveRunPerIssue
<1>6. i # NoIssue => lock[i] \in {NoRun, r}
  BY <1>3, <1>5 DEF IssueInv, LocksInv
<1>7. lock \in [Issues -> Runs \cup {NoRun}] /\ lockKey \in [Issues -> Agents \cup {NoAgent}]
  BY DEF Inv, TypeInv, TypeOK, StoreTypeOK
<1>8. /\ i \in Issues => lock'[i] = r /\ lockKey'[i] = a
      /\ \A j \in Issues : j = i \/ (lock'[j] = lock[j] /\ lockKey'[j] = lockKey[j])
  <2>1. CASE i = NoIssue
    BY <1>3, <1>4, <2>1, RunStoreAssumption DEF StampLock
  <2>2. CASE i # NoIssue
    BY <1>2, <1>3, <1>4, <1>6, <1>7, <2>2 DEF StampLock
  <2> QED BY <2>1, <2>2
<1>9. \A q \in Runs : Active(q)' <=> Active(q)
  BY <1>4 DEF Active
<1>10. LocksInv'
  <2>1. i \in Issues => \A p, q \in Runs : Active(p)' /\ Active(q)' /\ runs'[p].issue = i
                                          /\ runs'[q].issue = i => p = q
    BY <1>4, <1>5, <1>9, RunStoreAssumption
  <2>2. i \in Issues => /\ lock'[i] <= created' /\ runs'[lock'[i]].issue = i
                        /\ \A q \in Runs : Active(q)' /\ runs'[q].issue = i => q = lock'[i]
    BY <1>2, <1>3, <1>4, <1>5, <1>8, <1>9, RunStoreAssumption
  <2> QED BY <1>1, <1>4, <1>8, <1>9, <2>1, <2>2, LocksMoved DEF IssueInv
<1>11. TasksPlain /\ TasksInv'
  <2>1. TasksPlain
    BY <1>1, <1>4, GotoPlain DEF SpecialPCs
  <2> QED BY <1>4, <2>1, PlainTasks DEF IssueInv
<1>12. task'[a] = [task[a] EXCEPT !.pc = "claim"] /\ \A t \in Tasks : t # a => task'[t] = task[t]
  BY <1>1, <1>4 DEF Goto
<1>13. ASSUME KeysInv PROVE KeysInv'
  <2>1. \A w \in Wakers : task'[w].pc = "merged" => task'[w] = task[w]
    BY <1>12, Kinds
  <2>2. i \in Issues => lockKey'[i] = IF lock'[i] = NoRun THEN NoAgent
                                      ELSE runs'[lock'[i]].agent
    BY <1>2, <1>4, <1>8 DEF NoRun, Runs
  <2> QED BY <1>4, <1>8, <1>13, <2>1, <2>2, KeysMoved DEF IssueInv
<1>14. ASSUME OwnersInv PROVE OwnersInv'
  <2>1. i \in Issues => Owned(i)'
    <3>1. Active(r)' /\ r # NoRun
      BY <1>5, <1>9 DEF NoRun, Runs
    <3>2. i \in Issues => Active(lock[i])'
      BY <1>8, <3>1 DEF Active
    <3> QED BY <1>8, <3>1, <3>2 DEF Owned
  <2>2. ASSUME NEW q \in Runs, runs[q].issue # i, Unstamped(q) PROVE Unstamped(q)'
    <3>1. Stamping(q) => Stamping(q)'
      BY <1>2, <1>3, <1>12, <2>2, Kinds DEF Stamping
    <3> QED BY <1>4, <2>2, <3>1 DEF Unstamped
  <2>3. \A b \in Agents : task'[b] = task[b] \/ task'[b].pc \notin {"cread", "cmark"}
    BY <1>1, <1>12, Kinds DEF TaskRecord
  <2>4. \A t \in Tasks : task[t].pc = "release" => task'[t] = task[t]
    BY <1>1, <1>12
  <2> QED BY <1>4, <1>8, <1>9, <1>14, <2>1, <2>2, <2>3, <2>4, OwnersMoved DEF IssueInv
<1> QED BY <1>10, <1>11, <1>13, <1>14 DEF IssueInv

(* An edit of the issue, and a restart.                                      *)
LEMMA EditKeeps ==
    ASSUME Inv, Inv', IssueInv, NEW i \in Editable, EditIssue(i)
    PROVE  IssueInv'
<1>1. i \in Issues
  BY HeartbeatAssumption
<1>2. UNCHANGED <<runs, created, task>> /\ lock' = [lock EXCEPT ![i] = NoRun] /\ created \in Nat
  BY DEF EditIssue, UpdateIssueClearsLock, memVars, Inv, TypeInv, TypeOK, StoreTypeOK
<1>3. \A q \in Runs : Active(q)' <=> Active(q)
  BY <1>2 DEF Active
<1>4. lock'[i] = NoRun /\ \A j \in Issues : j = i \/ lock'[j] = lock[j]
  BY <1>1, <1>2 DEF Inv, TypeInv, TypeOK, StoreTypeOK
<1>5. LocksInv'
  <2>1. \A p, q \in Runs : Active(p)' /\ Active(q)' /\ runs'[p].issue = i
                           /\ runs'[q].issue = i => p = q
    BY <1>1, <1>2, <1>3, RunStoreAssumption DEF IssueInv, LocksInv, OneActiveRunPerIssue
  <2> QED BY <1>1, <1>2, <1>3, <1>4, <2>1, LocksMoved DEF IssueInv
<1>6. TasksInv'
  BY <1>2, TasksKept DEF IssueInv
<1> QED BY <1>5, <1>6 DEF IssueInv

LEMMA CrashKeeps ==
    ASSUME Inv, Inv', IssueInv, Crash
    PROVE  /\ IssueInv'
           /\ KeysInv => KeysInv'
           /\ OwnersInv'
<1>1. UNCHANGED <<runs, created, lock, lockKey>> /\ created \in Nat /\ crashes \in Nat
  BY DEF Crash, dbVars, Inv, TypeInv, TypeOK, StoreTypeOK
<1>2. \A t \in Tasks : task'[t].pc = "idle" /\ task'[t].todo = {}
  BY IdleTaskFields DEF Crash
<1>3. LocksInv'
  BY <1>1, LocksKept DEF IssueInv, Active
<1>4. TasksInv'
  BY <1>2, Kinds DEF TasksInv, StarterOK, Idle
<1>5. ASSUME KeysInv PROVE KeysInv'
  <2>1. \A w \in Wakers : task'[w].pc = "merged" => task'[w] = task[w]
    BY <1>2, Kinds
  <2> QED BY <1>1, <1>5, <2>1, KeysKept DEF IssueInv
<1>6. crashes' # 0
  BY <1>1 DEF Crash
<1> QED BY <1>3, <1>4, <1>5, <1>6 DEF IssueInv, OwnersInv

(* The transactions on the lock of issue i: one that changes no row, and one   *)
(* that queues a run on an issue without active runs.                        *)
LEMMA LockKeeps ==
    ASSUME Inv, Inv', IssueInv, TasksInv',
           UNCHANGED <<runs, created, agentStatus, blocked, crashes>>,
           NEW i \in Issues \cup {NoIssue},
           \A j \in Issues : \/ j = i
                             \/ /\ lock'[j] = lock[j] /\ lockKey'[j] = lockKey[j]
                                /\ deferred'[j] = deferred[j],
           i \in Issues =>
                /\ lock'[i] # NoRun => /\ lock'[i] \in Runs /\ Active(lock'[i])
                                       /\ runs[lock'[i]].issue = i
                /\ KeysInv => lockKey'[i] = IF lock'[i] = NoRun THEN NoAgent
                                            ELSE runs[lock'[i]].agent
                /\ deferred'[i] # <<>> => lock'[i] # NoRun,
           KeysInv => \A w \in Wakers : task'[w].pc = "merged" =>
                task'[w] = task[w] \/ runs[task'[w].run].agent = task'[w].to,
           \A a \in Agents : task'[a] = task[a] \/ task'[a].pc \notin {"cread", "cmark"},
           \A t \in Tasks : task[t].pc = "release" =>
                task'[t] = task[t] \/ \A j \in Issues : lock[j] = task[t].run => j = i,
           \A q \in Runs : Stamping(q) => Stamping(q)'
    PROVE  /\ IssueInv'
           /\ KeysInv => KeysInv'
           /\ OwnersInv => OwnersInv'
<1>1. \A q \in Runs : (Active(q)' <=> Active(q)) /\ (Unstamped(q) => Unstamped(q)')
  BY DEF Active, Unstamped
<1>2. created \in Nat /\ \A q \in Runs : Active(q) => q <= created
  <2>1. created \in Nat
    BY DEF Inv, TypeInv, TypeOK, StoreTypeOK
  <2>2. ASSUME NEW q \in Runs, Active(q) PROVE ~(created < q)
    BY <2>2 DEF Inv, Numbered, RowsNumbered, Active
  <2> QED BY <2>1, <2>2 DEF Runs
<1>3. i \in Issues => \A p, q \in Runs : Active(p) /\ Active(q) /\ runs[p].issue = i
                                         /\ runs[q].issue = i => p = q
  BY RunStoreAssumption DEF IssueInv, LocksInv, OneActiveRunPerIssue
<1>4. LocksInv'
  <2>1. i \in Issues => \A p, q \in Runs : Active(p)' /\ Active(q)' /\ runs'[p].issue = i
                                           /\ runs'[q].issue = i => p = q
    BY <1>1, <1>3
  <2>2. ASSUME i \in Issues, lock'[i] # NoRun
        PROVE  /\ lock'[i] <= created' /\ runs'[lock'[i]].issue = i
               /\ \A q \in Runs : Active(q)' /\ runs'[q].issue = i => q = lock'[i]
    BY <1>1, <1>2, <1>3, <2>2
  <2> QED BY <1>1, <1>2, <2>1, <2>2, LocksMoved DEF IssueInv
<1>5. ASSUME KeysInv PROVE KeysInv'
  <2>1. \A j \in Issues : j = i \/ (lock'[j] = lock[j] /\ lockKey'[j] = lockKey[j])
    OBVIOUS
  <2>2. i \in Issues => lockKey'[i] = IF lock'[i] = NoRun THEN NoAgent
                                      ELSE runs'[lock'[i]].agent
    BY <1>5
  <2>3. \A w \in Wakers : task'[w].pc = "merged" =>
            task'[w] = task[w] \/ runs'[task'[w].run].agent = task'[w].to
    BY <1>5
  <2> QED BY <1>5, <2>1, <2>2, <2>3, KeysMoved DEF IssueInv
<1>6. ASSUME OwnersInv PROVE OwnersInv'
  <2>1. ASSUME i \in Issues, deferred'[i] # <<>> PROVE Owned(i)'
    <3>1. PICK r \in Runs : r = lock'[i] /\ r # NoRun /\ Active(r)
      BY <2>1
    <3>2. Active(lock[i])'
      BY <1>1, <3>1 DEF Active
    <3> QED BY <3>1, <3>2 DEF Owned
  <2> QED BY <1>1, <1>6, <2>1, OwnersMoved DEF IssueInv
<1> QED BY <1>4, <1>5, <1>6 DEF IssueInv

LEMMA RowKeeps ==
    ASSUME Inv, Inv', IssueInv,
           NEW a \in Agents, NEW i \in Issues \cup {NoIssue}, created < MaxRuns,
           runs' = WithNewRun(a, i, NoRun, 0), created' = created + 1,
           i \in Issues => \A q \in Runs : Active(q) => runs[q].issue # i,
           UNCHANGED <<agentStatus, blocked, crashes>>, TasksPlain,
           \A j \in Issues : \/ j = i
                             \/ /\ lock'[j] = lock[j] /\ lockKey'[j] = lockKey[j]
                                /\ deferred'[j] = deferred[j],
           i \in Issues =>
                \/ lock'[i] = NoRun /\ (KeysInv => lockKey'[i] = NoAgent)
                \/ lock'[i] = created + 1 /\ lockKey'[i] = a,
           \A t \in Tasks : task[t].pc = "release" =>
                task'[t] = task[t] \/ \A j \in Issues : lock[j] = task[t].run => j = i,
           \A q \in Runs : Stamping(q) => Stamping(q)'
    PROVE  /\ IssueInv'
           /\ KeysInv => KeysInv'
           /\ OwnersInv => OwnersInv'
<1>1. created \in Nat /\ created <= created'
  BY DEF Inv, TypeInv, TypeOK, StoreTypeOK
<1>2. PICK n \in Runs :
        /\ n = created + 1 /\ runs[n].status = "absent" /\ n # NoRun
        /\ runs'[n].status = "queued" /\ runs'[n].agent = a /\ runs'[n].issue = i
        /\ \A q \in Runs : q # n => runs'[q] = runs[q]
  <2>1. PICK n \in Runs : n = created + 1
    BY RowAdded
  <2>2. /\ runs[n].status = "absent"
        /\ runs'[n].status = "queued" /\ runs'[n].agent = a /\ runs'[n].issue = i
        /\ \A q \in Runs : q # n => runs'[q] = runs[q]
    BY <2>1, RowAdded
  <2>3. n # NoRun
    BY DEF Runs, NoRun
  <2> QED BY <2>1, <2>2, <2>3
<1>3. /\ Active(n)' /\ ~Active(n)
      /\ \A q \in Runs : q # n => (Active(q)' <=> Active(q))
  BY <1>2 DEF Active
<1>4. /\ \A q \in Runs : q <= created => q # n
      /\ i \in Issues => \A q \in Runs : Active(q)' /\ runs'[q].issue = i => q = n
  <2>1. \A q \in Runs : q <= created => q # n
    BY <1>1, <1>2 DEF Runs
  <2>2. ASSUME i \in Issues, NEW q \in Runs, Active(q)', runs'[q].issue = i PROVE q = n
    BY <1>2, <1>3, <2>2
  <2> QED BY <2>1, <2>2
<1>5. LocksInv'
  <2>1. ASSUME NEW q \in Runs, Active(q)'
        PROVE  (Active(q) /\ runs'[q].issue = runs[q].issue) \/ runs'[q].issue = i
    BY <1>2, <1>3, <2>1
  <2>2. i \in Issues => \A p, q \in Runs : Active(p)' /\ Active(q)' /\ runs'[p].issue = i
                                           /\ runs'[q].issue = i => p = q
    BY <1>4
  <2>3. ASSUME i \in Issues, lock'[i] # NoRun
        PROVE  /\ lock'[i] <= created' /\ runs'[lock'[i]].issue = i
               /\ \A q \in Runs : Active(q)' /\ runs'[q].issue = i => q = lock'[i]
    BY <1>1, <1>2, <1>4, <2>3
  <2>4. \A q \in Runs : q <= created => runs'[q].issue = runs[q].issue
    BY <1>2, <1>4
  <2> QED BY <1>1, <2>1, <2>2, <2>3, <2>4, LocksMoved DEF IssueInv
<1>6. \A q \in Runs : /\ q <= created => runs'[q].agent = runs[q].agent
                      /\ runs[q].status \in Terminal => runs'[q].status \in Terminal
                      /\ runs[q].status = "running" /\ Stamping(q)
                              => runs'[q].status = "running"
  BY <1>2, <1>4 DEF Terminal
<1>7. TasksInv'
  BY <1>6, PlainTasks DEF IssueInv
<1>8. \A t \in Tasks : task'[t] = task[t] \/ task'[t].pc \notin SpecialPCs
  BY DEF TasksPlain, PlainMove
<1>9. ASSUME KeysInv PROVE KeysInv'
  <2>1. \A w \in Wakers : task'[w].pc = "merged" => task'[w] = task[w]
    BY <1>8, Kinds DEF SpecialPCs
  <2>2. i \in Issues => lockKey'[i] = IF lock'[i] = NoRun THEN NoAgent
                                      ELSE runs'[lock'[i]].agent
    BY <1>2, <1>9
  <2> QED BY <1>6, <1>9, <2>1, <2>2, KeysMoved DEF IssueInv
<1>10. ASSUME OwnersInv PROVE OwnersInv'
  <2>1. ASSUME i \in Issues PROVE Owned(i)'
    <3>1. CASE lock'[i] = NoRun
      <4>1. Unstamped(n)'
        BY <1>2 DEF Unstamped
      <4> QED BY <1>2, <3>1, <4>1 DEF Owned
    <3>2. CASE lock'[i] = n
      <4>1. Active(lock[i])'
        BY <1>3, <3>2 DEF Active
      <4> QED BY <1>2, <3>2, <4>1 DEF Owned
    <3> QED BY <1>2, <2>1, <3>1, <3>2
  <2>2. \A b \in Agents : task'[b] = task[b] \/ task'[b].pc \notin {"cread", "cmark"}
    BY <1>8, Kinds DEF SpecialPCs
  <2>3. ASSUME NEW q \in Runs, Unstamped(q)
        PROVE  Unstamped(q)' /\ runs'[q].issue = runs[q].issue
    <3>1. runs'[q] = runs[q]
      BY <1>2, <2>3 DEF Unstamped
    <3> QED BY <2>3, <3>1 DEF Unstamped
  <2>4. ASSUME NEW q \in Runs, Active(q) PROVE Active(q)'
    BY <1>3, <2>4
  <2> QED BY <1>10, <2>1, <2>2, <2>3, <2>4, OwnersMoved DEF IssueInv
<1> QED BY <1>5, <1>7, <1>9, <1>10 DEF IssueInv

(* The release: the run that ended frees the lock of its issue, or hands it   *)
(* to the run it promotes, the only active one of the issue.                 *)
LEMMA ReleaseKeeps ==
    ASSUME Inv, Inv', IssueInv, NEW t \in Tasks \ Wakers, Release(t)
    PROVE  /\ IssueInv'
           /\ KeysInv => KeysInv'
           /\ OwnersInv => OwnersInv'
<1>1. /\ t \in Tasks /\ t \notin Wakers /\ task[t].pc = "release" /\ task[t] \in TaskRecord
      /\ task \in [Tasks -> TaskOK]
  BY Kinds, TaskFacts DEF Release, Inv, TypeInv
<1>2. PICK r \in Runs : r = task[t].run /\ r # NoRun /\ runs[r].status \in Terminal
  <2>1. task[t].run \in Runs /\ runs[task[t].run].status \in Terminal
    BY <1>1, TaskFacts DEF NoRunPCs, IssueInv, TasksInv
  <2> QED BY <2>1 DEF Runs, NoRun
<1>3. PICK to, y :
        /\ to \in Agents \cup {NoAgent}
        /\ ReleaseAndPromote(r, to) /\ task' = [task EXCEPT ![t] = y]
        /\ y.pc \in {"sweep", "finread", "promote"}
  <2>1. PICK to \in Agents \cup {NoAgent} :
          /\ ReleaseAndPromote(r, to)
          /\ task' = [task EXCEPT ![t].pc = IF to = NoAgent THEN AfterRelease(t)
                                            ELSE "promote", ![t].to = to]
    BY <1>2 DEF Release
  <2>2. PICK pc \in {"sweep", "finread", "promote"} :
          pc = IF to = NoAgent THEN AfterRelease(t) ELSE "promote"
    BY DEF AfterRelease
  <2> DEFINE y == [task[t] EXCEPT !.pc = pc, !.to = to]
  <2>3. y.pc = pc
    BY <1>1 DEF TaskRecord
  <2>4. task' = [task EXCEPT ![t] = y]
    BY <2>1, <2>2
  <2> QED BY <2>1, <2>3, <2>4
<1>4. UNCHANGED <<blocked, crashes>> /\ TasksPlain
  BY <1>1, ReleasePlain DEF Release
<1>5. /\ task'[t] = y /\ \A u \in Tasks : u # t => task'[u] = task[u]
      /\ \A q \in Runs : Stamping(q) => Stamping(q)'
  <2>1. task'[t] = y /\ \A u \in Tasks : u # t => task'[u] = task[u]
    BY <1>1, <1>3
  <2> QED BY <1>1, <2>1, Kinds DEF Stamping
<1>6. ASSUME NEW i \in Issues, lock[i] = r
      PROVE  i = runs[r].issue /\ \A q \in Runs : Active(q) => runs[q].issue # i
  BY <1>2, <1>6 DEF IssueInv, LocksInv, Active, Terminal
<1>7. /\ \A w \in Wakers : task'[w] = task[w]
      /\ \A a \in Agents : task'[a] = task[a] \/ task'[a].pc \notin {"cread", "cmark"}
  BY <1>1, <1>3, <1>5, Kinds
<1>8. ASSUME NEW i \in Issues \cup {NoIssue}, \A j \in Issues : lock[j] = r => j = i,
             NEW u \in Tasks, task[u].pc = "release"
      PROVE  task'[u] = task[u] \/ \A j \in Issues : lock[j] = task[u].run => j = i
  BY <1>2, <1>5, <1>8
<1>9. ASSUME UNCHANGED runs PROVE TasksInv'
  BY <1>4, <1>9, PlainTasks DEF IssueInv
<1>10. CASE UNCHANGED dbVars /\ \A j \in Issues : lock[j] # r
  <2>1. UNCHANGED <<runs, created, agentStatus, lock, lockKey, deferred>> /\ TasksInv'
    BY <1>9, <1>10 DEF dbVars
  <2>2. NoIssue \notin Issues /\ \A j \in Issues : lock[j] = r => j = NoIssue
    BY <1>10, RunStoreAssumption
  <2>3. \A u \in Tasks : task[u].pc = "release" =>
            task'[u] = task[u] \/ \A j \in Issues : lock[j] = task[u].run => j = NoIssue
    BY <1>8, <2>2
  <2> QED BY <1>4, <1>5, <1>7, <2>1, <2>2, <2>3, LockKeeps
<1>11. ASSUME NEW i \in Issues, lock[i] = r, UNCHANGED <<runs, created, agentStatus>>,
              lock' = [lock EXCEPT ![i] = NoRun],
              lockKey' = [lockKey EXCEPT ![i] = NoAgent],
              deferred' = [deferred EXCEPT ![i] = <<>>]
       PROVE  /\ IssueInv'
              /\ KeysInv => KeysInv'
              /\ OwnersInv => OwnersInv'
  <2>1. /\ lock'[i] = NoRun /\ lockKey'[i] = NoAgent /\ deferred'[i] = <<>>
        /\ \A j \in Issues : \/ j = i
                             \/ /\ lock'[j] = lock[j] /\ lockKey'[j] = lockKey[j]
                                /\ deferred'[j] = deferred[j]
    BY <1>11 DEF Inv, TypeInv, TypeOK, StoreTypeOK
  <2>2. \A u \in Tasks : task[u].pc = "release" =>
            task'[u] = task[u] \/ \A j \in Issues : lock[j] = task[u].run => j = i
    BY <1>6, <1>8, <1>11
  <2>3. TasksInv'
    BY <1>9, <1>11
  <2> QED BY <1>4, <1>5, <1>7, <1>11, <2>1, <2>2, <2>3, LockKeeps
<1>12. ASSUME NEW i \in Issues, lock[i] = r, UNCHANGED agentStatus,
              NEW n \in DOMAIN deferred[i], to = deferred[i][n], created < MaxRuns,
              runs' = WithNewRun(to, i, NoRun, 0), created' = created + 1,
              lock' = [lock EXCEPT ![i] = created + 1],
              lockKey' = [lockKey EXCEPT ![i] = to],
              deferred' = [deferred EXCEPT ![i] =
                                SubSeq(deferred[i], n + 1, Len(deferred[i]))]
       PROVE  /\ IssueInv'
              /\ KeysInv => KeysInv'
              /\ OwnersInv => OwnersInv'
  <2>1. to \in Agents
    <3>1. deferred[i] \in Seq(Agents)
      BY DEF Inv, TypeInv, TypeOK, StoreTypeOK
    <3> QED BY <1>12, <3>1
  <2>2. /\ lock'[i] = created + 1 /\ lockKey'[i] = to
        /\ \A j \in Issues : \/ j = i
                             \/ /\ lock'[j] = lock[j] /\ lockKey'[j] = lockKey[j]
                                /\ deferred'[j] = deferred[j]
    BY <1>12 DEF Inv, TypeInv, TypeOK, StoreTypeOK
  <2>3. \A u \in Tasks : task[u].pc = "release" =>
            task'[u] = task[u] \/ \A j \in Issues : lock[j] = task[u].run => j = i
    BY <1>6, <1>8, <1>12
  <2>4. \A q \in Runs : Active(q) => runs[q].issue # i
    BY <1>6, <1>12
  <2> QED BY <1>4, <1>5, <1>12, <2>1, <2>2, <2>3, <2>4, RowKeeps
<1> QED BY <1>3, <1>10, <1>11, <1>12 DEF ReleaseAndPromote

(* A wakeup finds the active run of its issue, if there is one, whatever the   *)
(* lock says; and the key it compares is the agent of that run.              *)
LEMMA FoundRun ==
    ASSUME Inv, LocksInv, NEW i \in Issues, NEW found,
           found = IF lock[i] # NoRun /\ Active(lock[i]) THEN {lock[i]} ELSE LegacyRuns(i)
    PROVE  /\ found = {} => \A q \in Runs : Active(q) => runs[q].issue # i
           /\ \A r \in found :
                /\ r \in Runs /\ r # NoRun /\ Active(r) /\ runs[r].issue = i
                /\ lock[i] # NoRun => r = lock[i]
<1>1. lock \in [Issues -> Runs \cup {NoRun}] /\ i # NoIssue
  BY RunStoreAssumption DEF Inv, TypeInv, TypeOK, StoreTypeOK
<1>2. \A p, q \in Runs : Active(p) /\ Active(q) /\ runs[p].issue = i /\ runs[q].issue = i => p = q
  BY <1>1 DEF LocksInv, OneActiveRunPerIssue
<1>3. ASSUME found = {}, NEW q \in Runs, Active(q), runs[q].issue = i PROVE FALSE
  <2>1. LegacyRuns(i) = {}
    BY <1>3
  <2>2. CASE runs[q].status = "running"
    <3>1. {r \in Runs : runs[r].issue = i /\ runs[r].status = "running"} = {q}
      BY <1>2, <1>3, <2>2 DEF Active
    <3> QED BY <2>1, <3>1 DEF LegacyRuns, Runs
  <2>3. CASE runs[q].status = "queued"
    <3>1. {r \in Runs : runs[r].issue = i /\ runs[r].status = "running"} = {}
      BY <1>2, <1>3, <2>3 DEF Active
    <3>2. {r \in Runs : runs[r].issue = i /\ runs[r].status = "queued"} = {q}
      BY <1>2, <1>3, <2>3 DEF Active
    <3> QED BY <2>1, <3>1, <3>2 DEF LegacyRuns, Runs
  <2> QED BY <1>3, <2>2, <2>3 DEF Active
<1>4. ASSUME NEW r \in found
      PROVE  /\ r \in Runs /\ r # NoRun /\ Active(r) /\ runs[r].issue = i
             /\ lock[i] # NoRun => r = lock[i]
  <2>1. CASE lock[i] # NoRun /\ Active(lock[i])
    BY <1>1, <1>4, <2>1 DEF LocksInv
  <2>2. CASE ~(lock[i] # NoRun /\ Active(lock[i]))
    <3>1. r \in Runs /\ Active(r) /\ runs[r].issue = i
      BY <1>4, <2>2 DEF LegacyRuns, Active
    <3>2. r # NoRun
      BY <3>1 DEF Runs, NoRun
    <3>3. lock[i] # NoRun => r = lock[i]
      BY <3>1 DEF LocksInv
    <3> QED BY <3>1, <3>2, <3>3
  <2> QED BY <2>1, <2>2
<1> QED BY <1>3, <1>4

LEMMA WakeCommitKeeps ==
    ASSUME Undisturbed, Inv, Inv', IssueInv, NEW w \in Wakers, WakeCommit(w)
    PROVE  /\ IssueInv'
           /\ KeysInv => KeysInv'
           /\ OwnersInv => OwnersInv'
<1>1. /\ w \in Tasks /\ w \notin Runs /\ w \notin Agents
      /\ task[w].pc = "admitted" /\ task[w] \in TaskRecord
      /\ task \in [Tasks -> TaskOK]
  BY Kinds, TaskFacts DEF WakeCommit, Inv, TypeInv
<1>2. PICK a \in Agents : a = task[w].to
  BY <1>1, TaskFacts
<1>3. PICK wake \in Wakeups, r \in Runs, kind \in {"queued", "coalesced", "deferred"} :
        /\ IF wake.issue # NoIssue /\ ~wake.mention
           THEN EnqueueIssueWake(a, wake.issue, wake.comment, kind, r)
           ELSE EnqueueScopedWake(a, wake.issue, wake.comment, kind, r)
        /\ task' = [task EXCEPT ![w] =
                CASE kind = "queued"    -> [IdleTask EXCEPT !.pc = "kick", !.run = r]
                  [] kind = "coalesced" -> [task[w] EXCEPT !.pc = "merged", !.run = r]
                  [] kind = "deferred"  -> IdleTask]
  BY <1>2, ZenonT(60) DEF WakeCommit
<1>4. PICK y : /\ task' = [task EXCEPT ![w] = y]
               /\ kind = "queued"    => y.pc = "kick" /\ y.todo = {}
               /\ kind = "coalesced" => y.pc = "merged" /\ y.run = r /\ y.to = a
               /\ kind = "deferred"  => y.pc = "idle"
  <2>1. CASE kind = "queued"
    <3> DEFINE y == [IdleTask EXCEPT !.pc = "kick", !.run = r]
    <3>1. y.pc = "kick" /\ y.todo = {}
      BY DEF IdleTask
    <3> QED BY <1>3, <2>1, <3>1
  <2>2. CASE kind = "coalesced"
    <3> DEFINE y == [task[w] EXCEPT !.pc = "merged", !.run = r]
    <3>1. y.pc = "merged" /\ y.run = r /\ y.to = a
      BY <1>1, <1>2 DEF TaskRecord
    <3> QED BY <1>3, <2>2, <3>1
  <2>3. CASE kind = "deferred"
    BY <1>3, <2>3, IdleTaskFields
  <2> QED BY <2>1, <2>2, <2>3
<1>5. task'[w] = y /\ \A t \in Tasks : t # w => task'[t] = task[t]
  BY <1>1, <1>4
<1>6. /\ \A b \in Agents : task'[b] = task[b]
      /\ \A q \in Runs : (Stamping(q) => Stamping(q)') /\ task'[q] = task[q]
      /\ \A t \in Tasks : task[t].pc = "release" => task'[t] = task[t]
      /\ \A v \in Wakers : v # w => task'[v] = task[v]
      /\ UNCHANGED <<blocked, crashes>>
  BY <1>1, <1>5, Kinds DEF Stamping, WakeCommit
<1>7. kind = "queued" => TasksPlain
  <2>1. kind = "queued" => PlainMove(w, y)
    BY <1>1, <1>4 DEF PlainMove, SpecialPCs
  <2> QED BY <1>1, <1>4, <2>1, MovePlain
<1>8. ASSUME UNCHANGED runs PROVE TasksInv'
  <2>1. \A t \in Tasks : task'[t] = task[t] \/ task'[t].pc # "release"
    BY <1>4, <1>5
  <2> QED BY <1>6, <1>8, <2>1, TasksKept DEF IssueInv
<1>9. ASSUME KeysInv => (kind = "coalesced" => runs[r].agent = a)
      PROVE  KeysInv => \A v \in Wakers : task'[v].pc = "merged" =>
                task'[v] = task[v] \/ runs[task'[v].run].agent = task'[v].to
  BY <1>4, <1>5, <1>6, <1>9
<1>10. CASE wake.issue # NoIssue /\ ~wake.mention
  <2>1. PICK i \in Issues : i = wake.issue
    BY <1>10, HeartbeatAssumption
  <2> DEFINE held  == lock[i] # NoRun /\ Active(lock[i])
             found == IF held THEN {lock[i]} ELSE LegacyRuns(i)
  <2>2. /\ found = {} => \A q \in Runs : Active(q) => runs[q].issue # i
        /\ \A q \in found : /\ q \in Runs /\ q # NoRun /\ Active(q) /\ runs[q].issue = i
                            /\ lock[i] # NoRun => q = lock[i]
    BY FoundRun DEF IssueInv
  <2>3. EnqueueIssueWake(a, i, wake.comment, kind, r) /\ UNCHANGED agentStatus
    BY <1>3, <1>10, <2>1 DEF EnqueueIssueWake
  <2>4. /\ lock \in [Issues -> Runs \cup {NoRun}] /\ lockKey \in [Issues -> Agents \cup {NoAgent}]
        /\ deferred \in [Issues -> Seq(Agents)]
    BY DEF Inv, TypeInv, TypeOK, StoreTypeOK
  <2>5. CASE found = {}
    <3>1. /\ kind = "queued" /\ QueueRun(a, i) /\ UNCHANGED deferred
          /\ lock' = [lock EXCEPT ![i] = NoRun]
          /\ lockKey' = IF lock[i] = NoRun THEN lockKey ELSE [lockKey EXCEPT ![i] = NoAgent]
      BY <2>3, <2>5 DEF EnqueueIssueWake
    <3>2. /\ lock'[i] = NoRun /\ (KeysInv => lockKey'[i] = NoAgent)
          /\ \A j \in Issues : j = i \/ (lock'[j] = lock[j] /\ lockKey'[j] = lockKey[j]
                                         /\ deferred'[j] = deferred[j])
      BY <2>4, <3>1 DEF KeysInv
    <3>3. /\ created < MaxRuns /\ runs' = WithNewRun(a, i, NoRun, 0)
          /\ created' = created + 1 /\ TasksPlain
      BY <1>7, <3>1 DEF QueueRun
    <3>4. \A q \in Runs : Active(q) => runs[q].issue # i
      BY <2>2, <2>5
    <3> HIDE DEF held, found
    <3> QED BY <1>6, <2>3, <3>2, <3>3, <3>4, RowKeeps
  <2>6. CASE found # {}
    <3> DEFINE key  == IF lockKey[i] # NoAgent THEN lockKey[i] ELSE runs[r].agent
               join == JoinsRun(a, key, wake.comment, r)
    <3>1. /\ r \in found /\ UNCHANGED <<runs, created>>
          /\ lock' = [lock EXCEPT ![i] = r]
          /\ lockKey' = IF held THEN lockKey ELSE [lockKey EXCEPT ![i] = runs[r].agent]
          /\ kind = (IF join THEN "coalesced" ELSE "deferred")
          /\ \/ UNCHANGED deferred
             \/ deferred' = [deferred EXCEPT ![i] = Append(deferred[i], a)]
      BY <2>3, <2>6 DEF EnqueueIssueWake
    <3>2. /\ r # NoRun /\ Active(r) /\ runs[r].issue = i
          /\ lock[i] # NoRun => r = lock[i]
      BY <2>2, <3>1
    <3>3. KeysInv => key = runs[r].agent
      BY <3>2 DEF KeysInv
    <3>4. KeysInv => (kind = "coalesced" => runs[r].agent = a)
      BY <3>1, <3>3 DEF JoinsRun
    <3>5. lock'[i] = r /\ (KeysInv => lockKey'[i] = runs[r].agent)
      BY <2>4, <3>1, <3>2 DEF KeysInv
    <3>6. \A j \in Issues : j = i \/ (lock'[j] = lock[j] /\ lockKey'[j] = lockKey[j]
                                      /\ deferred'[j] = deferred[j])
      BY <2>4, <3>1
    <3>7. /\ TasksInv'
          /\ KeysInv => \A v \in Wakers : task'[v].pc = "merged" =>
                task'[v] = task[v] \/ runs[task'[v].run].agent = task'[v].to
      BY <1>8, <1>9, <3>1, <3>4
    <3>8. i \in Issues =>
            /\ lock'[i] # NoRun => /\ lock'[i] \in Runs /\ Active(lock'[i])
                                   /\ runs[lock'[i]].issue = i
            /\ KeysInv => lockKey'[i] = IF lock'[i] = NoRun THEN NoAgent
                                        ELSE runs[lock'[i]].agent
            /\ deferred'[i] # <<>> => lock'[i] # NoRun
      BY <3>2, <3>5
    <3> HIDE DEF held, found, key, join
    <3> QED BY <1>6, <2>3, <3>1, <3>6, <3>7, <3>8, LockKeeps
  <2> QED BY <2>5, <2>6
<1>11. CASE ~(wake.issue # NoIssue /\ ~wake.mention)
  <2>1. wake.issue = NoIssue /\ NoIssue \notin Issues
    BY <1>11, RunStoreAssumption DEF Undisturbed
  <2>2. /\ EnqueueScopedWake(a, NoIssue, wake.comment, kind, r)
        /\ UNCHANGED <<lock, lockKey, deferred, agentStatus>>
    BY <1>3, <1>11, <2>1 DEF EnqueueScopedWake
  <2>3. CASE UNCHANGED <<runs, created>> /\ runs[r].agent = a
    <3>1. TasksInv' /\ (KeysInv => \A v \in Wakers : task'[v].pc = "merged" =>
                task'[v] = task[v] \/ runs[task'[v].run].agent = task'[v].to)
      BY <1>8, <1>9, <2>3
    <3> QED BY <1>6, <2>1, <2>2, <2>3, <3>1, LockKeeps
  <2>4. CASE kind = "queued" /\ QueueRun(a, NoIssue)
    <3>1. /\ created < MaxRuns /\ runs' = WithNewRun(a, NoIssue, NoRun, 0)
          /\ created' = created + 1 /\ TasksPlain
      BY <1>7, <2>4 DEF QueueRun
    <3> QED BY <1>6, <2>1, <2>2, <3>1, RowKeeps
  <2>5. \/ UNCHANGED <<runs, created>> /\ runs[r].agent = a
        \/ kind = "queued" /\ QueueRun(a, NoIssue)
    BY <2>2 DEF EnqueueScopedWake
  <2> QED BY <2>3, <2>4, <2>5
<1> QED BY <1>10, <1>11

-----------------------------------------------------------------------------
(* What the reaper visits, when it retries nothing.                          *)

(* Nobody but the reaper moves it, and only its first scan boots the server.  *)
LEMMA TailMovesOne ==
    ASSUME Inv, NEW t \in Tasks, TailStep(t)
    PROVE  booted' = booted /\ \A k \in Reapers : k = t \/ task'[k] = task[k]
<1>1. task \in [Tasks -> TaskOK] /\ Reapers \subseteq Tasks /\ Reapers \cap Agents = {}
  BY Kinds DEF Inv, TypeInv
<1>2. booted' = booted
  BY DEF TailStep, Release, PromoteStart, PromoteDone, FinalizeRead, FinalizeWrite, Kick, KickDone
<1>3. CASE Release(t) \/ PromoteDone(t) \/ FinalizeRead(t) \/ FinalizeWrite(t) \/ KickDone(t)
  BY <1>1, <1>2, <1>3 DEF Release, PromoteDone, FinalizeRead, FinalizeWrite, KickDone, Goto
<1>4. CASE PromoteStart(t) \/ Kick(t)
  <2>1. task[t] \in TaskOK /\ task[t].pc \in {"promote", "kick"}
    BY <1>1, <1>4 DEF PromoteStart, Kick
  <2>2. task[t].pc = "promote" => task[t].to \in Agents
    BY TaskFacts
  <2>3. task[t].pc = "kick" => AgentOf(t) \in Agents
    BY TaskFacts DEF NoRunPCs
  <2>4. PICK a, y, z : a \in Agents /\ task' = [task EXCEPT ![t] = y, ![a] = z]
    BY <1>4, <2>2, <2>3 DEF PromoteStart, Kick, EnterStart
  <2> QED BY <1>1, <1>2, <2>4
<1> QED BY <1>3, <1>4 DEF TailStep

LEMMA OthersMove ==
    ASSUME Inv, [Next]_vars
    PROVE  \/ /\ booted' = booted
              /\ \A k \in Reapers : task'[k] = task[k]
           \/ \E k \in Reapers : \/ ReaperStep(k)
                                 \/ \E fresh \in SUBSET Runs : PeriodicScan(k, fresh)
           \/ Crash
<1>1. /\ task \in [Tasks -> TaskOK] /\ Reapers \subseteq Tasks /\ Runs \subseteq Tasks
      /\ Wakers \subseteq Tasks /\ Agents \subseteq Tasks /\ Cancellers \subseteq Tasks
      /\ Pausers \subseteq Tasks
      /\ Reapers \cap (Runs \cup Agents \cup Wakers \cup Cancellers \cup Pausers) = {}
  BY Kinds, HeartbeatAssumption DEF Inv, TypeInv
<1> DEFINE Same == booted' = booted /\ \A k \in Reapers : task'[k] = task[k]
<1>2. ASSUME NEW t \in Tasks \ Reapers, TailStep(t) PROVE Same
  BY <1>2, TailMovesOne
<1>3. ASSUME NEW t \in Tasks \ Reapers, NEW y, task' = [task EXCEPT ![t] = y],
             booted' = booted
      PROVE  Same
  BY <1>1, <1>3
<1>4. ASSUME NEW w \in Wakers, WakerStep(w) PROVE Same
  <2>1. CASE WakeCommit(w) \/ WakeReturn(w)
    BY <1>1, <1>3, <2>1 DEF WakeCommit, WakeReturn, Finish
  <2>2. CASE Kick(w)
    BY <1>1, <1>2, <2>2 DEF TailStep
  <2> QED BY <1>4, <2>1, <2>2 DEF WakerStep
<1>5. ASSUME NEW a \in Agents, StarterStep(a) PROVE Same
  <2>1. CASE StartCheck(a) \/ StartSelect(a) \/ ClaimRead(a) \/ ClaimUpdate(a) \/ ClaimStamp(a)
             \/ CancelRead(a) \/ CancelMark(a)
    BY <1>1, <1>3, <2>1 DEF StartCheck, StartSelect, ClaimRead, ClaimUpdate, ClaimStamp,
       CancelRead, CancelMark, Goto, Finish
  <2>2. CASE Launch(a)
    <3>1. task[a].got \subseteq Runs
      BY <1>1, TaskFacts
    <3> QED BY <1>1, <2>2, <3>1 DEF Launch
  <2>3. CASE TailStep(a)
    BY <1>1, <1>2, <2>3
  <2> QED BY <1>5, <2>1, <2>2, <2>3 DEF StarterStep
<1>6. ASSUME NEW r \in Runs, ExecutorStep(r) PROVE Same
  <2>1. CASE ExecBegin(r) \/ ExecPrepare(r) \/ ExecSpawn(r) \/ ExecReturn(r) \/ ExecThrow(r)
             \/ ExecMark(r) \/ ExecCleanup(r)
    BY <1>1, <1>3, <2>1 DEF ExecBegin, ExecPrepare, ExecSpawn, ExecReturn, ExecThrow,
       ExecMark, ExecCleanup, Goto, Finish
  <2>2. CASE TailStep(r)
    BY <1>1, <1>2, <2>2
  <2> QED BY <1>6, <2>1, <2>2 DEF ExecutorStep
<1>7. ASSUME NEW c \in Cancellers, CancellerStep(c) PROVE Same
  BY <1>1, <1>2, <1>3, <1>7 DEF CancellerStep, CancelMark
<1>8. ASSUME NEW p \in Pausers, PauserStep(p) PROVE Same
  <2>1. CASE SweepScan(p) \/ SweepMark(p) \/ SweepDone(p)
    BY <1>1, <1>3, <2>1 DEF SweepScan, SweepMark, SweepDone, Finish
  <2>2. CASE Release(p) \/ PromoteStart(p) \/ PromoteDone(p)
    BY <1>1, <1>2, <2>2 DEF TailStep
  <2> QED BY <1>8, <2>1, <2>2 DEF PauserStep
<1>9. ASSUME EnvironmentStep
      PROVE  Same \/ Crash \/ \E k \in Reapers, fresh \in SUBSET Runs : PeriodicScan(k, fresh)
  <2>1. ASSUME NEW w \in Wakers, NEW a \in Agents, WakeAdmit(w, a) PROVE Same
    BY <1>1, <1>3, <2>1 DEF WakeAdmit
  <2>2. ASSUME NEW c \in Cancellers, NEW r \in Runs, CancelRequest(c, r) PROVE Same
    BY <1>1, <1>3, <2>2 DEF CancelRequest
  <2>3. ASSUME NEW p \in Pausers, NEW a \in Agents, Pause(p, a) PROVE Same
    BY <1>1, <1>3, <2>3 DEF Pause
  <2>4. CASE \/ \E a \in Resumable : ResumeAgent(a)
             \/ \E a \in Blockable : ToggleBlock(a)
             \/ \E i \in Editable : EditIssue(i)
             \/ \E r \in Runs : PersistPid(r) \/ ChildExit(r) \/ ReportActivity(r)
    BY <2>4 DEF ResumeAgent, ToggleBlock, EditIssue, PersistPid, ChildExit, ReportActivity, memVars
  <2> QED BY <1>9, <2>1, <2>2, <2>3, <2>4 DEF EnvironmentStep
<1>10. CASE UNCHANGED vars
  BY <1>10 DEF vars, memVars
<1> QED BY <1>4, <1>5, <1>6, <1>7, <1>8, <1>9, <1>10 DEF Next

(* Before the startup scan nothing is in progress, and nothing starts.        *)
LEMMA NothingStarts ==
    ASSUME Inv, [Next]_vars, ~booted, Reapers # {}, \A t \in Tasks : task[t] = IdleTask
    PROVE  task' = task \/ Crash \/ \E k \in Reapers : StartupScan(k)
<1>1. ~Listening /\ \A t \in Tasks : task[t].pc = "idle"
  BY IdleTaskFields DEF Listening
<1>2. ASSUME NEW t \in Tasks, TailStep(t) PROVE FALSE
  BY <1>1, <1>2 DEF TailStep, Release, PromoteStart, PromoteDone, FinalizeRead, FinalizeWrite,
     Kick, KickDone
<1>3. ASSUME NEW w \in Wakers, WakerStep(w) PROVE FALSE
  BY <1>1, <1>3, Kinds DEF WakerStep, WakeCommit, WakeReturn, Kick
<1>4. ASSUME NEW a \in Agents, StarterStep(a) PROVE FALSE
  BY <1>1, <1>2, <1>4, Kinds DEF StarterStep, StartCheck, StartSelect, ClaimRead, ClaimUpdate,
     ClaimStamp, Launch, CancelRead, CancelMark
<1>5. ASSUME NEW r \in Runs, ExecutorStep(r) PROVE FALSE
  BY <1>1, <1>2, <1>5, Kinds DEF ExecutorStep, ExecBegin, ExecPrepare, ExecSpawn, ExecReturn,
     ExecThrow, ExecMark, ExecCleanup
<1>6. ASSUME NEW c \in Cancellers, CancellerStep(c) PROVE FALSE
  BY <1>1, <1>2, <1>6, Kinds DEF CancellerStep, CancelMark
<1>7. ASSUME NEW p \in Pausers, PauserStep(p) PROVE FALSE
  BY <1>1, <1>7, Kinds DEF PauserStep, SweepScan, SweepMark, SweepDone, Release, PromoteStart,
     PromoteDone
<1>8. ASSUME NEW k \in Reapers, ReaperStep(k) PROVE StartupScan(k)
  BY <1>1, <1>2, <1>8, Kinds DEF ReaperStep, ReapRow, Retry, ReapDone, ResumeNext, ResumeWait,
     ResumeDone
<1>9. ASSUME EnvironmentStep PROVE task' = task \/ Crash
  BY <1>1, <1>9 DEF EnvironmentStep, WakeAdmit, CancelRequest, Pause, PeriodicScan, ResumeAgent,
     ToggleBlock, EditIssue, PersistPid, ChildExit, ReportActivity, memVars
<1> QED BY <1>3, <1>4, <1>5, <1>6, <1>7, <1>8, <1>9 DEF Next, vars, memVars

(* What is settled stays settled.                                            *)
LEMMA SettledStays ==
    ASSUME Inv, [Next]_vars, NEW r \in Runs, Settled(r)
    PROVE  Settled(r)'
<1>1. r <= created
  <2>1. created \in Nat /\ ~(created < r)
    BY DEF Settled, Terminal, Inv, Numbered, RowsNumbered, TypeInv, TypeOK, StoreTypeOK
  <2> QED BY <2>1 DEF Runs
<1>2. CASE Calm
  <2>1. runs'[r].status \in {"running"} \cup Terminal
    BY <1>1, <1>2 DEF Calm, RowsCalm, Settled
  <2>2. \A a \in Agents : task'[a] = task[a] \/ task'[a].got \subseteq task[a].got
    BY <1>2, Kinds DEF Calm, Fits
  <2> QED BY <2>1, <2>2 DEF Settled
<1>3. CASE Crash
  BY <1>3, IdleTaskFields, Kinds DEF Crash, dbVars, Settled
<1>4. ASSUME NEW a \in Agents, ClaimUpdate(a) PROVE Settled(r)'
  <2>1. a \in Tasks /\ task[a] \in TaskRecord /\ task \in [Tasks -> TaskOK] /\ task[a].pc = "claiming"
    BY <1>4, Kinds, TaskFacts DEF ClaimUpdate, Inv, TypeInv
  <2>2. PICK q \in Runs : q = task[a].run
    BY <2>1, TaskFacts DEF NoRunPCs
  <2>3. CASE MayClaim(q)
    <3> DEFINE y == [task[a] EXCEPT !.pc = "stamp", !.got = task[a].got \cup {q}]
    <3>1. task' = [task EXCEPT ![a] = y] /\ SetClaimed(q)
      BY <1>4, <2>2, <2>3 DEF ClaimUpdate
    <3>2. y.got = task[a].got \cup {q}
      BY <2>1 DEF TaskRecord
    <3> HIDE DEF y
    <3>3. q # r
      BY <2>3 DEF MayClaim, Settled, Terminal
    <3>4. runs'[r] = runs[r]
      BY <3>1, <3>3 DEF SetClaimed, Inv, TypeInv, TypeOK, StoreTypeOK
    <3>5. \A b \in Agents : r \notin task'[b].got
      BY <2>1, <3>1, <3>2, <3>3, Kinds DEF Settled
    <3> QED BY <3>4, <3>5 DEF Settled
  <2>4. CASE ~MayClaim(q)
    <3> DEFINE y == [task[a] EXCEPT !.pc = "claim"]
    <3>1. task' = [task EXCEPT ![a] = y] /\ UNCHANGED runs
      BY <1>4, <2>2, <2>4 DEF ClaimUpdate, Goto
    <3>2. y.got = task[a].got
      BY <2>1 DEF TaskRecord
    <3> HIDE DEF y
    <3> QED BY <2>1, <3>1, <3>2, Kinds DEF Settled
  <2> QED BY <2>3, <2>4
<1>5. ASSUME NEW a \in Agents, Launch(a) PROVE Settled(r)'
  <2>1. a \in Tasks /\ task[a].got \subseteq Runs
    BY Kinds, TaskFacts
  <2>2. \A b \in Agents : task'[b] = task[b] \/ task'[b] = IdleTask
    BY <1>5, <2>1, Kinds DEF Launch
  <2> QED BY <1>5, <2>2, IdleTaskFields DEF Launch, dbVars, Settled
<1> QED BY <1>2, <1>3, <1>4, <1>5, StepKinds

(* A resume starts one agent.                                                *)
LEMMA ResumeStartsOne ==
    ASSUME Inv, NEW k \in Reapers, ResumeNext(k)
    PROVE  \E a \in Agents :
            /\ Idle(a) /\ task'[k].pc = "resumeWait"
            /\ task'[a].pc = "start" /\ task'[a].todo = {}
            /\ \A t \in Tasks \ {k, a} : task'[t] = task[t]
<1>1. k \in Tasks /\ k \notin Agents /\ task[k] \in TaskRecord /\ task \in [Tasks -> TaskOK]
  BY Kinds, TaskFacts DEF Inv, TypeInv
<1>2. PICK row \in task[k].todo : LET a == runs[row.id].agent IN
        /\ Idle(a)
        /\ task' = [task EXCEPT
                ![k].pc = "resumeWait", ![k].to = a,
                ![k].todo = {q \in task[k].todo : runs[q.id].agent # a},
                ![a] = [IdleTask EXCEPT !.pc = "start", !.caller = k]]
  BY DEF ResumeNext
<1>3. PICK a \in Agents : a = runs[row.id].agent
  BY <1>1, TaskFacts DEF Inv, Numbered, RowsNumbered
<1> DEFINE y == [task[k] EXCEPT !.pc = "resumeWait", !.to = a,
                        !.todo = {q \in task[k].todo : runs[q.id].agent # a}]
           z == [IdleTask EXCEPT !.pc = "start", !.caller = k]
<1>4. y.pc = "resumeWait" /\ z.pc = "start" /\ z.todo = {}
  BY <1>1 DEF TaskRecord, IdleTask
<1>5. task' = [task EXCEPT ![k] = y, ![a] = z] /\ Idle(a)
  BY <1>2, <1>3
<1> HIDE DEF y, z
<1>6. task'[k] = y /\ task'[a] = z /\ \A t \in Tasks \ {k, a} : task'[t] = task[t]
  BY <1>1, <1>5, Kinds
<1> QED BY <1>4, <1>5, <1>6

LEMMA ScanNext ==
    ASSUME Undisturbed, Inv, ScanInv, [Next]_vars
    PROVE  ScanInv'
<1> DEFINE Visits(y) == /\ y.pc # "retry"
                        /\ y.pc \notin {"resume", "resumeWait"} =>
                                \A row \in y.todo : Settled(row.id)'
<1>1. \A k \in Reapers : Visits(task[k])
  BY SettledStays, TaskFacts, Kinds DEF ScanInv, Settled
<1>2. task \in [Tasks -> TaskOK] /\ Reapers \subseteq Tasks
  BY Kinds DEF Inv, TypeInv
<1>3. ASSUME NEW k \in Reapers, ReaperStep(k) PROVE Visits(task'[k])
  <2>1. task[k] \in TaskRecord /\ k \in Tasks
    BY Kinds, TaskFacts
  <2>2. CASE TailStep(k)
    <3>1. task'[k] = task[k] \/ PlainMove(k, task'[k])
      BY <2>1, <2>2, TailPlain DEF TasksPlain
    <3>2. task[k].pc \notin {"resume", "resumeWait"}
      BY <2>2 DEF TailStep, Release, PromoteStart, PromoteDone, FinalizeRead, FinalizeWrite,
         Kick, KickDone
    <3> QED BY <1>1, <3>1, <3>2 DEF PlainMove, SpecialPCs
  <2>3. CASE StartupScan(k)
    <3>1. /\ task' = [task EXCEPT ![k] = [task[k] EXCEPT !.pc = "reap", !.todo = RunningRows]]
          /\ \A t \in Tasks : task[t] = IdleTask
      BY <2>3 DEF StartupScan, ScanInv
    <3>2. task'[k].pc = "reap" /\ task'[k].todo = RunningRows
      BY <1>2, <2>1, <3>1 DEF TaskRecord
    <3>3. \A r \in Runs : runs[r].status = "running" => Settled(r)
      BY <3>1, IdleTaskFields, Kinds DEF Settled
    <3>4. \A row \in RunningRows : row.id \in Runs /\ runs[row.id].status = "running"
      BY DEF RunningRows, RowsOf, Row
    <3> QED BY <3>2, <3>3, <3>4, SettledStays
  <2>4. CASE ReapRow(k)
    <3>1. PICK row \in task[k].todo, pc \in {"reap", "release"} :
            /\ task'[k].todo = task[k].todo \ {row}
            /\ task'[k].pc = pc
      <4>1. \A row : ~Tracked(row)
        BY <2>4 DEF Tracked, Undisturbed
      <4>2. PICK row \in task[k].todo :
              \/ task' = [task EXCEPT ![k].todo = @ \ {row}]
              \/ task' = [[task EXCEPT ![k].todo = @ \ {row}] EXCEPT
                            ![k].run = row.id, ![k].out = "failed", ![k].pc = "release"]
        BY <2>4, <4>1 DEF ReapRow, MayRetry
      <4>3. task[k].pc = "reap"
        BY <2>4 DEF ReapRow
      <4> QED BY <1>2, <2>1, <4>2, <4>3 DEF TaskRecord
    <3> QED BY <1>1, <2>4, <3>1 DEF ReapRow
  <2>5. CASE Retry(k)
    BY <2>5 DEF Retry, ScanInv
  <2>6. CASE ReapDone(k)
    BY <1>2, <2>1, <2>6 DEF ReapDone, IdleTask
  <2>7. CASE ResumeNext(k)
    <3>1. task'[k].pc = "resumeWait"
      BY <2>7, ResumeStartsOne
    <3> QED BY <3>1
  <2>8. CASE ResumeWait(k)
    <3>1. task'[k].pc = "resume"
      BY <1>2, <2>1, <2>8 DEF ResumeWait, Goto, TaskRecord
    <3> QED BY <3>1
  <2>9. CASE ResumeDone(k)
    BY <1>2, <2>9, IdleTaskFields DEF ResumeDone, Finish
  <2> QED BY <1>3, <2>2, <2>3, <2>4, <2>5, <2>6, <2>7, <2>8, <2>9 DEF ReaperStep
<1>4. ASSUME NEW k \in Reapers, NEW fresh, PeriodicScan(k, fresh) PROVE Visits(task'[k])
  <2>1. task[k] \in TaskRecord
    BY Kinds, TaskFacts
  <2>2. /\ task'[k].pc = "reap"
        /\ task'[k].todo = {row \in RunningRows : row.id \notin fresh /\ ~JustClaimed(row.id)}
    BY <1>2, <1>4, <2>1 DEF PeriodicScan, TaskRecord
  <2>3. \A row \in task'[k].todo : row.id \in Runs /\ Settled(row.id)
    BY <2>2 DEF RunningRows, RowsOf, Row, JustClaimed, Settled
  <2> QED BY <2>2, <2>3, SettledStays
<1>5. ASSUME NEW k \in Reapers PROVE Visits(task'[k])
  <2>1. CASE task'[k] = task[k]
    BY <1>1, <2>1
  <2>2. CASE Crash
    BY <2>2, IdleTaskFields, Kinds DEF Crash
  <2>3. ASSUME NEW l \in Reapers \ {k},
               ReaperStep(l) \/ \E fresh \in SUBSET Runs : PeriodicScan(l, fresh)
        PROVE  task'[k] = task[k]
    <3>1. CASE TailStep(l)
      BY <1>2, <3>1, TailMovesOne
    <3>2. CASE ResumeNext(l)
      BY <1>2, <3>2, ResumeStartsOne, Kinds
    <3>3. CASE StartupScan(l) \/ ReapRow(l) \/ Retry(l) \/ ReapDone(l) \/ ResumeWait(l)
               \/ ResumeDone(l) \/ \E fresh \in SUBSET Runs : PeriodicScan(l, fresh)
      BY <1>2, <3>3 DEF StartupScan, ReapRow, Retry, ReapDone, ResumeWait, ResumeDone,
         PeriodicScan, Goto, Finish
    <3> QED BY <2>3, <3>1, <3>2, <3>3 DEF ReaperStep
  <2> QED BY <1>1, <1>3, <1>4, <2>1, <2>2, <2>3, OthersMove
<1>6. ASSUME ~booted', Reapers # {} PROVE \A t \in Tasks : task'[t] = IdleTask
  <2>1. CASE Crash
    BY <2>1 DEF Crash
  <2>2. CASE ~Crash
    <3>1. ~booted
      <4>1. ASSUME NEW k \in Reapers, ReaperStep(k) PROVE booted' = booted \/ booted' = TRUE
        <5>1. CASE TailStep(k)
          BY <1>2, <5>1, TailMovesOne
        <5>2. CASE ~TailStep(k)
          BY <4>1, <5>2 DEF ReaperStep, StartupScan, ReapRow, Retry, ReapDone, ResumeNext,
             ResumeWait, ResumeDone
        <5> QED BY <5>1, <5>2
      <4> QED BY <1>6, <2>2, <4>1, OthersMove DEF PeriodicScan
    <3>2. \A k \in Reapers : ~StartupScan(k)
      BY <1>6 DEF StartupScan
    <3> QED BY <1>6, <2>2, <3>1, <3>2, NothingStarts DEF ScanInv
  <2> QED BY <2>1, <2>2
<1>7. \A k \in Reapers : /\ task'[k].pc # "retry"
                         /\ task'[k].pc \notin {"resume", "resumeWait"} =>
                                \A row \in task'[k].todo : Settled(row.id)'
  BY <1>5
<1> HIDE DEF Visits
<1> QED BY <1>6, <1>7 DEF ScanInv, Settled

(* The steps of the reaper.                                                  *)
LEMMA ReapKeeps ==
    ASSUME Undisturbed, Inv, Inv', ScanInv, IssueInv, NEW k \in Reapers,
           ReaperStep(k) \/ \E fresh \in SUBSET Runs : PeriodicScan(k, fresh)
    PROVE  /\ IssueInv'
           /\ KeysInv => KeysInv'
           /\ Blockable = {} /\ OwnersInv => OwnersInv'
<1>1. /\ k \in Tasks /\ k \in Tasks \ Wakers /\ k \in Tasks \ Pausers /\ k \notin Runs
      /\ k \notin Agents /\ task[k] \in TaskRecord /\ task \in [Tasks -> TaskOK]
  BY Kinds, TaskFacts DEF Inv, TypeInv
<1>2. CASE TailStep(k)
  BY <1>1, <1>2, TailIsPlain, PlainKeeps, ReleaseKeeps
<1>3. ASSUME UNCHANGED <<dbVars, blocked, crashes>>, task[k].pc \notin {"stamp", "release"},
             NEW y, task' = [task EXCEPT ![k] = y], y.pc \notin {"release", "merged"}
      PROVE  /\ IssueInv'
             /\ KeysInv => KeysInv'
             /\ OwnersInv => OwnersInv'
  <2>1. task'[k] = y /\ \A t \in Tasks : t # k => task'[t] = task[t]
    BY <1>1, <1>3
  <2>2. /\ \A t \in Tasks : task[t].pc \in {"stamp", "release"} => task'[t] = task[t]
        /\ \A t \in Tasks : task'[t] = task[t] \/ task'[t].pc \notin {"release", "merged"}
    BY <1>3, <2>1
  <2>3. /\ \A a \in Agents : task'[a] = task[a] \/ StarterOK(a)'
        /\ \A r \in Runs : task'[r] = task[r] \/ task'[r].pc = "idle" \/ task'[r].run = r
    BY <1>1, <2>1, Kinds
  <2>4. OwnersInv => (crashes = 0 => \A a \in Agents : task'[a].pc \notin {"cread", "cmark"})
    BY <1>1, <2>1, Kinds DEF OwnersInv
  <2> QED BY <1>3, <2>2, <2>3, <2>4, MoveKeeps
<1>4. CASE \/ StartupScan(k) \/ ReapDone(k) \/ ResumeWait(k) \/ ResumeDone(k)
           \/ \E fresh \in SUBSET Runs : PeriodicScan(k, fresh)
  <2>1. UNCHANGED <<dbVars, blocked, crashes>> /\ task[k].pc \notin {"stamp", "release"}
    BY <1>4 DEF StartupScan, ReapDone, ResumeWait, ResumeDone, PeriodicScan, Idle
  <2>2. PICK y : task' = [task EXCEPT ![k] = y] /\ y.pc \notin {"release", "merged"}
    <3>1. ASSUME NEW rows PROVE [task[k] EXCEPT !.pc = "reap", !.todo = rows].pc = "reap"
      BY <1>1 DEF TaskRecord
    <3>2. ASSUME StartupScan(k) \/ \E fresh \in SUBSET Runs : PeriodicScan(k, fresh)
          PROVE  \E y : task' = [task EXCEPT ![k] = y] /\ y.pc \notin {"release", "merged"}
      <4>1. PICK rows : task' = [task EXCEPT ![k] =
                                    [task[k] EXCEPT !.pc = "reap", !.todo = rows]]
        BY <3>2 DEF StartupScan, PeriodicScan
      <4> QED BY <3>1, <4>1
    <3>3. [IdleTask EXCEPT !.pc = "resume", !.todo = QueuedRows].pc = "resume"
      BY DEF IdleTask
    <3>4. [task[k] EXCEPT !.pc = "resume"].pc = "resume"
      BY <1>1 DEF TaskRecord
    <3>5. ASSUME ReapDone(k) \/ ResumeWait(k) \/ ResumeDone(k)
          PROVE  \E y : task' = [task EXCEPT ![k] = y] /\ y.pc \notin {"release", "merged"}
      BY <3>3, <3>4, <3>5, IdleTaskFields DEF ReapDone, ResumeWait, ResumeDone, Goto, Finish
    <3> QED BY <1>4, <3>2, <3>5
  <2> QED BY <1>3, <2>1, <2>2
<1>5. CASE ResumeNext(k)
  <2>1. PICK a \in Agents :
          /\ Idle(a) /\ task'[k].pc = "resumeWait"
          /\ task'[a].pc = "start" /\ task'[a].todo = {}
          /\ \A t \in Tasks \ {k, a} : task'[t] = task[t]
    BY <1>5, ResumeStartsOne
  <2>2. UNCHANGED <<dbVars, blocked, crashes>> /\ task[k].pc = "resume"
    BY <1>5 DEF ResumeNext
  <2>3. /\ \A t \in Tasks : task[t].pc \in {"stamp", "release"} => task'[t] = task[t]
        /\ \A t \in Tasks : task'[t] = task[t] \/ task'[t].pc \notin {"release", "merged"}
    BY <2>1, <2>2 DEF Idle
  <2>4. StarterOK(a)'
    BY <2>1 DEF StarterOK
  <2>5. /\ \A b \in Agents : task'[b] = task[b] \/ StarterOK(b)'
        /\ \A r \in Runs : task'[r] = task[r] \/ task'[r].pc = "idle" \/ task'[r].run = r
    BY <1>1, <2>1, <2>4, Kinds
  <2>6. OwnersInv => (crashes = 0 => \A b \in Agents : task'[b].pc \notin {"cread", "cmark"})
    BY <1>1, <2>1, Kinds DEF OwnersInv
  <2> QED BY <2>2, <2>3, <2>5, <2>6, MoveKeeps
<1>6. CASE ReapRow(k)
  <2>1. task[k].pc = "reap" /\ \A row : ~Tracked(row)
    BY <1>6 DEF ReapRow, Tracked, Undisturbed
  <2>2. PICK row \in task[k].todo :
          \/ /\ task' = [task EXCEPT ![k].todo = @ \ {row}]
             /\ UNCHANGED runs
          \/ /\ SetRunStatus(row.id, "failed")
             /\ task' = [[task EXCEPT ![k].todo = @ \ {row}] EXCEPT
                            ![k].run = row.id, ![k].out = "failed", ![k].pc = "release"]
    BY <1>6, <2>1 DEF ReapRow, MayRetry
  <2>3. UNCHANGED <<created, lock, lockKey, deferred, agentStatus, blocked, crashes>>
    BY <1>6 DEF ReapRow
  <2>4. CASE task' = [task EXCEPT ![k].todo = @ \ {row}] /\ UNCHANGED runs
    <3> DEFINE y == [task[k] EXCEPT !.todo = task[k].todo \ {row}]
    <3>1. y.pc = "reap" /\ task' = [task EXCEPT ![k] = y]
      BY <1>1, <2>1, <2>4 DEF TaskRecord
    <3> HIDE DEF y
    <3> QED BY <1>3, <2>1, <2>3, <2>4, <3>1 DEF dbVars
  <2>5. CASE /\ SetRunStatus(row.id, "failed")
             /\ task' = [[task EXCEPT ![k].todo = @ \ {row}] EXCEPT
                            ![k].run = row.id, ![k].out = "failed", ![k].pc = "release"]
    <3>1. PICK r \in Runs : r = row.id /\ Settled(r)
      BY <1>1, <2>1, TaskFacts DEF ScanInv
    <3> DEFINE y == [task[k] EXCEPT !.todo = task[k].todo \ {row}, !.run = r,
                            !.out = "failed", !.pc = "release"]
    <3>2. y.pc = "release" /\ y.run = r /\ y.todo \subseteq task[k].todo
      BY <1>1, <2>1 DEF TaskRecord
    <3>3. task' = [task EXCEPT ![k] = y]
      BY <1>1, <2>5, <3>1
    <3> HIDE DEF y
    <3>4. runs[r].status # "queued" /\ ~Stamping(r)
      BY <3>1 DEF Settled, Terminal, Stamping, IssueInv, TasksInv, StarterOK
    <3>5. SetRunStatus(r, "failed") /\ "failed" \in Terminal
      BY <2>5, <3>1 DEF Terminal
    <3> QED BY <1>1, <2>1, <2>3, <3>2, <3>3, <3>4, <3>5, MarkKeeps
  <2> QED BY <2>2, <2>4, <2>5
<1>7. CASE Retry(k)
  BY <1>7 DEF Retry, ScanInv
<1> QED BY <1>2, <1>4, <1>5, <1>6, <1>7 DEF ReaperStep

-----------------------------------------------------------------------------
(* The three invariants, each under its own hypotheses.                      *)

LEMMA IssueStart ==
    ASSUME Init
    PROVE  ScanInv /\ IssueInv /\ KeysInv /\ OwnersInv
<1>1. /\ \A i \in Issues : lock[i] = NoRun /\ lockKey[i] = NoAgent /\ deferred[i] = <<>>
      /\ \A a \in Agents : agentStatus[a] = "idle"
      /\ blocked = {}
  BY DEF Init, StoreInit
<1>2. \A t \in Tasks : task[t].pc = "idle" /\ task[t].todo = {}
  BY IdleTaskFields DEF Init
<1>3. \A r \in Runs : ~Active(r)
  BY DEF Init, StoreInit, AbsentRun, Active
<1>4. LocksInv
  BY <1>1, <1>3 DEF LocksInv, OneActiveRunPerIssue
<1>5. TasksInv
  BY <1>2, Kinds DEF TasksInv, StarterOK, Idle
<1>6. KeysInv
  BY <1>1, <1>2, Kinds DEF KeysInv, CoalescedIntoOwnRun
<1>7. OwnersInv
  BY <1>1, <1>2, Kinds DEF OwnersInv, Invokable
<1>8. ScanInv
  BY <1>2, Kinds DEF Init, ScanInv
<1> QED BY <1>4, <1>5, <1>6, <1>7, <1>8 DEF IssueInv

LEMMA IssueNext ==
    ASSUME Undisturbed, Inv, Inv', ScanInv, IssueInv, [Next]_vars
    PROVE  IssueInv'
<1>1. \A i \in Editable : EditIssue(i) => IssueInv'
  BY EditKeeps
<1> QED BY <1>1, UndisturbedSteps, PlainKeeps, WakeCommitKeeps, StarterReadKeeps,
       ClaimUpdateKeeps, ClaimStampKeeps, CancelMarkKeeps, ExecMarkKeeps, ReleaseKeeps,
       ReapKeeps, CrashKeeps, Kinds

LEMMA KeysNext ==
    ASSUME Undisturbed, Editable = {}, Inv, Inv', ScanInv, IssueInv, KeysInv, [Next]_vars
    PROVE  KeysInv'
BY UndisturbedSteps, PlainKeeps, WakeCommitKeeps, StarterReadKeeps, ClaimUpdateKeeps,
   ClaimStampKeeps, CancelMarkKeeps, ExecMarkKeeps, ReleaseKeeps, ReapKeeps, CrashKeeps,
   Kinds

LEMMA OwnersNext ==
    ASSUME Undisturbed, Editable = {}, Blockable = {}, Inv, Inv', ScanInv, IssueInv,
           OwnersInv, [Next]_vars
    PROVE  OwnersInv'
BY UndisturbedSteps, PlainKeeps, WakeCommitKeeps, StarterReadKeeps, ClaimUpdateKeeps,
   ClaimStampKeeps, CancelMarkKeeps, ExecMarkKeeps, ReleaseKeeps, ReapKeeps, CrashKeeps,
   Kinds

LEMMA IssueInvariance ==
    ASSUME Undisturbed
    PROVE  Spec => [](Inv /\ ScanInv /\ IssueInv)
<1>1. Inv /\ ScanInv /\ IssueInv /\ [Next]_vars => (Inv /\ ScanInv /\ IssueInv)'
  BY NextInv, ScanNext, IssueNext
<1> QED BY <1>1, InitInv, IssueStart, PTL DEF Spec

(* While nobody cancels or reaps runs and no mention queues one behind the    *)
(* lock, an issue has at most one active run, whatever wakeups, claims,       *)
(* promotions, edits of the issue and restarts interleave.                   *)
THEOREM IssueHasOneActiveRun ==
    ASSUME Undisturbed
    PROVE  Spec => []OneActiveRunPerIssue
<1>1. IssueInv => OneActiveRunPerIssue
  BY DEF IssueInv, LocksInv
<1> QED BY <1>1, IssueInvariance, PTL

(* If moreover no edit drops the lock and keeps the name key, a wakeup is     *)
(* only merged into a run of the agent it was meant for.                     *)
THEOREM WakesJoinOwnRuns ==
    ASSUME Undisturbed, Editable = {}
    PROVE  Spec => []CoalescedIntoOwnRun
<1>1. Inv /\ ScanInv /\ IssueInv /\ KeysInv /\ [Next]_vars => KeysInv'
  BY NextInv, KeysNext
<1>2. KeysInv => CoalescedIntoOwnRun
  BY DEF KeysInv
<1> QED BY <1>1, <1>2, IssueStart, IssueInvariance, PTL DEF Spec

(* If moreover no budget blocks an agent, and until the server restarts, a    *)
(* deferred wakeup waits for an active run on its issue or for a release.    *)
THEOREM DeferredWakesAreOwned ==
    ASSUME Undisturbed, Editable = {}, Blockable = {}
    PROVE  Spec => [](crashes = 0 => DeferredHasOwner)
<1>1. Inv /\ ScanInv /\ IssueInv /\ OwnersInv /\ [Next]_vars => OwnersInv'
  BY NextInv, OwnersNext
<1>2. ASSUME Inv, IssueInv, OwnersInv, crashes = 0 PROVE DeferredHasOwner
  <2>1. SUFFICES ASSUME NEW i \in Issues, deferred[i] # <<>>
                 PROVE  \/ \E r \in Runs : Active(r) /\ runs[r].issue = i
                        \/ \E t \in Tasks : task[t].pc = "release" /\ lock[i] = task[t].run
    BY DEF DeferredHasOwner
  <2>2. Owned(i)
    BY <1>2, <2>1 DEF OwnersInv
  <2>3. CASE lock[i] = NoRun
    BY <2>2, <2>3 DEF Owned, Unstamped, Active
  <2>4. CASE lock[i] # NoRun
    <3>1. lock[i] \in Runs /\ runs[lock[i]].issue = i
      BY <1>2, <2>4 DEF IssueInv, LocksInv, Inv, TypeInv, TypeOK, StoreTypeOK
    <3> QED BY <2>2, <2>4, <3>1 DEF Owned
  <2> QED BY <2>3, <2>4
<1> QED BY <1>1, <1>2, IssueStart, IssueInvariance, PTL DEF Spec
=============================================================================
