-------------------------- MODULE PluginJobsProofs --------------------------
(***************************************************************************)
(* Theorems about PluginJobs, for every number of jobs, runs and trigger    *)
(* requests and every limit: the tick does not run a job twice at once and   *)
(* keeps within the limit, and no row or mark is left without the dispatch  *)
(* that will end it.                                                         *)
(***************************************************************************)
EXTENDS PluginJobs, TLAPS, FiniteSetTheorems

(* The runs the tick has in flight; only a tick that awaits them has any.    *)
InFlightScheduled == {r \in ScheduledRuns : InFlight(r)}
OnlyWhileAwaited == tick.pc # "await" => InFlightScheduled = {}

JobRecord == [status : {"absent", "active", "paused"}, next : {"null", "future", "due"}]

(* A dispatch works for a job; it has ended the row before it finishes; and  *)
(* a live row without one has been inserted for a trigger request.           *)
Dispatching(t, r) == trigger[t].pc = "dispatch" /\ trigger[t].run = r
RunsOK == \A r \in Runs :
    /\ run[r].pc # "idle" => run[r].job \in Jobs
    /\ run[r].pc = "complete" => run[r].status \notin Live
    /\ run[r].pc = "idle" /\ run[r].status \in Live => \E t \in Triggers : Dispatching(t, r)

(* A trigger request has its row to itself, and nobody works on it yet.      *)
TriggersOK ==
    /\ \A t \in Triggers : trigger[t].pc # "idle" => trigger[t].job \in Jobs
    /\ \A t \in Triggers, r \in Runs : Dispatching(t, r) =>
          r \in ManualRuns /\ run[r].pc = "idle" /\ run[r].job = trigger[t].job
    /\ \A t \in Triggers : trigger[t].pc = "dispatch" => trigger[t].run \in ManualRuns
    /\ \A t, u \in Triggers, r \in Runs : Dispatching(t, r) /\ Dispatching(u, r) => t = u

MarksHeld == \A j \in activeJobs : \E r \in Runs : InFlight(r) /\ run[r].job = j

Within == IsFiniteSet(InFlightScheduled) /\ WithinLimit

(* The inductive invariant.                                                  *)
Inv == TypeOK /\ OnlyWhileAwaited /\ RunsOK /\ TriggersOK /\ MarksHeld
       /\ ScheduledOnce /\ Within

-----------------------------------------------------------------------------
(* Calm steps: no dispatch begins or ends, and no mark is set.  Most actions *)
(* are calm; one lemma shows that all of these keep the invariant.           *)

Calm ==
    /\ TypeOK'
    /\ trigger' = trigger /\ tick' = tick /\ activeJobs' \subseteq activeJobs
    /\ \A r \in Runs :
        /\ run[r].pc = "idle" <=> run'[r].pc = "idle"
        /\ (run[r].pc # "idle" \/ \E t \in Triggers : Dispatching(t, r)) => run'[r].job = run[r].job
        /\ run'[r].pc = "complete" => run'[r].status \notin Live
        /\ run'[r].pc = "idle" /\ run'[r].status \in Live => run[r].status \in Live

(* A dispatch is in flight unless it is idle.                                *)
LEMMA InFlightPC == ASSUME TypeOK PROVE \A r \in Runs : InFlight(r) <=> run[r].pc # "idle"
  BY DEF TypeOK, RunRecord, InFlight

(* A type-correct step after which the tick has no other runs in flight keeps *)
(* within the limit.                                                         *)
LEMMA FewerWithin ==
    ASSUME Inv, TypeOK', \A r \in ScheduledRuns : run'[r].pc # "idle" => run[r].pc # "idle"
    PROVE  Within' /\ InFlightScheduled' \subseteq InFlightScheduled
<1>1. ScheduledRuns \subseteq Runs
  BY DEF Runs
<1>2. InFlightScheduled' \subseteq InFlightScheduled
  BY <1>1 DEF InFlightScheduled, InFlight, Inv, TypeOK, RunRecord
<1>3. /\ IsFiniteSet(InFlightScheduled')
      /\ Cardinality(InFlightScheduled') <= Cardinality(InFlightScheduled)
  BY <1>2, FS_Subset DEF Inv, Within
<1>4. Cardinality(InFlightScheduled') \in Nat /\ Cardinality(InFlightScheduled) \in Nat
  BY <1>3, FS_CardinalityType DEF Inv, Within
<1>5. Cardinality(InFlightScheduled) <= MaxConcurrentJobs
  BY DEF Inv, Within, WithinLimit, InFlightScheduled
<1>6. Cardinality(InFlightScheduled') <= MaxConcurrentJobs
  BY <1>3, <1>4, <1>5, JobsAssumption
<1> QED BY <1>2, <1>3, <1>6 DEF Within, WithinLimit, InFlightScheduled

LEMMA CalmInv == ASSUME Inv, Calm PROVE Inv'
<1> USE DEF Calm
<1>1. ScheduledRuns \subseteq Runs /\ ManualRuns \subseteq Runs
  BY DEF Runs
<1>2. Within' /\ InFlightScheduled' \subseteq InFlightScheduled
  BY <1>1, FewerWithin
<1>3. OnlyWhileAwaited'
  BY <1>2 DEF Inv, OnlyWhileAwaited
<1>4. RunsOK'
  BY DEF Inv, RunsOK, Dispatching
<1>5. TriggersOK'
  BY DEF Inv, TriggersOK, Dispatching
<1>6. MarksHeld'
  BY InFlightPC DEF Inv, MarksHeld, InFlight, TypeOK, RunRecord
<1>7. ScheduledOnce'
  BY <1>1 DEF Inv, ScheduledOnce
<1> QED BY <1>2, <1>3, <1>4, <1>5, <1>6, <1>7 DEF Inv

(* What does not concern the dispatches is calm.                             *)
LEMMA OtherCalm ==
    ASSUME Inv,
           \/ \E j \in Jobs : TimePasses(j) \/ SyncJob(j) \/ EnsureNextRun(j)
           \/ \E M \in Manifests : Enable(M)
           \/ WorkerStarts \/ RegisterPlugin \/ UnregisterPlugin \/ WorkerRestarts
           \/ ForgetMarks
    PROVE  Calm
<1>1. TypeOK /\ RunsOK
  BY DEF Inv
<1>2. /\ run' = run /\ trigger' = trigger /\ tick' = tick /\ activeJobs' \subseteq activeJobs
      /\ orphans' \subseteq orphans
  BY DEF TimePasses, SyncJob, EnsureNextRun, Enable, WorkerStarts, RegisterPlugin,
         UnregisterPlugin, WorkerRestarts, ForgetMarks
<1>3. plugin' \in PluginRecord /\ worker' \in BOOLEAN
  <2>1. CASE \E j \in Jobs : TimePasses(j) \/ SyncJob(j) \/ EnsureNextRun(j)
    BY <1>1, <2>1 DEF TypeOK, PluginRecord, TimePasses, SyncJob, EnsureNextRun
  <2>2. CASE \E M \in Manifests : Enable(M)
    BY <1>1, <2>2, JobsAssumption DEF TypeOK, PluginRecord, Enable
  <2>3. CASE WorkerStarts \/ RegisterPlugin
    <3>1. /\ {j \in Jobs : job[j].status = "active" /\ job[j].next # "future"} \subseteq Jobs \cup Runs
          /\ {j \in Jobs : j \in plugin.declared \/ job[j].status = "active"} \subseteq Jobs \cup Runs
      OBVIOUS
    <3> QED BY <1>1, <2>3, <3>1 DEF TypeOK, PluginRecord, WorkerStarts, RegisterPlugin
  <2>4. CASE UnregisterPlugin \/ WorkerRestarts \/ ForgetMarks
    <3>1. {r \in Runs : run[r].status \in Live} \subseteq Jobs \cup Runs
      OBVIOUS
    <3> QED BY <1>1, <2>4, <3>1 DEF TypeOK, PluginRecord, UnregisterPlugin, WorkerRestarts, ForgetMarks
  <2> QED BY <2>1, <2>2, <2>3, <2>4
<1>4. job' \in [Jobs -> JobRecord]
  <2>1. ASSUME NEW j \in Jobs, TimePasses(j) \/ SyncJob(j) \/ EnsureNextRun(j)
        PROVE  job' \in [Jobs -> JobRecord]
    <3>1. PICK y \in JobRecord : job' = [job EXCEPT ![j] = y]
      <4>1. job \in [Jobs -> JobRecord] /\ job[j] \in JobRecord
        BY <1>1 DEF TypeOK, JobRecord
      <4>2. /\ [job[j] EXCEPT !.next = "due"] \in JobRecord
            /\ [job[j] EXCEPT !.next = "future"] \in JobRecord
            /\ \A s \in {"active", "paused"} : [job[j] EXCEPT !.status = s] \in JobRecord
        BY <4>1 DEF JobRecord
      <4> QED BY <2>1, <4>1, <4>2 DEF TimePasses, SyncJob, EnsureNextRun
    <3> QED BY <1>1, <3>1 DEF TypeOK, JobRecord
  <2> QED
    BY <1>1, <2>1 DEF TypeOK, JobRecord, Enable, WorkerStarts, RegisterPlugin,
                      UnregisterPlugin, WorkerRestarts, ForgetMarks
<1>5. TypeOK'
  BY <1>1, <1>2, <1>3, <1>4 DEF TypeOK, JobRecord
<1> QED BY <1>1, <1>2, <1>5 DEF Calm, RunsOK

(* So are the steps of a dispatch before its last one, the cancellation of a *)
(* run, and the end of the worker, which rejects the calls.                  *)
LEMMA DispatchCalm ==
    ASSUME Inv, NEW r \in Runs, CreateRun(r) \/ MarkRunning(r) \/ CompleteRun(r)
    PROVE  Calm
<1>1. TypeOK /\ RunsOK /\ TriggersOK /\ run[r] \in RunRecord
  BY DEF Inv, TypeOK
<1>2. PICK pc \in {"mark", "call", "complete"}, s \in Live \cup Final :
          /\ run' = [run EXCEPT ![r].pc = pc, ![r].status = s]
          /\ run[r].pc # "idle" /\ (pc = "complete" => s \notin Live)
  BY DEF CreateRun, MarkRunning, CompleteRun, Outcome, Answers, Live, Final
<1>3. PICK y \in RunRecord : /\ run' = [run EXCEPT ![r] = y]
                             /\ y.pc = pc /\ y.status = s /\ y.job = run[r].job
  <2>1. [run[r] EXCEPT !.pc = pc, !.status = s] \in RunRecord
    BY <1>1 DEF RunRecord
  <2> QED BY <1>1, <1>2, <2>1 DEF RunRecord, TypeOK
<1>4. /\ trigger' = trigger /\ tick' = tick /\ activeJobs' = activeJobs
      /\ UNCHANGED <<job, worker, plugin, orphans>>
  BY DEF CreateRun, MarkRunning, CompleteRun
<1>5. TypeOK'
  BY <1>1, <1>3, <1>4 DEF TypeOK
<1> QED BY <1>1, <1>2, <1>3, <1>4, <1>5 DEF Calm, RunsOK, TypeOK

LEMMA CancelRunCalm == ASSUME Inv, NEW r \in Runs, CancelRun(r) PROVE Calm
<1>1. TypeOK /\ RunsOK /\ TriggersOK /\ run[r] \in RunRecord
  BY DEF Inv, TypeOK
<1>2. PICK y \in RunRecord :
          /\ run' = [run EXCEPT ![r] = y]
          /\ y.status \notin Live /\ y.pc = run[r].pc
          /\ run[r].pc # "idle" \/ (\E t \in Triggers : trigger[t].run = r) => y.job = run[r].job
  <2>1. CASE run[r].pc = "idle" /\ ~\E t \in Triggers : trigger[t].run = r
    <3>1. NoRun \in RunRecord /\ NoRun.status \notin Live /\ NoRun.pc = "idle"
      BY DEF NoRun, NoJob, RunRecord, Live
    <3>2. run' = [run EXCEPT ![r] = NoRun]
      BY <1>1, <2>1 DEF CancelRun, TypeOK
    <3> QED BY <2>1, <3>1, <3>2
  <2>2. CASE ~(run[r].pc = "idle" /\ ~\E t \in Triggers : trigger[t].run = r)
    <3>1. [run[r] EXCEPT !.status = "cancelled"] \in RunRecord
      BY <1>1 DEF RunRecord, Final
    <3>2. run' = [run EXCEPT ![r] = [run[r] EXCEPT !.status = "cancelled"]]
      BY <1>1, <2>2 DEF CancelRun, TypeOK
    <3> QED BY <1>1, <3>1, <3>2 DEF Live, RunRecord
  <2> QED BY <2>1, <2>2
<1>3. /\ trigger' = trigger /\ tick' = tick /\ activeJobs' = activeJobs
      /\ UNCHANGED <<job, worker, orphans>> /\ plugin' \in PluginRecord
  BY <1>1 DEF CancelRun, TypeOK, PluginRecord
<1>4. TypeOK'
  BY <1>1, <1>2, <1>3 DEF TypeOK
<1> QED BY <1>1, <1>2, <1>3, <1>4 DEF Calm, RunsOK, TypeOK, Dispatching

LEMMA WorkerEndCalm == ASSUME Inv, WorkerStops \/ WorkerCrashes PROVE Calm
<1>1. TypeOK /\ RunsOK
  BY DEF Inv
<1>2. run' = Rejected
  BY DEF WorkerStops, WorkerCrashes
<1>3. \A r \in Runs :
          /\ run'[r] \in RunRecord
          /\ run'[r].pc = run[r].pc /\ run'[r].job = run[r].job /\ run'[r].status = run[r].status
  BY <1>1, <1>2 DEF Rejected, TypeOK, RunRecord
<1>4. run' \in [Runs -> RunRecord]
  BY <1>2, <1>3 DEF Rejected
<1>5. /\ trigger' = trigger /\ tick' = tick /\ activeJobs' = activeJobs
      /\ worker' = FALSE /\ UNCHANGED <<job, orphans>> /\ plugin' \in PluginRecord
  BY <1>1 DEF WorkerStops, WorkerCrashes, TypeOK, PluginRecord
<1>6. TypeOK'
  BY <1>1, <1>4, <1>5 DEF TypeOK
<1> QED BY <1>1, <1>3, <1>5, <1>6 DEF Calm, RunsOK

-----------------------------------------------------------------------------
(* The steps that are not calm.                                              *)

LEMMA TickSelectInv == ASSUME Inv, TickSelect PROVE Inv'
<1>1. TypeOK'
  BY DEF Inv, TypeOK, TickSelect
<1>2. UNCHANGED <<run, trigger, activeJobs>> /\ tick.pc # "await" /\ tick'.pc # "await"
  BY DEF TickSelect
<1> QED BY <1>1, <1>2 DEF Inv, OnlyWhileAwaited, InFlightScheduled, InFlight, RunsOK, TriggersOK,
            Dispatching, MarksHeld, ScheduledOnce, Within, WithinLimit

LEMMA TickEndInv == ASSUME Inv, TickEnd PROVE Inv'
<1>1. TypeOK'
  BY DEF Inv, TypeOK, TickEnd, IdleTick
<1>2. UNCHANGED <<run, trigger, activeJobs>>
  BY DEF TickEnd
<1>3. OnlyWhileAwaited'
  BY <1>2 DEF OnlyWhileAwaited, InFlightScheduled, InFlight, TickEnd, DispatchesSettled
<1> QED BY <1>1, <1>2, <1>3 DEF Inv, InFlightScheduled, InFlight, RunsOK, TriggersOK,
            Dispatching, MarksHeld, ScheduledOnce, Within, WithinLimit

(* The limit leaves room for what the tick takes, and the tick has nothing   *)
(* in flight yet.                                                            *)
LEMMA CapacityWithin ==
    ASSUME TypeOK, NEW S \in SUBSET Jobs
    PROVE  Capacity(S) \in Nat /\ Capacity(S) <= MaxConcurrentJobs
<1>1. IsFiniteSet(activeJobs) /\ IsFiniteSet(S)
  BY JobsAssumption, FS_Subset DEF TypeOK
<1>2. Cardinality(activeJobs) \in Nat /\ Cardinality(S) \in Nat
  BY <1>1, FS_CardinalityType
<1> QED BY <1>2, JobsAssumption DEF Capacity

LEMMA TickLoopInv == ASSUME Inv, TickLoop PROVE Inv'
<1> DEFINE may == IF worker THEN tick.due \ activeJobs ELSE {}
<1>1. TypeOK /\ tick.pc = "loop" /\ may \subseteq Jobs
  BY DEF Inv, TypeOK, TickLoop
<1>2. PICK S \in SUBSET may :
          /\ Cardinality(S) = Capacity(may) /\ Slots(S) # {}
          /\ activeJobs' = activeJobs \cup S
          /\ LET slot == CHOOSE f \in Slots(S) : TRUE IN
             run' = [r \in Runs |->
                       IF \E j \in S : slot[j] = r
                       THEN [NoRun EXCEPT !.pc = "create",
                                          !.job = CHOOSE j \in S : slot[j] = r]
                       ELSE run[r]]
  BY DEF TickLoop
<1>3. PICK slot \in Slots(S) :
          run' = [r \in Runs |-> IF \E j \in S : slot[j] = r
                                THEN [NoRun EXCEPT !.pc = "create",
                                                   !.job = CHOOSE j \in S : slot[j] = r]
                                ELSE run[r]]
  BY <1>2
<1>4. /\ tick' = [pc |-> "await", due |-> {}]
      /\ UNCHANGED <<job, trigger, worker, plugin, orphans>>
  BY DEF TickLoop
<1>5. /\ \A j \in S : slot[j] \in ScheduledRuns /\ ~Referred(slot[j])
      /\ \A i, j \in S : slot[i] = slot[j] => i = j
  BY DEF Slots
<1>6. ScheduledRuns \subseteq Runs /\ ManualRuns \subseteq Runs
  BY DEF Runs
<1>7. \A j \in S : /\ run'[slot[j]].pc = "create" /\ run'[slot[j]].job = j
                   /\ run'[slot[j]].status = "none"
                   /\ run'[slot[j]] \in RunRecord
  <2> TAKE j \in S
  <2>1. j \in Jobs /\ slot[j] \in Runs
    BY <1>1, <1>5, <1>6
  <2>2. (CHOOSE i \in S : slot[i] = slot[j]) = j
    BY <1>5
  <2>3. run'[slot[j]] = [NoRun EXCEPT !.pc = "create", !.job = j]
    BY <1>3, <2>1, <2>2
  <2> QED BY <2>1, <2>3 DEF NoRun, NoJob, RunRecord
<1>8. \A r \in Runs : (\E j \in S : slot[j] = r) \/ run'[r] = run[r]
  BY <1>3
<1>9. \A r \in ScheduledRuns : run[r].pc = "idle"
  BY <1>1, <1>6, InFlightPC DEF Inv, OnlyWhileAwaited, InFlightScheduled
<1>10. TypeOK'
  <2>1. \A r \in Runs : run'[r] \in RunRecord
    BY <1>1, <1>7, <1>8 DEF TypeOK
  <2>2. run' \in [Runs -> RunRecord]
    BY <1>3, <2>1
  <2> QED BY <1>1, <1>2, <1>4, <2>2 DEF TypeOK
<1>11. OnlyWhileAwaited'
  BY <1>4 DEF OnlyWhileAwaited
<1>12. RunsOK'
  BY <1>1, <1>4, <1>7, <1>8 DEF Inv, RunsOK, Live, Dispatching
<1>13. TriggersOK'
  BY <1>4, <1>5, <1>8, JobsAssumption DEF Inv, TriggersOK, Dispatching
<1>14. MarksHeld'
  <2>1. SUFFICES ASSUME NEW j \in activeJobs' PROVE \E r \in Runs : InFlight(r)' /\ run'[r].job = j
    BY DEF MarksHeld
  <2>2. CASE j \in S
    BY <2>2, <1>5, <1>6, <1>7 DEF InFlight
  <2>3. CASE j \in activeJobs
    <3>1. PICK r \in Runs : InFlight(r) /\ run[r].job = j
      BY <2>3 DEF Inv, MarksHeld
    <3>2. run'[r] = run[r]
      BY <3>1, <1>5, <1>8, <1>9, <1>1, InFlightPC
    <3> QED BY <3>1, <3>2 DEF InFlight
  <2> QED BY <1>2, <2>2, <2>3
<1>15. ScheduledOnce'
  BY <1>6, <1>7, <1>8, <1>9 DEF ScheduledOnce
<1>16. Within'
  <2>1. IsFiniteSet(S) /\ Cardinality(S) \in Nat
    BY <1>1, JobsAssumption, FS_Subset, FS_CardinalityType
  <2>2. Cardinality(S) <= MaxConcurrentJobs
    BY <1>1, <1>2, CapacityWithin
  <2> DEFINE T == {slot[j] : j \in S}
  <2>3. InFlightScheduled' = T
    BY <1>5, <1>6, <1>7, <1>8, <1>9, InFlightPC DEF InFlightScheduled, InFlight
  <2> DEFINE g == [j \in S |-> slot[j]]
  <2>4. g \in Surjection(S, T)
    BY DEF Surjection
  <2> HIDE DEF g
  <2>5. IsFiniteSet(T) /\ Cardinality(T) <= Cardinality(S)
    BY <2>1, <2>4, FS_Surjection
  <2>6. Cardinality(T) \in Nat
    BY <2>5, FS_CardinalityType
  <2>7. Cardinality(T) <= MaxConcurrentJobs
    BY <2>1, <2>2, <2>5, <2>6, JobsAssumption
  <2> QED BY <2>3, <2>5, <2>7 DEF Within, WithinLimit, InFlightScheduled
<1> QED BY <1>10, <1>11, <1>12, <1>13, <1>14, <1>15, <1>16 DEF Inv

LEMMA FinishInv == ASSUME Inv, NEW r \in Runs, Finish(r) PROVE Inv'
<1>1. TypeOK /\ RunsOK /\ run[r] \in RunRecord /\ run[r].pc = "complete"
  BY DEF Inv, TypeOK, Finish
<1>2. PICK y \in RunRecord :
          run' = [run EXCEPT ![r] = y] /\ y.pc = "idle" /\ y.status \notin Live
  <2>1. NoRun \in RunRecord /\ NoRun.status \notin Live /\ NoRun.pc = "idle"
    BY DEF NoRun, NoJob, RunRecord, Live
  <2>2. /\ [run[r] EXCEPT !.pc = "idle", !.rejected = FALSE] \in RunRecord
        /\ [run[r] EXCEPT !.pc = "idle", !.rejected = FALSE].status = run[r].status
        /\ [run[r] EXCEPT !.pc = "idle", !.rejected = FALSE].pc = "idle"
    BY <1>1 DEF RunRecord
  <2>3. run[r].status \notin Live
    BY <1>1 DEF RunsOK
  <2>4. run' = [run EXCEPT ![r] = Idle(r)]
    BY DEF Finish
  <2> QED BY <2>1, <2>2, <2>3, <2>4 DEF Idle
<1>3. activeJobs' = activeJobs \ {run[r].job} /\ UNCHANGED <<tick, trigger, worker, plugin, orphans>>
  BY DEF Finish, Unmarked
<1>4. run'[r] = y /\ \A q \in Runs : q # r => run'[q] = run[q]
  BY <1>1, <1>2 DEF TypeOK
<1>5. TypeOK'
  <2>1. job' \in [Jobs -> JobRecord]
    <3>1. job \in [Jobs -> JobRecord]
      BY <1>1 DEF TypeOK, JobRecord
    <3>2. CASE r \in ScheduledRuns
      <4>1. run[r].job \in Jobs /\ job[run[r].job] \in JobRecord
        BY <1>1, <3>1 DEF RunsOK
      <4>2. [job[run[r].job] EXCEPT !.next = "future"] \in JobRecord
        BY <4>1 DEF JobRecord
      <4> QED BY <3>1, <3>2, <4>1, <4>2 DEF Finish
    <3> QED BY <3>1, <3>2 DEF Finish
  <2> QED BY <1>1, <1>2, <1>3, <2>1 DEF TypeOK, JobRecord
<1>6. ScheduledRuns \subseteq Runs
  BY DEF Runs
<1>7. Within' /\ InFlightScheduled' \subseteq InFlightScheduled
  BY <1>2, <1>4, <1>5, <1>6, FewerWithin
<1>8. OnlyWhileAwaited'
  BY <1>3, <1>7 DEF Inv, OnlyWhileAwaited
<1>9. RunsOK'
  BY <1>2, <1>3, <1>4 DEF Inv, RunsOK, Dispatching
<1>10. TriggersOK'
  BY <1>1, <1>3, <1>4 DEF Inv, TriggersOK, Dispatching
<1>11. MarksHeld'
  BY <1>3, <1>4 DEF Inv, MarksHeld, InFlight
<1>12. ScheduledOnce'
  BY <1>2, <1>4, <1>6 DEF Inv, ScheduledOnce
<1> QED BY <1>5, <1>7, <1>8, <1>9, <1>10, <1>11, <1>12 DEF Inv

LEMMA TriggerJobInv == ASSUME Inv, NEW t \in Triggers, NEW j \in Jobs, TriggerJob(t, j) PROVE Inv'
<1>1. TypeOK /\ trigger[t] \in TriggerRecord
  BY DEF Inv, TypeOK
<1>2. PICK y \in TriggerRecord :
          /\ trigger' = [trigger EXCEPT ![t] = y]
          /\ y.pc = "insert" /\ y.job = j
  <2>1. [NoTrigger EXCEPT !.pc = "insert", !.job = j] \in TriggerRecord
    BY DEF NoTrigger, NoJob, TriggerRecord
  <2> QED BY <2>1 DEF TriggerJob, NoTrigger
<1>3. UNCHANGED <<job, run, activeJobs, tick, worker, plugin, orphans>> /\ trigger[t].pc = "idle"
  BY DEF TriggerJob
<1>4. trigger'[t] = y /\ \A u \in Triggers : u # t => trigger'[u] = trigger[u]
  BY <1>1, <1>2 DEF TypeOK
<1>5. TypeOK'
  BY <1>1, <1>2, <1>3 DEF TypeOK
<1>6. \A u \in Triggers, r \in Runs : Dispatching(u, r)' <=> Dispatching(u, r)
  <2> TAKE u \in Triggers, r \in Runs
  <2>1. CASE u = t
    BY <1>2, <1>3, <1>4, <2>1 DEF Dispatching
  <2>2. CASE u # t
    BY <1>4, <2>2 DEF Dispatching
  <2> QED BY <2>1, <2>2
<1>7. RunsOK'
  BY <1>3, <1>6 DEF Inv, RunsOK
<1>8. TriggersOK'
  BY <1>2, <1>3, <1>4, <1>6 DEF Inv, TriggersOK, Dispatching
<1> QED BY <1>3, <1>5, <1>7, <1>8 DEF Inv, OnlyWhileAwaited, InFlightScheduled, InFlight, MarksHeld,
            ScheduledOnce, Within, WithinLimit

LEMMA TriggerInsertsInv == ASSUME Inv, NEW t \in Triggers, TriggerInserts(t) PROVE Inv'
<1>1. /\ TypeOK /\ RunsOK /\ TriggersOK /\ trigger[t] \in TriggerRecord
      /\ trigger[t].pc = "insert" /\ trigger[t].job \in Jobs
  BY DEF Inv, TypeOK, TriggersOK, TriggerInserts
<1>2. UNCHANGED <<job, activeJobs, tick, worker, plugin, orphans>>
  BY DEF TriggerInserts
<1>3. CASE trigger' = [trigger EXCEPT ![t] = NoTrigger] /\ UNCHANGED run
  <2>1. NoTrigger \in TriggerRecord /\ NoTrigger.pc = "idle"
    BY DEF NoTrigger, NoJob, TriggerRecord
  <2>2. trigger'[t] = NoTrigger /\ \A u \in Triggers : u # t => trigger'[u] = trigger[u]
    BY <1>1, <1>3 DEF TypeOK
  <2>3. TypeOK'
    BY <1>1, <1>2, <1>3, <2>1 DEF TypeOK
  <2>4. \A u \in Triggers, r \in Runs : Dispatching(u, r)' <=> Dispatching(u, r)
    <3> TAKE u \in Triggers, r \in Runs
    <3>1. CASE u = t
      BY <1>1, <2>1, <2>2, <3>1 DEF Dispatching
    <3>2. CASE u # t
      BY <2>2, <3>2 DEF Dispatching
    <3> QED BY <3>1, <3>2
  <2>5. RunsOK'
    BY <1>1, <1>3, <2>4 DEF RunsOK
  <2>6. TriggersOK'
    BY <1>1, <1>3, <2>1, <2>2, <2>4 DEF TriggersOK, Dispatching
  <2> QED BY <1>2, <1>3, <2>3, <2>5, <2>6 DEF Inv, OnlyWhileAwaited, InFlightScheduled, InFlight,
              MarksHeld, ScheduledOnce, Within, WithinLimit
<1>4. CASE worker /\ HasFree(ManualRuns)
  <2>1. PICK r \in ManualRuns :
            /\ ~Referred(r)
            /\ run' = [run EXCEPT ![r] = [NoRun EXCEPT !.job = trigger[t].job, !.status = "queued"]]
            /\ trigger' = [trigger EXCEPT ![t].pc = "dispatch", ![t].run = r]
    BY <1>4 DEF TriggerInserts, HasFree, FreeRun
  <2>2. PICK y \in RunRecord : /\ run' = [run EXCEPT ![r] = y]
                               /\ y.pc = "idle" /\ y.job = trigger[t].job
    <3>1. [NoRun EXCEPT !.job = trigger[t].job, !.status = "queued"] \in RunRecord
      BY <1>1 DEF NoRun, RunRecord, Live
    <3> QED BY <2>1, <3>1 DEF NoRun
  <2>3. PICK z \in TriggerRecord : /\ trigger' = [trigger EXCEPT ![t] = z]
                                   /\ z.pc = "dispatch" /\ z.run = r /\ z.job = trigger[t].job
    <3>1. [trigger[t] EXCEPT !.pc = "dispatch", !.run = r] \in TriggerRecord
      BY <1>1 DEF TriggerRecord
    <3> QED BY <1>1, <2>1, <3>1 DEF TriggerRecord, TypeOK
  <2>4. r \in Runs /\ r \notin ScheduledRuns /\ ScheduledRuns \subseteq Runs
    BY JobsAssumption DEF Runs
  <2>5. run'[r] = y /\ \A q \in Runs : q # r => run'[q] = run[q]
    BY <1>1, <2>2, <2>4 DEF TypeOK
  <2>6. trigger'[t] = z /\ \A u \in Triggers : u # t => trigger'[u] = trigger[u]
    BY <1>1, <2>3 DEF TypeOK
  <2>7. run[r].pc = "idle" /\ \A u \in Triggers : trigger[u].run # r
    BY <2>1 DEF Referred
  <2>8. TypeOK'
    BY <1>1, <1>2, <2>2, <2>3 DEF TypeOK
  <2>9. RunsOK'
    BY <1>1, <2>2, <2>3, <2>5, <2>6, <2>7 DEF RunsOK, Dispatching
  <2>10. TriggersOK'
    BY <1>1, <2>2, <2>3, <2>5, <2>6, <2>7 DEF TriggersOK, Dispatching
  <2>11. InFlightScheduled' = InFlightScheduled /\ Within'
    BY <2>4, <2>5 DEF Inv, InFlightScheduled, InFlight, Within, WithinLimit
  <2>12. MarksHeld' /\ OnlyWhileAwaited' /\ ScheduledOnce'
    BY <1>2, <2>2, <2>4, <2>5, <2>7, <2>11
       DEF Inv, MarksHeld, InFlight, OnlyWhileAwaited, ScheduledOnce
  <2> QED BY <2>8, <2>9, <2>10, <2>11, <2>12 DEF Inv
<1> QED BY <1>3, <1>4 DEF TriggerInserts

LEMMA DispatchManualRunInv ==
    ASSUME Inv, NEW t \in Triggers, DispatchManualRun(t) PROVE Inv'
<1> DEFINE r == trigger[t].run
<1>1. /\ TypeOK /\ RunsOK /\ TriggersOK /\ trigger[t] \in TriggerRecord
      /\ trigger[t].pc = "dispatch" /\ trigger[t].job \in Jobs
  BY DEF Inv, TypeOK, TriggersOK, DispatchManualRun
<1>2. /\ r \in ManualRuns /\ r \in Runs /\ r \notin ScheduledRuns /\ ScheduledRuns \subseteq Runs
      /\ run[r].pc = "idle" /\ run[r].job = trigger[t].job /\ run[r] \in RunRecord
  BY <1>1, JobsAssumption DEF TriggersOK, Dispatching, Runs, TypeOK
<1>3. PICK y \in RunRecord : /\ run' = [run EXCEPT ![r] = y]
                             /\ y.pc = "call" /\ y.job = trigger[t].job
  <2>1. [run[r] EXCEPT !.pc = "call", !.status = "running"] \in RunRecord
    BY <1>2 DEF RunRecord, Live
  <2> QED BY <1>1, <1>2, <2>1 DEF DispatchManualRun, TypeOK, RunRecord
<1>4. NoTrigger \in TriggerRecord /\ NoTrigger.pc = "idle"
  BY DEF NoTrigger, NoJob, TriggerRecord
<1>5. /\ trigger' = [trigger EXCEPT ![t] = NoTrigger] /\ activeJobs' = activeJobs \cup {trigger[t].job}
      /\ UNCHANGED <<job, tick, worker, plugin, orphans>>
  BY DEF DispatchManualRun
<1>6. run'[r] = y /\ \A q \in Runs : q # r => run'[q] = run[q]
  BY <1>1, <1>2, <1>3 DEF TypeOK
<1>7. trigger'[t] = NoTrigger /\ \A u \in Triggers : u # t => trigger'[u] = trigger[u]
  BY <1>1, <1>5 DEF TypeOK
<1>8. TypeOK'
  BY <1>1, <1>3, <1>4, <1>5 DEF TypeOK
<1>9. \A u \in Triggers : u # t /\ trigger[u].pc = "dispatch" => trigger[u].run # r
  BY <1>1, <1>2 DEF TriggersOK, Dispatching
<1>10. RunsOK'
  BY <1>1, <1>3, <1>6, <1>7 DEF RunsOK, Dispatching
<1>11. TriggersOK'
  BY <1>1, <1>4, <1>6, <1>7, <1>9 DEF TriggersOK, Dispatching
<1>12. InFlightScheduled' = InFlightScheduled /\ Within'
  BY <1>2, <1>6 DEF Inv, InFlightScheduled, InFlight, Within, WithinLimit
<1>13. MarksHeld'
  BY <1>2, <1>3, <1>5, <1>6 DEF Inv, MarksHeld, InFlight
<1>14. OnlyWhileAwaited' /\ ScheduledOnce'
  BY <1>2, <1>5, <1>6, <1>12 DEF Inv, OnlyWhileAwaited, ScheduledOnce
<1> QED BY <1>8, <1>10, <1>11, <1>12, <1>13, <1>14 DEF Inv

(* Nothing is in progress when the server starts.                            *)
LEMMA NothingInProgress ==
    ASSUME TypeOK, run = [r \in Runs |-> NoRun], activeJobs = {},
           tick = IdleTick, trigger = [t \in Triggers |-> NoTrigger]
    PROVE  Inv
<1>1. ScheduledRuns \subseteq Runs
  BY DEF Runs
<1>2. /\ NoRun.pc = "idle" /\ NoRun.status \notin Live
      /\ NoTrigger.pc = "idle"
  BY DEF NoRun, NoTrigger, NoJob, Live
<1>3. InFlightScheduled = {}
  BY <1>1, <1>2 DEF InFlightScheduled, InFlight
<1>4. Within
  <2>1. IsFiniteSet({}) /\ Cardinality({}) = 0
    BY FS_EmptySet
  <2> QED BY <1>3, <2>1, JobsAssumption DEF Within, WithinLimit, InFlightScheduled
<1>5. RunsOK /\ TriggersOK /\ MarksHeld /\ OnlyWhileAwaited
  BY <1>2, <1>3 DEF RunsOK, TriggersOK, MarksHeld, OnlyWhileAwaited, Dispatching
<1>6. ScheduledOnce
  BY <1>1, <1>2 DEF ScheduledOnce
<1> QED BY <1>4, <1>5, <1>6 DEF Inv

LEMMA RestartInv == ASSUME Inv, Restart PROVE Inv'
<1>1. TypeOK'
  <2>1. NoRun \in RunRecord /\ NoTrigger \in TriggerRecord
    BY DEF NoRun, NoTrigger, NoJob, RunRecord, TriggerRecord
  <2>2. plugin' \in PluginRecord
    BY DEF Inv, TypeOK, Restart, PluginRecord
  <2>3. tick' \in [pc : {"idle", "loop", "await"}, due : SUBSET Jobs]
    BY DEF Restart, IdleTick
  <2>4. /\ run' \in [Runs -> RunRecord] /\ trigger' \in [Triggers -> TriggerRecord]
        /\ worker' \in BOOLEAN /\ activeJobs' \subseteq Jobs /\ orphans' \subseteq Jobs /\ job' = job
    BY <2>1 DEF Restart
  <2> QED BY <2>2, <2>3, <2>4 DEF Inv, TypeOK
<1>2. /\ run' = [r \in Runs |-> NoRun] /\ activeJobs' = {}
      /\ tick' = IdleTick /\ trigger' = [t \in Triggers |-> NoTrigger]
  BY DEF Restart
<1>3. ScheduledRuns \subseteq Runs
  BY DEF Runs
<1>4. NoRun.pc = "idle" /\ NoRun.status \notin Live /\ NoTrigger.pc = "idle"
  BY DEF NoRun, NoTrigger, NoJob, Live
<1>5. InFlightScheduled' = {}
  BY <1>2, <1>3, <1>4 DEF InFlightScheduled, InFlight
<1>6. Within'
  <2>1. IsFiniteSet({}) /\ Cardinality({}) = 0
    BY FS_EmptySet
  <2>2. IsFiniteSet(InFlightScheduled') /\ Cardinality(InFlightScheduled') <= MaxConcurrentJobs
    BY <1>5, <2>1, JobsAssumption
  <2> QED BY <2>2 DEF Within, WithinLimit, InFlightScheduled
<1>7. RunsOK' /\ TriggersOK' /\ MarksHeld' /\ OnlyWhileAwaited'
  BY <1>2, <1>4, <1>5 DEF RunsOK, TriggersOK, MarksHeld, OnlyWhileAwaited, Dispatching
<1>8. ScheduledOnce'
  BY <1>2, <1>3, <1>4 DEF ScheduledOnce
<1> QED BY <1>1, <1>6, <1>7, <1>8 DEF Inv

-----------------------------------------------------------------------------
LEMMA InitInv == Init => Inv
<1>1. SUFFICES ASSUME Init PROVE Inv
  OBVIOUS
<1>2. TypeOK
  <2>1. NoRun \in RunRecord /\ NoTrigger \in TriggerRecord
    BY DEF NoRun, NoTrigger, NoJob, RunRecord, TriggerRecord
  <2> QED BY <1>1, <2>1, JobsAssumption DEF Init, TypeOK, IdleTick, PluginRecord
<1> QED BY <1>1, <1>2, NothingInProgress DEF Init

LEMMA NextInv == Inv /\ [Next]_vars => Inv'
<1> SUFFICES ASSUME Inv, [Next]_vars PROVE Inv'
  OBVIOUS
<1>1. CASE Tick
  BY <1>1, TickSelectInv, TickLoopInv, TickEndInv DEF Tick
<1>2. CASE PluginStep
  BY <1>2, OtherCalm, CancelRunCalm, WorkerEndCalm, CalmInv DEF PluginStep
<1>3. CASE Environment
  BY <1>3, OtherCalm, WorkerEndCalm, CalmInv, TriggerJobInv, RestartInv DEF Environment
<1>4. CASE \E r \in Runs : Dispatch(r)
  BY <1>4, DispatchCalm, CalmInv, FinishInv DEF Dispatch
<1>5. CASE \E t \in Triggers : TriggerStep(t)
  BY <1>5, TriggerInsertsInv, DispatchManualRunInv DEF TriggerStep
<1>6. CASE UNCHANGED vars
  <2>1. Calm
    BY <1>6 DEF Calm, vars, Inv, TypeOK, RunsOK
  <2> QED BY <2>1, CalmInv
<1> QED BY <1>1, <1>2, <1>3, <1>4, <1>5, <1>6 DEF Next

THEOREM Invariance == Spec => []Inv
  BY InitInv, NextInv, PTL DEF Spec

(* Rows, requests and marks are well typed.                                  *)
THEOREM TypeCorrect == Spec => []TypeOK
<1>1. Inv => TypeOK
  BY DEF Inv
<1> QED BY <1>1, Invariance, PTL

(* The tick runs no job twice at once, whatever marks an unloading or a      *)
(* manual run has taken away (tickInProgress).                               *)
THEOREM TickRunsJobOnce == Spec => []ScheduledOnce
<1>1. Inv => ScheduledOnce
  BY DEF Inv
<1> QED BY <1>1, Invariance, PTL

(* The tick keeps within maxConcurrentJobs.                                  *)
THEOREM TickKeepsLimit == Spec => []WithinLimit
<1>1. Inv => WithinLimit
  BY DEF Inv, Within
<1> QED BY <1>1, Invariance, PTL

(* No failure, unloading, crash of the worker or restart strands a row, or   *)
(* keeps a mark that blocks its job.                                         *)
THEOREM NothingStranded == Spec => []WorkHasDispatch
<1>1. Inv => WorkHasDispatch
  BY DEF Inv, WorkHasDispatch, RowHasDispatch, RunsOK, Dispatching, MarksHeld
<1> QED BY <1>1, Invariance, PTL
=============================================================================
