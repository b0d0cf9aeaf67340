----------------------------- MODULE PluginJobs -----------------------------
(***************************************************************************)
(* The job scheduler of one plugin: plugin-job-scheduler.ts over the rows   *)
(* of plugin-job-store.ts, with the activation and the unloading of the     *)
(* plugin (plugin-loader.ts) that register and unregister its jobs.         *)
(*                                                                          *)
(* A step is what runs up to an await, with the statement awaited.  A run   *)
(* number stands for a row of plugin_job_runs and for the dispatch that     *)
(* works on it; a terminal row nobody works on is forgotten, and its number *)
(* is used again.  Of the worker (PluginWorkers) only isRunning is kept: its end    *)
(* rejects the calls in flight.                                             *)
(***************************************************************************)
EXTENDS Naturals, FiniteSets

CONSTANTS
    Jobs,              \* keys of jobs the plugin's manifests declare
    ScheduledRuns,     \* bound: runs the tick may have at a time
    ManualRuns,        \* bound: runs triggered by hand at a time
    Triggers,          \* requests of the trigger route, at a time
    MaxConcurrentJobs, \* maxConcurrentJobs
    Manifests          \* the sets of jobs a version of the plugin may declare

ASSUME JobsAssumption ==
    /\ IsFiniteSet(Jobs) /\ Manifests \subseteq SUBSET Jobs
    /\ MaxConcurrentJobs \in Nat \ {0}
    /\ ScheduledRuns \cap ManualRuns = {}
    /\ "none" \notin Jobs

Runs == ScheduledRuns \cup ManualRuns

VARIABLES
    job,         \* plugin_jobs: status, and where next_run_at is from now
    run,         \* plugin_job_runs, each with its dispatch
    activeJobs,  \* the scheduler's set, for overlap prevention
    tick,        \* the tick in progress and the due jobs it has selected
    trigger,     \* the trigger requests in progress
    worker,      \* workerManager.isRunning
    plugin,      \* the activation or unloading in progress
    orphans      \* jobs with a running row left by a server before

vars == <<job, run, activeJobs, tick, trigger, worker, plugin, orphans>>

NoJob == "none"
Live  == {"queued", "running"}
Final == {"succeeded", "failed", "cancelled"}

(* rejected: the worker ended during the call.                               *)
RunRecord == [pc : {"idle", "create", "mark", "call", "complete"},
              job : Jobs \cup {NoJob}, status : Live \cup Final \cup {NoJob},
              rejected : BOOLEAN]
NoRun == [pc |-> "idle", job |-> NoJob, status |-> NoJob, rejected |-> FALSE]

TriggerRecord == [pc : {"idle", "insert", "dispatch"}, job : Jobs \cup {NoJob},
                  run : ManualRuns \cup {NoJob}]
NoTrigger == [pc |-> "idle", job |-> NoJob, run |-> NoJob]

(* todo: rows still to be written; declared: the jobs of the manifest.       *)
PluginRecord == [pc : {"down", "start", "sync", "up", "cancel", "stop"},
                 todo : SUBSET (Jobs \cup Runs), declared : SUBSET Jobs]

TypeOK ==
    /\ job \in [Jobs -> [status : {"absent", "active", "paused"},
                         next : {"null", "future", "due"}]]
    /\ run \in [Runs -> RunRecord]
    /\ activeJobs \subseteq Jobs
    /\ tick \in [pc : {"idle", "loop", "await"}, due : SUBSET Jobs]
    /\ trigger \in [Triggers -> TriggerRecord]
    /\ worker \in BOOLEAN
    /\ plugin \in PluginRecord
    /\ orphans \subseteq Jobs

IdleTick == [pc |-> "idle", due |-> {}]

(* The server starts with a ready plugin that has never run a job.           *)
Init ==
    /\ job = [j \in Jobs |-> [status |-> "absent", next |-> "null"]]
    /\ run = [r \in Runs |-> NoRun]
    /\ activeJobs = {}
    /\ tick = IdleTick
    /\ trigger = [t \in Triggers |-> NoTrigger]
    /\ worker = FALSE
    /\ plugin \in [pc : {"start"}, todo : {{}}, declared : Manifests]
    /\ orphans = {}

-----------------------------------------------------------------------------
(* Time passes: next_run_at of a job is reached.  A paused job's may be seen *)
(* to be reached once it is active again.                                    *)
TimePasses(j) ==
    /\ job[j].status = "active" /\ job[j].next = "future"
    /\ job' = [job EXCEPT ![j].next = "due"]
    /\ UNCHANGED <<run, activeJobs, tick, trigger, worker, plugin, orphans>>

(* A run number nobody refers to.                                            *)
Referred(r) == \/ run[r].pc # "idle" \/ run[r].status \in Live \/ r \in plugin.todo
               \/ \E t \in Triggers : trigger[t].run = r
FreeRun(S)  == CHOOSE r \in S : ~Referred(r)
HasFree(S)  == \E r \in S : ~Referred(r)

(* tick: nothing while a tick is in progress; select the due jobs.           *)
TickSelect ==
    LET due == {j \in Jobs : job[j].status = "active" /\ job[j].next = "due"} IN
    /\ tick.pc = "idle" /\ due # {}
    /\ tick' = [pc |-> "loop", due |-> due]
    /\ UNCHANGED <<job, run, activeJobs, trigger, worker, plugin, orphans>>

(* The loop over the rows, in the order the database returns them, takes as  *)
(* many as the limit allows of those that may be dispatched.                 *)
NoLimit(S) == Cardinality(S)
Capacity(S) ==
    LET room == IF Cardinality(activeJobs) >= MaxConcurrentJobs THEN 0
                ELSE MaxConcurrentJobs - Cardinality(activeJobs) IN
    IF Cardinality(S) < room THEN Cardinality(S) ELSE room

(* A run number for each job of S; the bound must leave enough of them.      *)
Slots(S) == {f \in [S -> {r \in ScheduledRuns : ~Referred(r)}] :
                 \A i, j \in S : f[i] = f[j] => i = j}

TickLoop ==
    LET may == IF worker THEN tick.due \ activeJobs ELSE {} IN
    /\ tick.pc = "loop"
    /\ \E S \in SUBSET may :
         /\ Cardinality(S) = Capacity(may) /\ Slots(S) # {}
         /\ activeJobs' = activeJobs \cup S
         /\ LET slot == CHOOSE f \in Slots(S) : TRUE IN
            run' = [r \in Runs |->
                       IF \E j \in S : slot[j] = r
                       THEN [NoRun EXCEPT !.pc = "create",
                                          !.job = CHOOSE j \in S : slot[j] = r]
                       ELSE run[r]]
    /\ tick' = [pc |-> "await", due |-> {}]
    /\ UNCHANGED <<job, trigger, worker, plugin, orphans>>

(* Promise.allSettled over the dispatches of this tick.                      *)
AwaitNothing == TRUE
DispatchesSettled == \A r \in ScheduledRuns : run[r].pc = "idle"

TickEnd ==
    /\ tick.pc = "await" /\ DispatchesSettled
    /\ tick' = IdleTick
    /\ UNCHANGED <<job, run, activeJobs, trigger, worker, plugin, orphans>>

-----------------------------------------------------------------------------
(* dispatchJob and dispatchManualRun: the latter's row exists already, and   *)
(* the schedule pointer is not advanced.                                     *)
CreateRun(r) ==
    /\ run[r].pc = "create"
    /\ run' = [run EXCEPT ![r].pc = "mark", ![r].status = "queued"]
    /\ UNCHANGED <<job, activeJobs, tick, trigger, worker, plugin, orphans>>

(* markRunning, by id; then the worker is called.                            *)
MarkRunning(r) ==
    /\ run[r].pc = "mark"
    /\ run' = [run EXCEPT ![r].pc = "call", ![r].status = "running"]
    /\ UNCHANGED <<job, activeJobs, tick, trigger, worker, plugin, orphans>>

(* The worker answers, fails or times out, and completeRun writes the row by *)
(* id, whatever it has become.  A call that found no worker, or whose worker *)
(* ended, has failed.                                                        *)
Unanswered(r) == IF run[r].rejected \/ ~worker THEN {} ELSE {"succeeded", "failed"}
Answers(r) == IF run[r].rejected \/ ~worker THEN {"failed"} ELSE {"succeeded", "failed"}
OnlySuccess(r, answer) == IF answer = "succeeded" THEN answer ELSE run[r].status
Outcome(r, answer) == answer

CompleteRun(r) ==
    /\ run[r].pc = "call"
    /\ \E answer \in Answers(r) :
           run' = [run EXCEPT ![r].pc = "complete", ![r].status = Outcome(r, answer)]
    /\ UNCHANGED <<job, activeJobs, tick, trigger, worker, plugin, orphans>>

(* The finally block gives the mark back; the tick's dispatch then advances  *)
(* the schedule pointer.                                                     *)
Unmarked(r) == activeJobs \ {run[r].job}

Idle(r) == IF r \in plugin.todo THEN [run[r] EXCEPT !.pc = "idle", !.rejected = FALSE]
           ELSE NoRun

Finish(r) ==
    /\ run[r].pc = "complete"
    /\ activeJobs' = Unmarked(r)
    /\ run' = [run EXCEPT ![r] = Idle(r)]
    /\ job' = IF r \in ScheduledRuns THEN [job EXCEPT ![run[r].job].next = "future"]
              ELSE job
    /\ UNCHANGED <<tick, trigger, worker, plugin, orphans>>

-----------------------------------------------------------------------------
(* triggerJob: the job is active; it is not marked and has no running run;   *)
(* the worker runs: insert a run, and dispatch it in the background.         *)
HasRunningRun(j) == j \in orphans
                    \/ \E r \in Runs : run[r].job = j /\ run[r].status = "running"

TriggerJob(t, j) ==
    /\ trigger[t].pc = "idle"
    /\ job[j].status = "active" /\ j \notin activeJobs /\ ~HasRunningRun(j)
    /\ trigger' = [trigger EXCEPT ![t] = [NoTrigger EXCEPT !.pc = "insert", !.job = j]]
    /\ UNCHANGED <<job, run, activeJobs, tick, worker, plugin, orphans>>

TriggerInserts(t) ==
    /\ trigger[t].pc = "insert"
    /\ IF worker /\ HasFree(ManualRuns)
       THEN LET r == FreeRun(ManualRuns) IN
            /\ run' = [run EXCEPT ![r] = [NoRun EXCEPT !.job = trigger[t].job,
                                                       !.status = "queued"]]
            /\ trigger' = [trigger EXCEPT ![t].pc = "dispatch", ![t].run = r]
       ELSE trigger' = [trigger EXCEPT ![t] = NoTrigger] /\ UNCHANGED run
    /\ UNCHANGED <<job, activeJobs, tick, worker, plugin, orphans>>

DispatchManualRun(t) ==
    /\ trigger[t].pc = "dispatch"
    /\ activeJobs' = activeJobs \cup {trigger[t].job}
    /\ run' = [run EXCEPT ![trigger[t].run].pc = "call", ![trigger[t].run].status = "running"]
    /\ trigger' = [trigger EXCEPT ![t] = NoTrigger]
    /\ UNCHANGED <<job, tick, worker, plugin, orphans>>

-----------------------------------------------------------------------------
(* The calls that a dead worker cannot answer are rejected.                  *)
Rejected == [r \in Runs |-> [run[r] EXCEPT !.rejected = @ \/ run[r].pc = "call"]]

(* activatePlugin: start the worker, sync the declarations, register.  The   *)
(* manifest may be that of another version.  Nothing is synced when it       *)
(* declares no job.                                                          *)
Enable(M) ==
    /\ plugin.pc = "down"
    /\ plugin' = [pc |-> "start", todo |-> {}, declared |-> M]
    /\ UNCHANGED <<job, run, activeJobs, tick, trigger, worker, orphans>>

WorkerStarts ==
    /\ plugin.pc = "start"
    /\ worker' = TRUE
    /\ plugin' = IF plugin.declared = {} THEN [plugin EXCEPT !.pc = "up"]
                 ELSE [plugin EXCEPT !.pc = "sync",
                          !.todo = {j \in Jobs : j \in plugin.declared
                                                 \/ job[j].status = "active"}]
    /\ UNCHANGED <<job, run, activeJobs, tick, trigger, orphans>>

SyncJob(j) ==
    /\ plugin.pc = "sync" /\ j \in plugin.todo
    /\ job' = [job EXCEPT ![j].status = IF j \in plugin.declared THEN "active" ELSE "paused"]
    /\ plugin' = [plugin EXCEPT !.todo = @ \ {j}]
    /\ UNCHANGED <<run, activeJobs, tick, trigger, worker, orphans>>

(* ensureNextRunTimestamps reads the active jobs, then writes those without  *)
(* a next run in the future.                                                 *)
RegisterPlugin ==
    /\ plugin.pc = "sync" /\ plugin.todo = {}
    /\ plugin' = [plugin EXCEPT !.pc = "up",
                     !.todo = {j \in Jobs : job[j].status = "active" /\ job[j].next # "future"}]
    /\ UNCHANGED <<job, run, activeJobs, tick, trigger, worker, orphans>>

EnsureNextRun(j) ==
    /\ plugin.pc = "up" /\ j \in plugin.todo
    /\ job' = [job EXCEPT ![j].next = "future"]
    /\ plugin' = [plugin EXCEPT !.todo = @ \ {j}]
    /\ UNCHANGED <<run, activeJobs, tick, trigger, worker, orphans>>

(* unloadSingle: unregisterPlugin cancels the live runs it has read, one by  *)
(* one, orphans too, forgets the marks, and the worker is stopped.           *)
UnregisterPlugin ==
    /\ plugin.pc = "up" /\ plugin.todo = {}
    /\ plugin' = [plugin EXCEPT !.pc = "cancel",
                     !.todo = {r \in Runs : run[r].status \in Live}]
    /\ UNCHANGED <<job, run, activeJobs, tick, trigger, worker, orphans>>

CancelRun(r) ==
    /\ plugin.pc = "cancel" /\ r \in plugin.todo
    /\ run' = [run EXCEPT ![r] = IF run[r].pc = "idle" /\ ~\E t \in Triggers : trigger[t].run = r
                                 THEN NoRun ELSE [@ EXCEPT !.status = "cancelled"]]
    /\ plugin' = [plugin EXCEPT !.todo = @ \ {r}]
    /\ UNCHANGED <<job, activeJobs, tick, trigger, worker, orphans>>

ForgetMarks ==
    /\ plugin.pc = "cancel" /\ plugin.todo = {}
    /\ activeJobs' = {} /\ orphans' = {}
    /\ plugin' = [plugin EXCEPT !.pc = "stop"]
    /\ UNCHANGED <<job, run, tick, trigger, worker>>

WorkerStops ==
    /\ plugin.pc = "stop"
    /\ worker' = FALSE /\ run' = Rejected
    /\ plugin' = [plugin EXCEPT !.pc = "down"]
    /\ UNCHANGED <<job, activeJobs, tick, trigger, orphans>>

(* The worker crashes, or starts again after its backoff.                    *)
WorkerCrashes ==
    /\ worker /\ plugin.pc = "up"
    /\ worker' = FALSE /\ run' = Rejected
    /\ UNCHANGED <<job, activeJobs, tick, trigger, plugin, orphans>>

WorkerRestarts ==
    /\ ~worker /\ plugin.pc = "up"
    /\ worker' = TRUE
    /\ UNCHANGED <<job, run, activeJobs, tick, trigger, plugin, orphans>>

(* The server stops and starts: the rows stay, and loadAll activates the     *)
(* plugin unless it is disabled.                                             *)
Restart ==
    /\ orphans' = {j \in Jobs : HasRunningRun(j)}
    /\ run' = [r \in Runs |-> NoRun]
    /\ activeJobs' = {} /\ tick' = IdleTick
    /\ trigger' = [t \in Triggers |-> NoTrigger]
    /\ worker' = FALSE
    /\ plugin' = [plugin EXCEPT !.pc = IF @ = "down" THEN @ ELSE "start", !.todo = {}]
    /\ UNCHANGED job

-----------------------------------------------------------------------------
Tick == TickSelect \/ TickLoop \/ TickEnd

Dispatch(r) ==
    CreateRun(r) \/ MarkRunning(r) \/ CompleteRun(r) \/ Finish(r)

TriggerStep(t) == TriggerInserts(t) \/ DispatchManualRun(t)

PluginStep ==
    \/ WorkerStarts \/ RegisterPlugin \/ ForgetMarks \/ WorkerStops
    \/ \E j \in Jobs : SyncJob(j) \/ EnsureNextRun(j)
    \/ \E r \in Runs : CancelRun(r)

Environment ==
    \/ \E j \in Jobs : TimePasses(j) \/ \E t \in Triggers : TriggerJob(t, j)
    \/ \E M \in Manifests : Enable(M)
    \/ UnregisterPlugin \/ WorkerCrashes \/ WorkerRestarts \/ Restart

Next ==
    \/ Tick \/ PluginStep \/ Environment
    \/ \E r \in Runs : Dispatch(r)
    \/ \E t \in Triggers : TriggerStep(t)

Spec == Init /\ [][Next]_vars

(* Statements complete, a call is answered or times out (jobTimeoutMs), and  *)
(* the interval timer fires.                                                 *)
Fairness ==
    /\ WF_vars(Tick) /\ WF_vars(PluginStep)
    /\ \A r \in Runs : WF_vars(Dispatch(r))
    /\ \A t \in Triggers : WF_vars(TriggerStep(t))

FairSpec == Spec /\ Fairness

-----------------------------------------------------------------------------
InFlight(r) == run[r].pc \in {"create", "mark", "call", "complete"}

(* The tick never runs a job twice at once, although an unloading or the end *)
(* of a manual run takes the job's mark from activeJobs meanwhile            *)
(* (tickInProgress).                                                         *)
ScheduledOnce == \A r, q \in ScheduledRuns :
    r # q /\ run[r].pc # "idle" /\ run[q].pc # "idle" => run[r].job # run[q].job

(* The tick keeps within maxConcurrentJobs, whatever has been marked or      *)
(* unmarked since it selected.                                               *)
WithinLimit == Cardinality({r \in ScheduledRuns : InFlight(r)}) <= MaxConcurrentJobs

(* A queued or running row has a dispatch that will end it, unless the       *)
(* server was started since (orphans), and a mark one that gives it back:     *)
(* no failure strands a row, or keeps a job from ever running again.         *)
RowHasDispatch(r) == run[r].pc # "idle" \/ \E t \in Triggers : trigger[t].run = r
WorkHasDispatch ==
    /\ \A r \in Runs : run[r].status \in Live => RowHasDispatch(r)
    /\ \A j \in activeJobs : \E r \in Runs : InFlight(r) /\ run[r].job = j

(* No job blocks the scheduler for ever: every tick ends.                    *)
TicksEnd == (tick.pc # "idle") ~> (tick.pc = "idle")

(* A job that is due in a steady system is dispatched or rescheduled.        *)
Steady(j) == plugin.pc = "up" /\ worker /\ job[j].status = "active" /\ j \notin activeJobs
DueJobsRun == \A j \in Jobs :
    (job[j].next = "due") ~> (job[j].next # "due" \/ ~Steady(j))

(* What comments of the code say and TLC refutes (README): a terminal row is *)
(* not modified; a job does not overlap with itself; jobs that the manifest  *)
(* no longer declares are paused.                                            *)
TerminalIsFinal == [][\A r \in Runs :
    run[r].status \in Final /\ run'[r].job = run[r].job => run'[r].status = run[r].status]_vars
NoOverlap == \A r, q \in Runs :
    r # q /\ run[r].pc = "call" /\ run[q].pc = "call" => run[r].job # run[q].job
OnlyDeclaredActive == plugin.pc = "up" =>
    \A j \in Jobs : job[j].status = "active" => j \in plugin.declared
=============================================================================
