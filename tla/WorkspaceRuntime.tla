-------------------------- MODULE WorkspaceRuntime --------------------------
(***************************************************************************)
(* The runtime services of a workspace, such as a development server: runs  *)
(* lease them, a shared one is found by its reuse key, and they stop when    *)
(* the last lease ends, when idle, with their process, or with the workspace *)
(* (server/src/services/workspace-runtime.ts, as executeRun and the archive  *)
(* route call it).                                                           *)
(*                                                                          *)
(* One execution workspace.  A step is what runs up to an await, with the    *)
(* statement awaited; the await of a start is its readiness check.           *)
(***************************************************************************)
EXTENDS Naturals, FiniteSets

CONSTANTS
    Runs,        \* bound: runs at a time
    Archivers,   \* bound: archive requests at a time
    Services,    \* names of services
    Requests,    \* the lists of services that the runs' configurations ask for
    Ids,         \* bound: service records, processes and rows at a time
    MaxFailures  \* bound: statements that fail

None  == "none"
Tasks == Runs \cup Archivers

(* What a configuration says of a service; one that is not shared has no     *)
(* reuse key.                                                                *)
Config == [service : Services, shared : BOOLEAN,
           stopPolicy : {"manual", "on_run_finish", "idle_timeout"}]
NoConfig == [service |-> None, shared |-> FALSE, stopPolicy |-> "manual"]

ASSUME WorkspaceAssumption ==
    /\ Runs \cap Archivers = {} /\ None \notin Ids
    /\ Requests \subseteq SUBSET Config
    /\ MaxFailures \in Nat

VARIABLES
    record,     \* the records, with what is known of each elsewhere
    reuse,      \* runtimeServicesByReuseKey
    leases,     \* runtimeServiceLeasesByRun
    task,       \* the runs and requests in progress
    reconciles, \* whether the reconciliation at startup is still to come
    failures    \* statements that have failed

vars == <<record, reuse, leases, task, reconciles, failures>>

(* live: in runtimeServicesById; config and leasedBy mean nothing after.     *)
(* running: the status of the row, or else stopped or failed.  writing: what *)
(* nobody awaits, the write of an idle stop or of an exit.  child: the       *)
(* process is up and has not been told to stop.                              *)
ServiceRecord == [config : Config \cup {NoConfig}, live : BOOLEAN, leasedBy : SUBSET Runs,
                  idleTimer : BOOLEAN, child : BOOLEAN,
                  running : BOOLEAN, writing : {None, "idle", "exit"}]
NoRecord == [config |-> NoConfig, live |-> FALSE, leasedBy |-> {}, idleTimer |-> FALSE,
             child |-> FALSE, running |-> FALSE, writing |-> None]

(* todo: services to ensure; id: the record worked on; ids: those to release *)
(* or to stop.                                                               *)
TaskRecord == [pc : {"idle", "ensure", "starting", "acquiring", "using", "release",
                     "releasing", "stopping", "archive", "mark"},
               todo : SUBSET Config, id : Ids \cup {None}, ids : SUBSET Ids]
Idle == [pc |-> "idle", todo |-> {}, id |-> None, ids |-> {}]

TypeOK ==
    /\ record \in [Ids -> ServiceRecord]
    /\ reuse \in [Services -> Ids \cup {None}]
    /\ leases \in [Runs -> SUBSET Ids]
    /\ task \in [Tasks -> TaskRecord]
    /\ reconciles \in BOOLEAN
    /\ failures \in 0 .. MaxFailures

Init ==
    /\ record = [x \in Ids |-> NoRecord]
    /\ reuse = [s \in Services |-> None]
    /\ leases = [r \in Runs |-> {}]
    /\ task = [t \in Tasks |-> Idle]
    /\ reconciles = FALSE
    /\ failures = 0

At(t, pc) == task[t].pc = pc
Fails     == failures < MaxFailures /\ failures' = failures + 1

(* Ids that nothing refers to are used again.                                *)
Referred(x) ==
    \/ record[x].live \/ record[x].writing # None
    \/ \E r \in Runs : x \in leases[r]
    \/ \E t \in Tasks : task[t].id = x \/ x \in task[t].ids
Free == {x \in Ids : ~Referred(x)}

-----------------------------------------------------------------------------
(* What runs without an await when a service stops: stopRuntimeService.      *)
Stopped(x) == [NoRecord EXCEPT !.running = record[x].running]
Names(x, s)  == record[x].config.shared /\ record[x].config.service = s
Forgotten(x) == [s \in Services |-> IF Names(x, s) THEN None ELSE reuse[s]]

(* The next statement of a task puts the status in the row.                  *)
Wrote(x, running) == [record EXCEPT ![x].running = running]
Goto(t, pc)      == task' = [task EXCEPT ![t].pc = pc]

(* A run that ends, or whose ensureRuntimeServicesForRun throws, releases.   *)
ToRelease(r) ==
    /\ task' = [task EXCEPT ![r] = [Idle EXCEPT !.pc = "release", !.ids = leases[r]]]
    /\ leases' = [leases EXCEPT ![r] = {}]

-----------------------------------------------------------------------------
(* ensureRuntimeServicesForRun.  The id of a run is not used again while a   *)
(* lease is still in its name.                                               *)
EnsureBegin(r) ==
    /\ At(r, "idle") /\ \A x \in Ids : r \notin record[x].leasedBy
    /\ \E wanted \in Requests :
           task' = [task EXCEPT ![r] = [Idle EXCEPT !.pc = "ensure", !.todo = wanted]]
    /\ leases' = [leases EXCEPT ![r] = {}]
    /\ UNCHANGED <<record, reuse, reconciles, failures>>

Reusable(c) == c.shared /\ reuse[c.service] # None /\ record[reuse[c.service]].live

LeasedTimed(x, r) == [record EXCEPT ![x].leasedBy = @ \cup {r}]
Leased(x, r)      == [record EXCEPT ![x].leasedBy = @ \cup {r}, ![x].idleTimer = FALSE]

Reuse(r, c) ==
    LET x == reuse[c.service] IN
    /\ At(r, "ensure") /\ c \in task[r].todo /\ Reusable(c)
    /\ record' = Leased(x, r)
    /\ task' = [task EXCEPT ![r].todo = @ \ {c}, ![r].id = x, ![r].pc = "acquiring"]
    /\ UNCHANGED <<reuse, leases, reconciles, failures>>

(* startLocalRuntimeService: the process is up, but nobody else knows of it. *)
Start(r, c) ==
    /\ At(r, "ensure") /\ c \in task[r].todo /\ ~Reusable(c) /\ Free # {}
    /\ LET x == CHOOSE x \in Free : TRUE IN
       /\ record' = [record EXCEPT ![x] = [NoRecord EXCEPT !.config = c, !.child = TRUE]]
       /\ task' = [task EXCEPT ![r].todo = @ \ {c}, ![r].id = x, ![r].pc = "starting"]
    /\ UNCHANGED <<reuse, leases, reconciles, failures>>

NotReady(r) ==
    LET x == task[r].id IN
    /\ At(r, "starting")
    /\ record' = [record EXCEPT ![x].child = FALSE]
    /\ ToRelease(r)
    /\ UNCHANGED <<reuse, reconciles, failures>>

(* registerRuntimeService.  The URL may have answered for another process.   *)
Ready(r) ==
    LET x == task[r].id IN
    /\ At(r, "starting")
    /\ record' = [record EXCEPT ![x].live = TRUE, ![x].leasedBy = {r}]
    /\ reuse' = [s \in Services |-> IF Names(x, s) THEN x ELSE reuse[s]]
    /\ Goto(r, "acquiring")
    /\ UNCHANGED <<leases, reconciles, failures>>

(* persistRuntimeServiceRecord, and only then the run's own list.            *)
Unlisted(r) == leases[r]
Listed(r)   == leases[r] \cup {task[r].id}

Acquired(r) ==
    /\ At(r, "acquiring")
    /\ record' = Wrote(task[r].id, TRUE)
    /\ leases' = [leases EXCEPT ![r] = Listed(r)]
    /\ task' = [task EXCEPT ![r].id = None, ![r].pc = "ensure"]
    /\ UNCHANGED <<reuse, reconciles, failures>>

AcquireFails(r) ==
    /\ At(r, "acquiring") /\ Fails
    /\ ToRelease(r)
    /\ UNCHANGED <<record, reuse, reconciles>>

EnsureEnd(r) ==
    /\ At(r, "ensure") /\ task[r].todo = {}
    /\ Goto(r, "using")
    /\ UNCHANGED <<record, reuse, leases, reconciles, failures>>

(* executeRun comes to its finally.                                          *)
UseEnd(r) ==
    /\ At(r, "using")
    /\ ToRelease(r)
    /\ UNCHANGED <<record, reuse, reconciles, failures>>

-----------------------------------------------------------------------------
(* releaseRuntimeServicesForRun: take back the lease and persist, ...        *)
Release(r) ==
    /\ At(r, "release")
    /\ \/ /\ task[r].ids = {}
          /\ task' = [task EXCEPT ![r] = Idle]
          /\ UNCHANGED record
       \/ \E x \in task[r].ids :
             /\ record' = [record EXCEPT ![x].leasedBy = @ \ {r}]
             /\ task' = [task EXCEPT ![r].ids = @ \ {x},
                            ![r].id = IF record[x].live THEN x ELSE None,
                            ![r].pc = IF record[x].live THEN "releasing" ELSE "release"]
    /\ UNCHANGED <<reuse, leases, reconciles, failures>>

(* ... then see whether that was the last one.  A record that is not live    *)
(* any more is not stopped again.                                            *)
OnRunFinish(x) == ~record[x].config.shared \/ record[x].config.stopPolicy = "on_run_finish"
LeasedOnce(x)  == record[x].live /\ Cardinality(record[x].leasedBy) = 1
Unleased(x)    == record[x].live /\ record[x].leasedBy = {}

Released(r) ==
    LET x == task[r].id IN
    /\ At(r, "releasing")
    /\ IF Unleased(x) /\ OnRunFinish(x)
       THEN /\ record' = [record EXCEPT ![x] = [Stopped(x) EXCEPT !.running = TRUE]]
            /\ reuse' = Forgotten(x)
            /\ Goto(r, "stopping")
       ELSE /\ record' = [Wrote(x, TRUE) EXCEPT ![x].idleTimer =
                   IF Unleased(x) THEN record[x].config.stopPolicy = "idle_timeout" ELSE @]
            /\ task' = [task EXCEPT ![r].id = None, ![r].pc = "release"]
            /\ UNCHANGED reuse
    /\ UNCHANGED <<leases, reconciles, failures>>

(* A statement that fails ends the loop; executeRun ignores the error.       *)
ReleaseFails(r) ==
    /\ At(r, "releasing") /\ Fails
    /\ task' = [task EXCEPT ![r] = Idle]
    /\ UNCHANGED <<record, reuse, leases, reconciles>>

(* The end of stopRuntimeService, in a release or in an archive request.     *)
StopWrites(t) ==
    /\ At(t, "stopping")
    /\ record' = Wrote(task[t].id, FALSE)
    /\ task' = [task EXCEPT ![t].id = None, ![t].pc = IF t \in Runs THEN "release" ELSE "archive"]
    /\ UNCHANGED <<reuse, leases, reconciles, failures>>

StopFails(t) ==
    /\ At(t, "stopping") /\ Fails
    /\ task' = [task EXCEPT ![t] = Idle]
    /\ UNCHANGED <<record, reuse, leases, reconciles>>

-----------------------------------------------------------------------------
(* The timer of scheduleIdleStop.                                            *)
IdleStop(x) ==
    /\ record[x].idleTimer
    /\ record' = [record EXCEPT ![x] = [Stopped(x) EXCEPT !.writing = "idle"]]
    /\ reuse' = Forgotten(x)
    /\ UNCHANGED <<leases, task, reconciles, failures>>

(* A process exits; the handler is in place once the record is live.         *)
Unmapped(x) == reuse
Unkeyed(x)  == [s \in Services |-> IF reuse[s] = x THEN None ELSE reuse[s]]

ChildExits(x) ==
    /\ record[x].child
    /\ record' = [record EXCEPT ![x] =
           IF record[x].live THEN [Stopped(x) EXCEPT !.writing = "exit"]
           ELSE [@ EXCEPT !.child = FALSE]]
    /\ reuse' = IF record[x].live THEN Unkeyed(x) ELSE reuse
    /\ UNCHANGED <<leases, task, reconciles, failures>>

(* The write nobody awaits.  If that of an exit fails, the rejection ends    *)
(* the server (Restart); that of an idle stop is ignored.                    *)
WriteDone(x) ==
    /\ record[x].writing # None
    /\ record' = [record EXCEPT ![x].running = FALSE, ![x].writing = None]
    /\ UNCHANGED <<reuse, leases, task, reconciles, failures>>

WriteFails(x) ==
    /\ record[x].writing = "idle" /\ Fails
    /\ record' = [record EXCEPT ![x].writing = None]
    /\ UNCHANGED <<reuse, leases, task, reconciles>>

-----------------------------------------------------------------------------
(* stopRuntimeServicesForExecutionWorkspace: those known now, one by one,    *)
(* and then every row.                                                       *)
Archive(a) ==
    /\ At(a, "idle")
    /\ task' = [task EXCEPT ![a] = [Idle EXCEPT !.pc = "archive",
                                       !.ids = {x \in Ids : record[x].live}]]
    /\ UNCHANGED <<record, reuse, leases, reconciles, failures>>

ArchiveStops(a, x) ==
    /\ At(a, "archive") /\ x \in task[a].ids
    /\ IF record[x].live
       THEN /\ record' = [record EXCEPT ![x] = Stopped(x)]
            /\ reuse' = Forgotten(x)
            /\ task' = [task EXCEPT ![a].ids = @ \ {x}, ![a].id = x, ![a].pc = "stopping"]
       ELSE /\ task' = [task EXCEPT ![a].ids = @ \ {x}]
            /\ UNCHANGED <<record, reuse>>
    /\ UNCHANGED <<leases, reconciles, failures>>

Marked == [x \in Ids |-> [record[x] EXCEPT !.running = FALSE]]

ArchiveMarks(a) ==
    /\ At(a, "archive") /\ task[a].ids = {}
    /\ record' = Marked
    /\ task' = [task EXCEPT ![a] = Idle]
    /\ UNCHANGED <<reuse, leases, reconciles, failures>>

ArchiveFails(a) ==
    /\ At(a, "archive") /\ task[a].ids = {} /\ Fails
    /\ task' = [task EXCEPT ![a] = Idle]
    /\ UNCHANGED <<record, reuse, leases, reconciles>>

(* The server stops and starts again; the processes, detached from it, live  *)
(* on where nobody finds them.                                               *)
Restart ==
    /\ record' = [x \in Ids |-> Stopped(x)]
    /\ reuse' = [s \in Services |-> None]
    /\ leases' = [r \in Runs |-> {}]
    /\ task' = [t \in Tasks |-> Idle]
    /\ reconciles' = TRUE
    /\ UNCHANGED failures

(* reconcilePersistedRuntimeServicesOnStartup, which nobody awaits.          *)
Reconcile ==
    /\ reconciles
    /\ \/ record' = Marked /\ UNCHANGED failures
       \/ Fails /\ UNCHANGED record
    /\ reconciles' = FALSE
    /\ UNCHANGED <<reuse, leases, task>>

-----------------------------------------------------------------------------
Ensure(r) ==
    \/ EnsureBegin(r) \/ (\E c \in Config : Reuse(r, c) \/ Start(r, c))
    \/ NotReady(r) \/ Ready(r) \/ Acquired(r) \/ AcquireFails(r) \/ EnsureEnd(r)

Releasing(r) == Release(r) \/ Released(r) \/ StopWrites(r)

Archiving(a) ==
    \/ Archive(a) \/ (\E x \in Ids : ArchiveStops(a, x)) \/ StopWrites(a)
    \/ ArchiveMarks(a) \/ ArchiveFails(a) \/ StopFails(a)

Background(x) == IdleStop(x) \/ ChildExits(x) \/ WriteDone(x) \/ WriteFails(x)

Next ==
    \/ \E r \in Runs : Ensure(r) \/ UseEnd(r) \/ Releasing(r) \/ ReleaseFails(r) \/ StopFails(r)
    \/ \E a \in Archivers : Archiving(a)
    \/ \E x \in Ids : Background(x)
    \/ Restart \/ Reconcile

Spec == Init /\ [][Next]_vars

(* Statements settle and timers fire.                                        *)
Fairness == (\A r \in Runs : WF_vars(Releasing(r))) /\ (\A x \in Ids : WF_vars(IdleStop(x)))

FairSpec == Spec /\ Fairness

-----------------------------------------------------------------------------
(* A service that a run has leased is stopped by nothing but its own exit    *)
(* and the archive of its workspace: neither by its timer nor by another run *)
(* that releases it, whatever happens during their awaits.                   *)
LeasedIsSpared == [][\A x \in Ids :
    record[x].live /\ record[x].leasedBy # {} /\ ~record'[x].live =>
        ChildExits(x) \/ (\E a \in Archivers : ArchiveStops(a, x)) \/ Restart]_vars

(* A run that is over has no lease, so it does not keep a service up; unless *)
(* a statement has failed.                                                   *)
LeasesEnd == failures = 0 => \A x \in Ids : \A r \in record[x].leasedBy : ~At(r, "idle")

(* A reuse key leads to a live service of that name, so it never makes a run *)
(* miss one or wait for one that is gone.                                    *)
KeyIsLive == \A s \in Services : reuse[s] # None =>
    record[reuse[s]].live /\ Names(reuse[s], s)

(* A service that no run has leased stops, or is leased again, unless its    *)
(* policy is to stop it by hand or a statement has failed.                   *)
Unused(x) == record[x].live /\ record[x].leasedBy = {}
             /\ (OnRunFinish(x) \/ record[x].config.stopPolicy = "idle_timeout")
UnusedStops == \A x \in Ids : Unused(x) ~> ~Unused(x) \/ failures > 0

(* TLC refutes these (README).                                               *)
(* A shared service is live once; its key is never lost.                     *)
SharedOnce == \A x, y \in Ids : \A s \in Services :
    record[x].live /\ record[y].live /\ Names(x, s) /\ Names(y, s) => x = y
KeyIsFound == \A x \in Ids : \A s \in Services :
    record[x].live /\ Names(x, s) => reuse[s] # None
(* A live service has a process; a run has its services.                     *)
LiveHasChild == \A x \in Ids : record[x].live => record[x].child
(* Once nothing is in progress, the rows say what runs.                      *)
Quiet == ~reconciles /\ (\A t \in Tasks : task[t].pc \in {"idle", "using"})
         /\ \A x \in Ids : record[x].writing = None
RowIsAccurate == Quiet => \A x \in Ids : record[x].running = record[x].live
(* An archived workspace has no service left.                                *)
ArchiveStopsAll == [][\A a \in Archivers : ArchiveMarks(a) => \A x \in Ids :
    ~record[x].child]_vars
=============================================================================
