--------------------------- MODULE PluginWorkers ---------------------------
(***************************************************************************)
(* The worker processes of one plugin: the handle and the manager of        *)
(* server/src/services/plugin-worker-manager.ts.                            *)
(*                                                                          *)
(* A task is a call in progress.  A handle's number is also the task of its *)
(* backoff timer; operators run lifecycle operations (PluginLifecycle);     *)
(* callers send one RPC call each.  Node.js runs every continuation whose   *)
(* await has settled before it takes the next event, so an event (an exit,  *)
(* an answer, a timer) happens only in a Quiet state.  Numbers of handles   *)
(* and processes are reused once nothing refers to them.                    *)
(***************************************************************************)
EXTENDS Naturals, FiniteSets

CONSTANTS
    Operators,      \* concurrent lifecycle requests
    Callers,        \* bound: RPC calls, one each
    MaxHandles,     \* bound: handles that exist at a time
    MaxProcesses,   \* bound: processes that exist at a time
    MaxConsecutive, \* MAX_CONSECUTIVE_CRASHES
    WindowPasses    \* whether CRASH_WINDOW_MS may pass between two crashes

Handles   == 1 .. MaxHandles
Processes == 1 .. MaxProcesses
Tasks     == Handles \cup Operators \cup Callers
None      == 0

ASSUME WorkersAssumption ==
    /\ MaxHandles \in Nat \ {0} /\ MaxProcesses \in Nat \ {0}
    /\ MaxConsecutive \in Nat /\ WindowPasses \in BOOLEAN
    /\ Operators \cap Callers = {}
    /\ \A t \in Operators \cup Callers : t \notin Nat

VARIABLES
    workers,  \* the manager's map: the registered handle, or None
    handle,   \* the handles' closures
    proc,     \* the operating system's processes, and the requests they have
    task      \* the calls in progress

workerVars == <<workers, handle, proc, task>>

Statuses == {"stopped", "starting", "running", "stopping", "crashed", "backoff"}

(* timer: backoffTimer is set.                                               *)
HandleRecord == [status : Statuses, child : Processes \cup {None},
                 crashes : 0 .. MaxConsecutive + 1, timer : BOOLEAN,
                 intentional : BOOLEAN]
NewHandle == [status |-> "stopped", child |-> None, crashes |-> 0, timer |-> FALSE,
              intentional |-> FALSE]

(* inbox: requests the process has received and not answered.                *)
ProcessRecord == [of : Handles \cup {None}, state : {"free", "up", "killed"},
                  inbox : SUBSET Tasks]
FreeProcess == [of |-> None, state |-> "free", inbox |-> {}]

RpcPCs  == {"init", "shutdown", "calling"}                   \* a pending request
WaitPCs == {"shutdown", "linger", "term", "kill", "killing"} \* once("exit")
PCs     == RpcPCs \cup WaitPCs \cup
           {"idle", "started", "failed", "stopped",          \* start or stop returned
            "read", "deactivate", "write", "load", "start", "join", "register"}
Replies == {"none", "ok", "fail", "exit", "expired"}
Ops     == {"none", "install", "load", "enable", "disable", "unload",
            "upgrade", "restart", "markError"}
Plugins == {"installed", "ready", "disabled", "error", "upgrade_pending",
            "uninstalled"}

(* pid: the process asked or awaited; reply: how the await settled; op and   *)
(* seen: the lifecycle operation and the plugin's status as it was read.     *)
TaskRecord == [pc : PCs, op : Ops, h : Handles \cup {None},
               pid : Processes \cup {None}, reply : Replies,
               seen : Plugins \cup {"none"}]
Idle == [pc |-> "idle", op |-> "none", h |-> None, pid |-> None, reply |-> "none",
         seen |-> "none"]

WorkersTypeOK ==
    /\ workers \in Handles \cup {None}
    /\ handle \in [Handles -> HandleRecord]
    /\ proc \in [Processes -> ProcessRecord]
    /\ task \in [Tasks -> TaskRecord]

WorkersInit ==
    /\ workers = None
    /\ handle = [h \in Handles |-> NewHandle]
    /\ proc = [p \in Processes |-> FreeProcess]

-----------------------------------------------------------------------------
(* Continuations run first: those of startInternal, whose promises settle    *)
(* first, then the others.                                                   *)

Settled(t)   == task[t].pc \in RpcPCs \cup WaitPCs /\ task[t].reply # "none"
Starting(t)  == Settled(t) /\ task[t].pc \in {"init", "killing"}
Returning(t) == task[t].pc \in {"started", "failed", "stopped"}
Ready(t)     == Returning(t) \/ (Settled(t) /\ t \notin Callers)
Quiet        == \A t \in Tasks : ~Ready(t)
StartsDone   == \A t \in Tasks : ~Starting(t)

Writable(p) == p \in Processes /\ proc[p].state # "free"
Live(h)     == {p \in Processes : proc[p].of = h /\ proc[p].state # "free"}

(* callInternal: the request is pending, or fails at once.                   *)
Ask(t, p, rec) ==
    /\ task' = [task EXCEPT ![t] = IF Writable(p) THEN [rec EXCEPT !.pid = p]
                                   ELSE [rec EXCEPT !.reply = "fail"]]
    /\ proc' = IF Writable(p) THEN [proc EXCEPT ![p].inbox = @ \cup {t}] ELSE proc

(* handleResponse: an answer settles the pending request it is for; an       *)
(* answer to a request that has timed out finds nothing.                     *)
(* A caller forgets the process once its call has settled.                   *)
Reply(t, r)   == IF t \in Callers THEN [Idle EXCEPT !.pc = "calling", !.reply = r]
                                  ELSE [task[t] EXCEPT !.reply = r]
AnyRequest(t, p) == task[t].pc \in RpcPCs
Pending(t, p) == task[t].pid = p /\ task[t].pc \in RpcPCs /\ task[t].reply = "none"

Answer(p, t) ==
    /\ Quiet
    /\ proc[p].state = "up" /\ t \in proc[p].inbox
    /\ proc' = [proc EXCEPT ![p].inbox = @ \ {t}]
    /\ \E r \in {"ok", "fail"} :
           task' = IF Pending(t, p) THEN [task EXCEPT ![t] = Reply(t, r)] ELSE task
    /\ UNCHANGED <<workers, handle>>

(* The timer of a call, or of waitForExit and killWithSignal.  A process     *)
(* that was sent SIGKILL exits before the wait for it does.                  *)
HasTimer(t) == task[t].pc \in RpcPCs \cup WaitPCs
MayExpire(t) ==
    HasTimer(t) /\ task[t].reply = "none" /\ task[t].pc \notin {"kill", "killing"}

Expire(t) ==
    /\ Quiet /\ MayExpire(t)
    /\ task' = [task EXCEPT ![t] = Reply(t, IF task[t].pc \in RpcPCs THEN "fail" ELSE "expired")]
    /\ UNCHANGED <<workers, handle, proc>>

(* rejectAllPending, and the listeners of the process's exit event.          *)
RejectNone(h) == {}
Rejected(h) == {t \in Tasks : task[t].h = h /\ task[t].pc \in RpcPCs
                              /\ task[t].reply = "none"}
ExitWaiters(p) == {t \in Tasks : task[t].pc \in WaitPCs /\ task[t].pid = p
                                 /\ task[t].reply = "none"}
Settle(p, h) ==
    [t \in Tasks |-> IF t \in ExitWaiters(p) THEN Reply(t, "exit")
                     ELSE IF t \in Rejected(h) THEN Reply(t, "fail")
                     ELSE task[t]]

(* handleProcessExit.  new: the crash window has passed since the last one.  *)
(* The counter stays at MaxConsecutive + 1: beyond it nothing changes.       *)
AlwaysRestarts(n) == TRUE
WillRestart(n) == n <= MaxConsecutive
Crashed(h, new) ==
    LET last == IF new THEN 0 ELSE handle[h].crashes
        n    == IF last > MaxConsecutive THEN last ELSE last + 1 IN
    [handle[h] EXCEPT !.child = None, !.crashes = n,
                      !.status = IF WillRestart(n) THEN "backoff" ELSE "crashed",
                      !.timer = WillRestart(n)]
Stopped(h) == [handle[h] EXCEPT !.child = None, !.status = "stopped"]

Exit(p) ==
    LET h == proc[p].of IN
    /\ Quiet /\ proc[p].state # "free"
    /\ IF handle[h].intentional
       THEN handle' = [handle EXCEPT ![h] = Stopped(h)]
       ELSE \E new \in {FALSE, WindowPasses} : handle' = [handle EXCEPT ![h] = Crashed(h, new)]
    /\ proc' = [proc EXCEPT ![p] = FreeProcess]
    /\ task' = Settle(p, h)
    /\ UNCHANGED workers

-----------------------------------------------------------------------------
(* startInternal, for the task t; rec is what the task does and h0 the       *)
(* handle it does it to.  It throws when the worker is starting or running.  *)
(* A child that cannot be spawned ends the server (README).                  *)
MayStart(h) == handle[h].status \notin {"starting", "running"}

Spawn(t, h, rec, h0) ==
    \E p \in Processes :
        /\ proc[p].state = "free" /\ \A q \in 1 .. p - 1 : proc[q].state # "free"
        /\ handle' = [handle EXCEPT ![h] = [h0 EXCEPT !.intentional = FALSE,
                                              !.status = "starting", !.child = p]]
        /\ proc' = [proc EXCEPT ![p] = [of |-> h, state |-> "up", inbox |-> {t}]]
        /\ task' = [task EXCEPT ![t] = [rec EXCEPT !.pc = "init", !.h = h, !.pid = p,
                                                  !.reply = "none"]]

StartInternal(t, h, rec, h0) ==
    \/ MayStart(h) /\ Spawn(t, h, rec, h0)
    \/ /\ ~MayStart(h)
       /\ task' = [task EXCEPT ![t] = IF t \in Handles THEN Idle
                                      ELSE [rec EXCEPT !.pc = "failed"]]
       /\ handle' = [handle EXCEPT ![h] = h0]
       /\ UNCHANGED proc

(* Callers of startWorker that found a start in flight await its promise.    *)
HoldsStartupLock(t) == t \in Operators /\ task[t].op # "restart"
                       /\ task[t].pc \in {"init", "killing"}
Return(t, pc) ==
    task' = [s \in Tasks |->
                IF s = t THEN IF t \in Handles THEN Idle
                                             ELSE [task[t] EXCEPT !.pc = pc, !.reply = "none"]
                ELSE IF task[s].pc = "join" /\ HoldsStartupLock(t)
                     THEN [task[s] EXCEPT !.pc = pc]
                ELSE task[s]]

(* After the initialize call: ready, or killProcess and crashed.             *)
Initialized(t) ==
    LET h == task[t].h IN
    /\ Starting(t) /\ task[t].pc = "init" /\ task[t].reply = "ok"
    /\ handle' = [handle EXCEPT ![h].crashes = 0, ![h].status = "running"]
    /\ Return(t, "started")
    /\ UNCHANGED <<workers, proc>>

InitializeFailed(t) ==
    LET h == task[t].h IN
    /\ Starting(t) /\ task[t].pc = "init" /\ task[t].reply # "ok"
    /\ IF handle[h].child = None
       THEN /\ handle' = [handle EXCEPT ![h].status = "crashed"]
            /\ Return(t, "failed")
            /\ UNCHANGED proc
       ELSE /\ handle' = [handle EXCEPT ![h].intentional = TRUE]
            /\ proc' = [proc EXCEPT ![handle[h].child].state = "killed"]
            /\ task' = [task EXCEPT ![t].pc = "killing", ![t].reply = "none",
                                    ![t].pid = handle[h].child]
    /\ UNCHANGED workers

StartKilled(t) ==
    /\ Starting(t) /\ task[t].pc = "killing"
    /\ handle' = [handle EXCEPT ![task[t].h].status = "crashed"]
    /\ Return(t, "failed")
    /\ UNCHANGED <<workers, proc>>

(* The backoff timer: the handle's own task starts it again.                 *)
BackoffFires(h) ==
    /\ Quiet /\ handle[h].timer /\ task[h].pc = "idle"
    /\ StartInternal(h, h, Idle, [handle[h] EXCEPT !.timer = FALSE])
    /\ UNCHANGED workers

-----------------------------------------------------------------------------
(* stopInternal: cancel the timer; shut down, linger, SIGTERM, SIGKILL.      *)
StopUnmarked(h) == [handle[h] EXCEPT !.timer = FALSE,
                       !.status = IF handle[h].child = None THEN "stopped" ELSE "stopping"]
Stopping(h) == [handle[h] EXCEPT !.timer = FALSE, !.intentional = TRUE,
                   !.status = IF handle[h].child = None THEN "stopped" ELSE "stopping"]

StopInternal(t, h, rec) ==
    LET done == [rec EXCEPT !.pc = "stopped", !.h = h] IN
    IF handle[h].status \in {"stopped", "stopping"}
    THEN /\ handle' = [handle EXCEPT ![h].timer = FALSE]
         /\ task' = [task EXCEPT ![t] = done]
         /\ UNCHANGED proc
    ELSE /\ handle' = [handle EXCEPT ![h] = Stopping(h)]
         /\ IF handle[h].child = None
            THEN task' = [task EXCEPT ![t] = done] /\ UNCHANGED proc
            ELSE Ask(t, handle[h].child, [done EXCEPT !.pc = "shutdown"])

(* The next stage, while childProcess is set.                                *)
NoKill     == [shutdown |-> "linger", linger |-> "term", term |-> "linger"]
Escalation == [shutdown |-> "linger", linger |-> "term", term |-> "kill"]

StopContinues(t) ==
    LET h == task[t].h
        child == handle[h].child
        next == IF task[t].pc = "kill" THEN "stopped" ELSE Escalation[task[t].pc] IN
    /\ Settled(t) /\ task[t].pc \in WaitPCs \ {"killing"} /\ StartsDone
    /\ IF child = None \/ next = "stopped"
       THEN /\ handle' = [handle EXCEPT ![h].status = "stopped"]
            /\ task' = [task EXCEPT ![t].pc = "stopped", ![t].reply = "none", ![t].pid = None]
            /\ UNCHANGED proc
       ELSE /\ task' = [task EXCEPT ![t].pc = next, ![t].pid = child,
                                    ![t].reply = "none"]
            /\ proc' = IF next = "kill" THEN [proc EXCEPT ![child].state = "killed"] ELSE proc
            /\ UNCHANGED handle
    /\ UNCHANGED workers

-----------------------------------------------------------------------------
(* manager.call, from a route or a tool dispatch.                            *)
Call(c) ==
    /\ Quiet /\ task[c].pc = "idle"
    /\ IF workers # None /\ handle[workers].status \in {"running", "starting"}
          /\ Writable(handle[workers].child)
       THEN Ask(c, handle[workers].child, [Idle EXCEPT !.pc = "calling", !.h = workers])
       ELSE task' = [task EXCEPT ![c] = Reply(c, "fail")] /\ UNCHANGED proc
    /\ UNCHANGED <<workers, handle>>
=============================================================================
