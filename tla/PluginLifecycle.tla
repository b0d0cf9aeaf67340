-------------------------- MODULE PluginLifecycle --------------------------
(***************************************************************************)
(* The lifecycle of one plugin, server/src/services/plugin-lifecycle.ts and *)
(* the activation in plugin-loader.ts, over its workers.                    *)
(*                                                                          *)
(* An operation reads the plugin's row, stops or starts the worker, and     *)
(* writes the row by id: nothing holds the row in between.  There are two   *)
(* lifecycle managers: the routes' has the loader, so it unloads through    *)
(* unloadSingle, which stops a worker only while it runs; the one the       *)
(* loader itself calls has none, and stops whatever worker there is.        *)
(***************************************************************************)
EXTENDS PluginWorkers

CONSTANTS
    Boot,         \* the operator that runs loadAll at server start
    Kinds,        \* the operations each operator may request
    UpgradesFail  \* whether upgradePlugin may throw (it leaves the worker stopped)

ASSUME LifecycleAssumption ==
    /\ Boot \in Operators
    /\ Kinds \in [Operators -> SUBSET (Ops \ {"none", "load", "markError"})]
    /\ UpgradesFail \in BOOLEAN

VARIABLE plugin  \* plugins.status

vars == <<workerVars, plugin>>

NoErrorTransition ==
    [installed |-> {"ready", "uninstalled"}, ready |-> {"ready", "disabled", "uninstalled"},
     disabled |-> {"ready", "uninstalled"}, error |-> {"ready", "uninstalled"},
     upgrade_pending |-> {"ready", "uninstalled"}, uninstalled |-> {"installed"}]
ValidTransitions ==
    [installed |-> {"ready", "error", "uninstalled"},
     ready |-> {"ready", "disabled", "error", "upgrade_pending", "uninstalled"},
     disabled |-> {"ready", "uninstalled"},
     error |-> {"ready", "uninstalled"},
     upgrade_pending |-> {"ready", "error", "uninstalled"},
     uninstalled |-> {"installed"}]

TypeOK == WorkersTypeOK /\ plugin \in Plugins

(* The server has started and loadAll has selected the ready plugin.         *)
Init ==
    /\ WorkersInit
    /\ plugin = "ready"
    /\ task = [t \in Tasks |-> IF t = Boot THEN [Idle EXCEPT !.pc = "start", !.op = "load"]
                               ELSE Idle]

Goto(o, pc)   == task' = [task EXCEPT ![o].pc = pc]
Finish(o)     == task' = [task EXCEPT ![o] = Idle]
At(o, pc)     == Quiet /\ task[o].pc = pc

Request(o, op) ==
    /\ At(o, "idle") /\ op \in Kinds[o]
    /\ task' = [task EXCEPT ![o] = [Idle EXCEPT !.pc = "read", !.op = op]]
    /\ UNCHANGED <<workers, handle, proc, plugin>>

(* installPlugin reactivates the row of an uninstalled plugin; the route     *)
(* then loads it.                                                            *)
Install(o) ==
    /\ At(o, "read") /\ task[o].op = "install"
    /\ IF plugin = "uninstalled"
       THEN /\ plugin' = "installed"
            /\ task' = [task EXCEPT ![o].op = "load"]
       ELSE Finish(o) /\ UNCHANGED plugin
    /\ UNCHANGED <<workers, handle, proc>>

(* requirePlugin and the checks on what it read.                             *)
Admissible(op) ==
    CASE op = "load"    -> "ready" \in ValidTransitions[plugin]
      [] op = "enable"  -> plugin \in {"disabled", "error", "upgrade_pending"}
      [] op = "disable" -> plugin = "ready"
      [] op = "unload"  -> plugin # "uninstalled"
      [] op = "upgrade" -> plugin \in {"ready", "upgrade_pending"}
      [] op = "restart" -> plugin = "ready" /\ workers # None
      [] OTHER          -> TRUE

ReadPlugin(o) ==
    LET op  == task[o].op
        rec == [task[o] EXCEPT !.seen = plugin] IN
    /\ At(o, "read") /\ op # "install"
    /\ IF ~Admissible(op) THEN Finish(o) /\ UNCHANGED <<handle, proc>>
       ELSE IF op = "restart" \/ (op = "markError" /\ workers # None)
       THEN StopInternal(o, workers, rec)
       ELSE /\ task' = [task EXCEPT ![o] =
                  [rec EXCEPT !.pc = IF op \in {"disable", "unload", "upgrade"}
                                     THEN "deactivate" ELSE "write"]]
            /\ UNCHANGED <<handle, proc>>
    /\ UNCHANGED <<workers, plugin>>

(* unloadSingle, after unregisterPlugin: stop the worker if it is running.   *)
Deactivate(o) ==
    /\ At(o, "deactivate")
    /\ IF workers # None /\ handle[workers].status = "running"
       THEN StopInternal(o, workers, task[o])
       ELSE Goto(o, "write") /\ UNCHANGED <<handle, proc>>
    /\ UNCHANGED <<workers, plugin>>

(* stopWorker drops the registration; restart starts the handle again.  The  *)
(* record of a handle that is dead and dropped is forgotten.                 *)
Forgotten(h) == [handle EXCEPT ![h] = IF Live(h) = {} /\ ~handle[h].timer
                                      THEN NewHandle ELSE @]

WorkerStopped(o) ==
    /\ task[o].pc = "stopped" /\ StartsDone
    /\ IF task[o].op = "restart"
       THEN /\ StartInternal(o, task[o].h, task[o], handle[task[o].h])
            /\ UNCHANGED workers
       ELSE /\ workers' = None
            /\ task' = [task EXCEPT ![o].pc = "write", ![o].h = None]
            /\ handle' = Forgotten(task[o].h)
            /\ UNCHANGED proc
    /\ UNCHANGED plugin

(* transition, against the status read before; unload does not ask, and       *)
(* markError's target is error.                                              *)
(* upgradePlugin throws when the download fails, or the new version asks for *)
(* more capabilities.                                                        *)
Target(op) == CASE op \in {"load", "enable", "upgrade"} -> "ready"
                [] op = "disable"   -> "disabled"
                [] op = "unload"    -> "uninstalled"
                [] OTHER            -> "error"

WriteStatus(o) ==
    LET op == task[o].op IN
    /\ At(o, "write")
    /\ \E throws \in {FALSE, op = "upgrade" /\ UpgradesFail} :
         IF ~throws /\ (op = "unload" \/ Target(op) \in ValidTransitions[task[o].seen])
         THEN /\ plugin' = Target(op)
              /\ IF Target(op) = "ready"
                 THEN task' = [task EXCEPT ![o] = [Idle EXCEPT !.pc = "load", !.op = "load"]]
                 ELSE Finish(o)
         ELSE Finish(o) /\ UNCHANGED plugin
    /\ UNCHANGED <<workers, handle, proc>>

(* loadSingle reads the row again, then activatePlugin reads the config.     *)
LoadSingle(o) ==
    /\ At(o, "load")
    /\ IF plugin = "ready" THEN Goto(o, "start") ELSE Finish(o)
    /\ UNCHANGED <<workers, handle, proc, plugin>>

(* startWorker: join a start in flight, refuse a handle that is not stopped, *)
(* or register a new handle and start it.                                    *)
Unused(h) == h # workers /\ Live(h) = {} /\ ~handle[h].timer
             /\ \A t \in Tasks : task[t].h # h
AnyHandle(h)   == TRUE
Replaceable(h) == h = None \/ handle[h].status = "stopped"

StartWorker(o) ==
    /\ At(o, "start")
    /\ IF \E t \in Tasks : HoldsStartupLock(t)
       THEN Goto(o, "join") /\ UNCHANGED <<workers, handle, proc>>
       ELSE IF Replaceable(workers)
       THEN \E h \in Handles :
              /\ Unused(h) /\ \A g \in 1 .. h - 1 : ~Unused(g)
              /\ workers' = h
              /\ StartInternal(o, h, task[o], NewHandle)
       ELSE Goto(o, "failed") /\ UNCHANGED <<workers, handle, proc>>
    /\ UNCHANGED plugin

(* The worker is up: restartWorker ends, activatePlugin syncs and registers  *)
(* the jobs and the tools.                                                   *)
Activated(o) ==
    /\ task[o].pc = "started"
    /\ IF task[o].op = "restart" THEN Finish(o)
       ELSE task' = [task EXCEPT ![o] = [Idle EXCEPT !.pc = "register", !.op = "load"]]
    /\ UNCHANGED <<workers, handle, proc, plugin>>

(* Whatever fails in activatePlugin, before or after the worker is up.       *)
MarkError(o) == task' = [task EXCEPT ![o] = [Idle EXCEPT !.pc = "read", !.op = "markError"]]

Register(o) ==
    /\ At(o, "register")
    /\ Finish(o) \/ MarkError(o)
    /\ UNCHANGED <<workers, handle, proc, plugin>>

ActivationFailed(o) ==
    /\ task[o].pc = "failed"
    /\ IF task[o].op = "restart" THEN Finish(o) ELSE MarkError(o)
    /\ UNCHANGED <<workers, handle, proc, plugin>>

-----------------------------------------------------------------------------
(* Steps of the processes and of the operators.                              *)
OperatorStep(o) ==
    \/ Install(o) \/ ReadPlugin(o) \/ Deactivate(o) \/ WriteStatus(o)
    \/ LoadSingle(o) \/ StartWorker(o) \/ Register(o)

Continuation(t) ==
    /\ \/ Initialized(t) \/ InitializeFailed(t) \/ StartKilled(t) \/ StopContinues(t)
    /\ UNCHANGED plugin

Returned(o) == WorkerStopped(o) \/ Activated(o) \/ ActivationFailed(o)

Event ==
    /\ \/ \E p \in Processes : \/ Exit(p)
                               \/ \E t \in proc[p].inbox : Answer(p, t)
       \/ \E t \in Tasks : Expire(t)
       \/ \E h \in Handles : BackoffFires(h)
       \/ \E c \in Callers : Call(c)
    /\ UNCHANGED plugin

Next ==
    \/ Event
    \/ \E t \in Tasks : Continuation(t)
    \/ \E o \in Operators : OperatorStep(o) \/ Returned(o) \/ \E op \in Ops : Request(o, op)

Spec == Init /\ [][Next]_vars

(* Timers and queries complete, a process that was sent SIGKILL exits, and   *)
(* settled continuations run: one condition per task, which awaits one thing *)
(* at a time.  An event waits for a Quiet state, so it is enabled again and  *)
(* again rather than continuously: hence SF.                                 *)
Fires(t) ==
    /\ Expire(t) \/ (t \in Handles /\ BackoffFires(t))
    /\ UNCHANGED plugin
KilledExits == \E p \in Processes : proc[p].state = "killed" /\ Exit(p) /\ UNCHANGED plugin

Fairness ==
    /\ \A t \in Handles \cup Callers : WF_vars(Continuation(t)) /\ SF_vars(Fires(t))
    /\ \A o \in Operators : WF_vars(Continuation(o) \/ Returned(o))
                          /\ SF_vars(Fires(o) \/ OperatorStep(o))
    /\ SF_vars(KilledExits)

FairSpec == Spec /\ Fairness

-----------------------------------------------------------------------------
(* At most one process of the plugin exists at a time, whatever operations   *)
(* follow each other while it starts, crashes, backs off and stops           *)
(* ("Each installed plugin gets one dedicated worker process").              *)
OneWorker == \A p, q \in Processes :
                proc[p].state # "free" /\ proc[q].state # "free" => p = q

(* A handle that is no longer registered is dead: no process, no timer that  *)
(* would start one, unless its stop is still in progress.                    *)
StopInProgress(h) == \E o \in Operators : task[o].h = h /\ task[o].pc # "idle"
UnregisteredIsDead == \A h \in Handles :
                h # workers /\ ~StopInProgress(h) => Live(h) = {} /\ ~handle[h].timer

(* Once no operation is in progress, a ready plugin has a worker registered: *)
(* a failed activation does not leave it ready.                              *)
ReadyHasWorker ==
    (plugin = "ready" /\ \A o \in Operators : task[o].pc = "idle") => workers # None

(* A disabled or uninstalled plugin has no process once no operation is in   *)
(* progress.                                                                 *)
DisabledIsDown ==
    (plugin \in {"disabled", "uninstalled"} /\ \A o \in Operators : task[o].pc = "idle")
        => \A p \in Processes : proc[p].state = "free"

(* A pending call was sent to a process that still exists: the exit of the   *)
(* process rejects it, it does not wait for its timer.                       *)
PendingHasProcess == \A c \in Callers :
    task[c].pc = "calling" /\ task[c].reply = "none" => Writable(task[c].pid)

(* A call settles once: late answers, its timer and the exit do not settle   *)
(* it again.                                                                 *)
CallSettlesOnce == [][\A c \in Callers :
    task[c].reply # "none" => task'[c].reply = task[c].reply]_vars

(* Every lifecycle operation ends: a stop escalates until the process is     *)
(* gone, a start is answered or killed.                                      *)
OperationsEnd == \A o \in Operators : (task[o].pc # "idle") ~> (task[o].pc = "idle")

(* A worker that waits for its restart is running again, was stopped by an   *)
(* operation, crashed too often, or failed to initialize.                    *)
BackoffEnds == \A h \in Handles :
    handle[h].timer ~> (~handle[h].timer /\ handle[h].status \in {"running", "stopped", "crashed"})
=============================================================================
