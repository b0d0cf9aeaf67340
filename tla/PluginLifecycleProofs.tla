----------------------- MODULE PluginLifecycleProofs -----------------------
(***************************************************************************)
(* Theorems about PluginLifecycle and the workers below it.                 *)
(*                                                                          *)
(* For any number of operators, callers, handles and processes, and any     *)
(* limit of crashes: a pending call has its process, and a call settles     *)
(* once.  For one lifecycle operation at a time, in any sequence and        *)
(* interleaved with crashes, backoffs, calls and timers: the plugin has at   *)
(* most one process, a handle that is not registered is dead, and a ready    *)
(* plugin has a worker registered.                                           *)
(***************************************************************************)
EXTENDS PluginLifecycle, TLAPS

-----------------------------------------------------------------------------
(* For any number of operators.                                              *)

StopPCs   == {"shutdown", "linger", "term", "kill"}
HandlePCs == {"init", "killing", "stopped"} \cup StopPCs

(* What the record of a task may be.                                         *)
TaskOK(t, y) ==
    /\ y \in TaskRecord
    /\ t \in Handles => /\ y.pc \in {"idle", "init", "killing"}
                        /\ y.pc # "idle" => y.h = t
                        /\ y.pc = "idle" => y = Idle
    /\ t \in Callers => /\ y.pc \in {"idle", "calling"}
                        /\ y.pc = "idle" => y.reply = "none"
    /\ t \in Operators => y.pc # "calling"
    /\ y.pc \in HandlePCs => y.h \in Handles

(* A pending request is one of a process of the task's handle.               *)
Served(y, procs) ==
    y.pc \in RpcPCs /\ y.reply = "none" =>
        y.pid \in Processes /\ procs[y.pid].state # "free" /\ procs[y.pid].of = y.h

TasksOK == \A t \in Tasks : TaskOK(t, task[t]) /\ Served(task[t], proc)

(* The child of a handle is a process that was started for it.               *)
ChildrenOK ==
    /\ \A p \in Processes : proc[p].state # "free" => proc[p].of \in Handles
    /\ \A h \in Handles : handle[h].child \in Processes =>
          proc[handle[h].child].state # "free" /\ proc[handle[h].child].of = h

BaseInv == TypeOK /\ TasksOK /\ ChildrenOK

-----------------------------------------------------------------------------
(* For a single operator.                                                    *)

Dead(h) == \A p \in Processes : proc[p].state # "free" => proc[p].of # h

LiveIsChild == \A p \in Processes : proc[p].state # "free" => handle[proc[p].of].child = p

HandleOK(h) ==
    /\ h # workers => Dead(h) /\ ~handle[h].timer
    /\ handle[h].timer => Dead(h)
    /\ handle[h].status = "stopped" => Dead(h) /\ ~handle[h].timer
    /\ handle[h].status = "stopping" => task[Boot].pc \in StopPCs /\ task[Boot].h = h

OperatorOK ==
    LET y == task[Boot] IN
    /\ y.pc \in HandlePCs => y.h = workers
    /\ y.pc \in StopPCs => handle[y.h].intentional /\ ~handle[y.h].timer
    /\ y.pc = "stopped" => Dead(y.h) /\ ~handle[y.h].timer
    /\ y.pc = "kill" => (y.reply = "none" /\ y.pid = handle[y.h].child) \/ Dead(y.h)

SingleInv == BaseInv /\ LiveIsChild /\ OperatorOK /\ \A h \in Handles : HandleOK(h)

-----------------------------------------------------------------------------
(* For a single operator whose upgrades do not fail.                         *)

(* What an operation has read of the plugin is still so when it writes.      *)
SeenOK ==
    LET y == task[Boot] IN
    /\ y.pc = "read" => y.op # "none"
    /\ y.pc \in {"deactivate", "write", "stopped"} \cup StopPCs =>
          \/ y.op = "restart" /\ y.pc \notin {"deactivate", "write"}
          \/ /\ y.op \in {"load", "enable", "disable", "unload", "upgrade", "markError"}
             /\ y.seen = plugin
             /\ y.op = "disable" => plugin = "ready"
             /\ y.op \in {"load", "enable", "upgrade"} => "ready" \in ValidTransitions[plugin]

WillEnd ==
    /\ task[Boot].pc # "join"
    /\ plugin = "ready" /\ workers = None =>
          \/ task[Boot].pc \in {"start", "load", "write", "deactivate"}
          \/ task[Boot].pc = "read" /\ task[Boot].op = "markError"

ReadyInv == SingleInv /\ SeenOK /\ WillEnd

-----------------------------------------------------------------------------
(* The base invariant.                                                       *)

LEMMA TaskKinds ==
    /\ Handles \subseteq Tasks /\ Operators \subseteq Tasks /\ Callers \subseteq Tasks
    /\ Handles \cap Operators = {} /\ Handles \cap Callers = {} /\ Operators \cap Callers = {}
    /\ None \notin Handles /\ None \notin Processes
  BY WorkersAssumption DEF Tasks, Handles, Processes, None

LEMMA IdleOK == /\ Idle \in TaskRecord
                /\ \A t \in Tasks : TaskOK(t, Idle)
                /\ \A procs : Served(Idle, procs)
<1>1. Idle \in TaskRecord
  BY DEF Idle, TaskRecord, PCs, Ops, Replies
<1> QED BY <1>1 DEF Idle, TaskOK, Served, RpcPCs, HandlePCs, StopPCs

(* The processes that exist stay; a handle may forget its child.             *)
SameProcs == \A p \in Processes : /\ proc[p].state # "free" <=> proc'[p].state # "free"
                                  /\ proc'[p].of = proc[p].of
SameChildren == \A h \in Handles : handle'[h].child \in {handle[h].child, None}

(* What a step that ends no process does to the rest.                        *)
Keeps ==
    /\ handle' \in [Handles -> HandleRecord]
    /\ proc' \in [Processes -> ProcessRecord]
    /\ ChildrenOK'
    /\ \A p \in Processes : proc[p].state # "free" =>
            proc'[p].state # "free" /\ proc'[p].of = proc[p].of
    /\ task' = [t \in Tasks |-> task'[t]]
    /\ \A t \in Tasks : \/ task'[t] = task[t]
                        \/ TaskOK(t, task'[t]) /\ Served(task'[t], proc')

LEMMA KeepsBase ==
    ASSUME BaseInv, Keeps, workers' \in Handles \cup {None}, plugin' \in Plugins
    PROVE  BaseInv'
<1>1. \A t \in Tasks : TaskOK(t, task'[t]) /\ Served(task'[t], proc')
  <2> TAKE t \in Tasks
  <2>1. CASE task'[t] = task[t]
    BY <2>1 DEF Keeps, BaseInv, TasksOK, Served
  <2> QED BY <2>1 DEF Keeps
<1>2. task' \in [Tasks -> TaskRecord]
  BY <1>1 DEF Keeps, TaskOK
<1>3. TypeOK'
  BY <1>2 DEF Keeps, BaseInv, TypeOK, WorkersTypeOK
<1>4. TasksOK'
  BY <1>1 DEF TasksOK, TaskOK, Served
<1> QED BY <1>3, <1>4 DEF BaseInv, Keeps

LEMMA SameChildrenOK ==
    ASSUME BaseInv, SameProcs, SameChildren
    PROVE  ChildrenOK'
  BY TaskKinds DEF SameProcs, SameChildren, BaseInv, ChildrenOK

(* Most steps move one task, and leave processes and children as they are.   *)
LEMMA MoveKeeps ==
    ASSUME BaseInv, handle' \in [Handles -> HandleRecord], proc' \in [Processes -> ProcessRecord],
           SameProcs, SameChildren, NEW t \in Tasks, NEW y,
           task' = [task EXCEPT ![t] = y], TaskOK(t, y), Served(y, proc')
    PROVE  Keeps
<1>1. task \in [Tasks -> TaskRecord]
  BY DEF BaseInv, TypeOK, WorkersTypeOK
<1>2. task'[t] = y /\ \A s \in Tasks : s # t => task'[s] = task[s]
  BY <1>1
<1>3. ChildrenOK'
  BY SameChildrenOK
<1>4. task' = [s \in Tasks |-> task'[s]]
  BY <1>1
<1> QED BY <1>2, <1>3, <1>4 DEF Keeps, SameProcs

LEMMA SameTasks ==
    ASSUME BaseInv, task' = task
    PROVE  task' = [s \in Tasks |-> task'[s]]
  BY DEF BaseInv, TypeOK, WorkersTypeOK

(* A request is answered with the result, or fails at once.                  *)
LEMMA AskKeeps ==
    ASSUME BaseInv, NEW t \in Tasks, NEW h \in Handles, NEW rec \in TaskRecord,
           rec.h = h, rec.pc # "idle", handle' \in [Handles -> HandleRecord],
           SameChildren, TaskOK(t, rec), Ask(t, handle[h].child, rec)
    PROVE  /\ Keeps /\ SameProcs
           /\ \E y \in TaskRecord : /\ task' = [task EXCEPT ![t] = y]
                                    /\ y.pc = rec.pc /\ y.op = rec.op /\ y.seen = rec.seen
                                    /\ y.h = h
<1> DEFINE p == handle[h].child
<1>1. /\ task \in [Tasks -> TaskRecord] /\ proc \in [Processes -> ProcessRecord]
      /\ handle \in [Handles -> HandleRecord] /\ ChildrenOK
  BY DEF BaseInv, TypeOK, WorkersTypeOK
<1>2. CASE Writable(p)
  <2>1. PICK y : y = [rec EXCEPT !.pid = p]
    OBVIOUS
  <2>2. y \in TaskRecord /\ y.pid = p /\ y.pc = rec.pc /\ y.op = rec.op /\ y.seen = rec.seen /\ y.h = h
        /\ y.reply = rec.reply
    BY <1>2, <2>1 DEF TaskRecord, Writable
  <2>3. task' = [task EXCEPT ![t] = y] /\ proc' = [proc EXCEPT ![p].inbox = @ \cup {t}]
    BY <1>2, <2>1 DEF Ask
  <2>4. p \in Processes /\ proc[p].state # "free" /\ proc[p].of = h
    BY <1>1, <1>2 DEF Writable, ChildrenOK
  <2>5. PICK z \in ProcessRecord : /\ proc' = [proc EXCEPT ![p] = z]
                                   /\ z.state = proc[p].state /\ z.of = proc[p].of
    <3>1. [proc[p] EXCEPT !.inbox = @ \cup {t}] \in ProcessRecord
      BY <1>1, <2>4 DEF ProcessRecord
    <3> QED BY <1>1, <2>3, <2>4, <3>1 DEF ProcessRecord
  <2>6. SameProcs /\ proc' \in [Processes -> ProcessRecord]
    BY <1>1, <2>4, <2>5 DEF SameProcs
  <2>7. TaskOK(t, y)
    BY <2>2, TaskKinds DEF TaskOK, Idle
  <2>8. Served(y, proc')
    BY <1>1, <2>2, <2>4, <2>5 DEF Served
  <2>9. Keeps
    BY <2>3, <2>6, <2>7, <2>8, MoveKeeps
  <2> QED BY <2>2, <2>3, <2>6, <2>9
<1>3. CASE ~Writable(p)
  <2>1. PICK y : y = [rec EXCEPT !.reply = "fail"]
    OBVIOUS
  <2>2. y \in TaskRecord /\ y.pc = rec.pc /\ y.op = rec.op /\ y.seen = rec.seen /\ y.h = h
        /\ y.reply = "fail"
    BY <2>1 DEF TaskRecord, Replies
  <2>3. task' = [task EXCEPT ![t] = y] /\ proc' = proc
    BY <1>3, <2>1 DEF Ask
  <2>4. SameProcs
    BY <2>3 DEF SameProcs
  <2>5. TaskOK(t, y) /\ Served(y, proc')
    BY <2>2 DEF TaskOK, Served, Idle
  <2>6. Keeps
    BY <1>1, <2>3, <2>4, <2>5, MoveKeeps
  <2> QED BY <2>2, <2>3, <2>4, <2>6
<1> QED BY <1>2, <1>3

(* What startInternal does to the handle h, given as h0, and its processes:  *)
(* a child, or nothing.                                                      *)
StartEffect(h, h0) ==
    \E z \in HandleRecord :
        /\ handle' = [handle EXCEPT ![h] = z] /\ z.timer = h0.timer
        /\ \/ /\ z.status = "starting" /\ z.child \in Processes /\ proc[z.child].state = "free"
              /\ \E q \in ProcessRecord : /\ proc' = [proc EXCEPT ![z.child] = q]
                                          /\ q.of = h /\ q.state = "up"
           \/ z = h0 /\ proc' = proc

LEMMA StartKeeps ==
    ASSUME BaseInv, NEW t \in Tasks \ Callers, NEW h \in Handles, NEW rec \in TaskRecord,
           NEW h0 \in HandleRecord, h0.child \in {handle[h].child, None},
           t \in Handles => t = h, StartInternal(t, h, rec, h0)
    PROVE  /\ Keeps /\ StartEffect(h, h0)
           /\ \E y \in TaskRecord : /\ task' = [task EXCEPT ![t] = y]
                                    /\ t \notin Handles => y.op = rec.op /\ y.seen = rec.seen
                                    /\ \/ y.pc = "init" /\ y.h = h
                                       \/ t \in Handles /\ y = Idle
                                       \/ t \notin Handles /\ y.pc = "failed"
<1>1. /\ task \in [Tasks -> TaskRecord] /\ proc \in [Processes -> ProcessRecord]
      /\ handle \in [Handles -> HandleRecord] /\ ChildrenOK
  BY DEF BaseInv, TypeOK, WorkersTypeOK
<1>2. CASE Spawn(t, h, rec, h0)
  <2>1. PICK p \in Processes :
            /\ proc[p].state = "free"
            /\ handle' = [handle EXCEPT ![h] = [h0 EXCEPT !.intentional = FALSE,
                                              !.status = "starting", !.child = p]]
            /\ proc' = [proc EXCEPT ![p] = [of |-> h, state |-> "up", inbox |-> {t}]]
            /\ task' = [task EXCEPT ![t] = [rec EXCEPT !.pc = "init", !.h = h, !.pid = p,
                                                  !.reply = "none"]]
    BY <1>2 DEF Spawn
  <2>2. PICK z \in HandleRecord : /\ handle' = [handle EXCEPT ![h] = z] /\ z.timer = h0.timer
                                  /\ z.status = "starting" /\ z.child = p
    <3>1. [h0 EXCEPT !.intentional = FALSE, !.status = "starting", !.child = p] \in HandleRecord
      BY DEF HandleRecord, Statuses
    <3> QED BY <2>1, <3>1 DEF HandleRecord
  <2>3. PICK q \in ProcessRecord : /\ proc' = [proc EXCEPT ![p] = q]
                                   /\ q.of = h /\ q.state = "up"
    <3>1. [of |-> h, state |-> "up", inbox |-> {t}] \in ProcessRecord
      BY DEF ProcessRecord
    <3> QED BY <2>1, <3>1
  <2>4. PICK y \in TaskRecord : /\ task' = [task EXCEPT ![t] = y] /\ y.pc = "init" /\ y.h = h
                                /\ y.pid = p /\ y.op = rec.op /\ y.seen = rec.seen
    <3>1. [rec EXCEPT !.pc = "init", !.h = h, !.pid = p, !.reply = "none"] \in TaskRecord
      BY DEF TaskRecord, PCs, RpcPCs, Replies
    <3> QED BY <2>1, <3>1 DEF TaskRecord
  <2>5. proc'[p] = q /\ \A r \in Processes : r # p => proc'[r] = proc[r]
    BY <1>1, <2>3
  <2>6. handle'[h] = z /\ \A g \in Handles : g # h => handle'[g] = handle[g]
    BY <1>1, <2>2
  <2>7. ChildrenOK'
    BY <1>1, <2>1, <2>2, <2>3, <2>5, <2>6 DEF ChildrenOK
  <2>8. TaskOK(t, y) /\ Served(y, proc')
    BY <2>3, <2>4, <2>5, TaskKinds DEF TaskOK, Served
  <2>9. /\ handle' \in [Handles -> HandleRecord] /\ proc' \in [Processes -> ProcessRecord]
        /\ task' = [s \in Tasks |-> task'[s]]
        /\ task'[t] = y /\ \A s \in Tasks : s # t => task'[s] = task[s]
    BY <1>1, <2>2, <2>3, <2>4
  <2>10. Keeps
    BY <2>1, <2>5, <2>7, <2>8, <2>9 DEF Keeps
  <2>11. StartEffect(h, h0)
    BY <2>1, <2>2, <2>3 DEF StartEffect
  <2> QED BY <2>4, <2>10, <2>11
<1>4. CASE /\ ~MayStart(h)
           /\ task' = [task EXCEPT ![t] = IF t \in Handles THEN Idle
                                          ELSE [rec EXCEPT !.pc = "failed"]]
           /\ handle' = [handle EXCEPT ![h] = h0]
           /\ UNCHANGED proc
  <2>1. SameProcs /\ SameChildren /\ handle' \in [Handles -> HandleRecord]
    BY <1>1, <1>4 DEF SameProcs, SameChildren
  <2>2. CASE t \in Handles
    <3>1. Keeps
      BY <1>1, <1>4, <2>1, <2>2, MoveKeeps, IdleOK
    <3> QED BY <1>4, <2>2, <3>1, IdleOK DEF StartEffect
  <2>3. CASE t \notin Handles
    <3>1. PICK y \in TaskRecord : /\ task' = [task EXCEPT ![t] = y] /\ y.pc = "failed"
                                  /\ y.op = rec.op /\ y.seen = rec.seen
      <4>1. [rec EXCEPT !.pc = "failed"] \in TaskRecord
        BY DEF TaskRecord, PCs
      <4> QED BY <1>4, <2>3, <4>1 DEF TaskRecord
    <3>2. TaskOK(t, y) /\ Served(y, proc')
      BY <2>3, <3>1, TaskKinds DEF TaskOK, Served, RpcPCs, HandlePCs, StopPCs
    <3>3. Keeps
      BY <1>1, <1>4, <2>1, <3>1, <3>2, MoveKeeps
    <3> QED BY <1>4, <2>3, <3>1, <3>3 DEF StartEffect
  <2> QED BY <2>2, <2>3
<1> QED BY <1>2, <1>4 DEF StartInternal

(* What stopInternal does: nothing remains to be stopped, or its stages begin. *)
StopEffect(h, y) ==
    \E z \in HandleRecord :
        /\ handle' = [handle EXCEPT ![h] = z]
        /\ ~z.timer /\ z.child = handle[h].child
        /\ \/ /\ handle[h].status \in {"stopped", "stopping"} /\ z.status = handle[h].status
              /\ y.pc = "stopped"
           \/ z.child = None /\ y.pc = "stopped" /\ z.status = "stopped"
           \/ y.pc = "shutdown" /\ z.intentional /\ z.status = "stopping"

LEMMA StopKeeps ==
    ASSUME BaseInv, NEW t \in Operators, NEW h \in Handles, NEW rec \in TaskRecord,
           StopInternal(t, h, rec)
    PROVE  /\ Keeps /\ SameProcs
           /\ \E y \in TaskRecord : /\ task' = [task EXCEPT ![t] = y]
                                    /\ y.op = rec.op /\ y.seen = rec.seen /\ y.h = h
                                    /\ StopEffect(h, y)
<1> DEFINE done == [rec EXCEPT !.pc = "stopped", !.h = h]
<1>1. /\ task \in [Tasks -> TaskRecord] /\ proc \in [Processes -> ProcessRecord]
      /\ handle \in [Handles -> HandleRecord] /\ handle[h] \in HandleRecord /\ t \in Tasks
  BY TaskKinds DEF BaseInv, TypeOK, WorkersTypeOK
<1>2. PICK y : y = done
  OBVIOUS
<1>3. /\ y \in TaskRecord /\ y.pc = "stopped" /\ y.h = h /\ y.op = rec.op /\ y.seen = rec.seen
  BY <1>2 DEF TaskRecord, PCs
<1>4. TaskOK(t, y) /\ Served(y, proc')
  BY <1>3, TaskKinds DEF TaskOK, Served, RpcPCs
<1>5. CASE handle[h].status \in {"stopped", "stopping"}
  <2>1. PICK z \in HandleRecord : /\ handle' = [handle EXCEPT ![h] = z] /\ ~z.timer
                                  /\ z.child = handle[h].child /\ z.status = handle[h].status
    <3>1. [handle[h] EXCEPT !.timer = FALSE] \in HandleRecord
      BY <1>1 DEF HandleRecord
    <3> QED BY <1>1, <1>5, <3>1 DEF HandleRecord, StopInternal
  <2>2. task' = [task EXCEPT ![t] = y] /\ proc' = proc
    BY <1>2, <1>5 DEF StopInternal
  <2>3. SameProcs /\ SameChildren /\ handle' \in [Handles -> HandleRecord]
    BY <1>1, <2>1, <2>2 DEF SameProcs, SameChildren
  <2>4. Keeps
    BY <1>1, <1>4, <2>2, <2>3, MoveKeeps
  <2> QED BY <1>3, <1>5, <2>1, <2>2, <2>3, <2>4 DEF StopEffect
<1>6. CASE handle[h].status \notin {"stopped", "stopping"}
  <2>1. PICK z \in HandleRecord :
            /\ handle' = [handle EXCEPT ![h] = z] /\ ~z.timer /\ z.intentional
            /\ z.child = handle[h].child
            /\ z.status = IF handle[h].child = None THEN "stopped" ELSE "stopping"
    <3>1. Stopping(h) \in HandleRecord
      BY <1>1 DEF HandleRecord, Stopping, Statuses
    <3>2. /\ ~Stopping(h).timer /\ Stopping(h).intentional /\ Stopping(h).child = handle[h].child
          /\ Stopping(h).status = IF handle[h].child = None THEN "stopped" ELSE "stopping"
      BY <1>1 DEF HandleRecord, Stopping
    <3> QED BY <1>6, <3>1, <3>2 DEF StopInternal
  <2>2. SameChildren /\ handle' \in [Handles -> HandleRecord]
    BY <1>1, <2>1 DEF SameChildren
  <2>3. CASE handle[h].child = None
    <3>1. task' = [task EXCEPT ![t] = y] /\ proc' = proc
      BY <1>2, <1>6, <2>3 DEF StopInternal
    <3>2. SameProcs
      BY <3>1 DEF SameProcs
    <3>3. Keeps
      BY <1>1, <1>4, <2>2, <3>1, <3>2, MoveKeeps
    <3> QED BY <1>3, <2>1, <2>3, <3>1, <3>2, <3>3 DEF StopEffect
  <2>4. CASE handle[h].child # None
    <3>0. PICK x : x = [y EXCEPT !.pc = "shutdown"]
      OBVIOUS
    <3>1. /\ x \in TaskRecord /\ x.pc = "shutdown" /\ x.h = h /\ x.op = rec.op
          /\ x.seen = rec.seen
      BY <1>3, <3>0 DEF TaskRecord, PCs, RpcPCs
    <3>2. Ask(t, handle[h].child, x)
      BY <1>2, <1>6, <2>4, <3>0 DEF StopInternal
    <3>3. TaskOK(t, x)
      BY <3>1, TaskKinds DEF TaskOK
    <3>4. /\ Keeps /\ SameProcs
          /\ \E w \in TaskRecord : /\ task' = [task EXCEPT ![t] = w]
                                   /\ w.pc = x.pc /\ w.op = x.op /\ w.seen = x.seen
                                   /\ w.h = h
      BY <1>1, <2>2, <3>1, <3>2, <3>3, AskKeeps
    <3>5. PICK w \in TaskRecord : /\ task' = [task EXCEPT ![t] = w]
                                  /\ w.pc = "shutdown" /\ w.op = rec.op
                                  /\ w.seen = rec.seen /\ w.h = h
      BY <3>1, <3>4
    <3>6. StopEffect(h, w)
      BY <2>1, <2>4, <3>5 DEF StopEffect
    <3> QED BY <3>4, <3>5, <3>6
  <2> QED BY <2>3, <2>4
<1> QED BY <1>5, <1>6

(* The end of a start moves the task, and the operators that joined it.      *)
LEMMA ReturnKeeps ==
    ASSUME BaseInv, NEW t \in Tasks, task[t].pc \in {"init", "killing"},
           NEW pc \in {"started", "failed"}, Return(t, pc),
           handle' \in [Handles -> HandleRecord], SameChildren, proc' = proc
    PROVE  /\ Keeps
           /\ \A s \in Operators : /\ task'[s].op = task[s].op /\ task'[s].h = task[s].h
                                   /\ task'[s].seen = task[s].seen
                                   /\ \/ task'[s] = task[s]
                                      \/ s = t /\ task'[s].pc = pc
                                      \/ task[s].pc = "join" /\ task'[s].pc = pc
<1>1. /\ task \in [Tasks -> TaskRecord] /\ proc \in [Processes -> ProcessRecord]
      /\ \A s \in Tasks : TaskOK(s, task[s]) /\ Served(task[s], proc)
  BY DEF BaseInv, TypeOK, WorkersTypeOK, TasksOK
<1>2. t \notin Callers
  BY <1>1 DEF TaskOK
<1>3. \A s \in Tasks : task'[s] =
                IF s = t THEN IF t \in Handles THEN Idle
                                             ELSE [task[t] EXCEPT !.pc = pc, !.reply = "none"]
                ELSE IF task[s].pc = "join" /\ HoldsStartupLock(t)
                     THEN [task[s] EXCEPT !.pc = pc]
                ELSE task[s]
  BY DEF Return
<1>4. task' = [s \in Tasks |-> task'[s]]
  BY DEF Return
<1>5. ASSUME NEW s \in Tasks
      PROVE  \/ task'[s] = task[s]
             \/ TaskOK(s, task'[s]) /\ Served(task'[s], proc')
  <2>1. CASE s = t /\ t \in Handles
    BY <1>3, <2>1, IdleOK
  <2>2. CASE s = t /\ t \notin Handles
    <3>1. PICK y : y = [task[t] EXCEPT !.pc = pc, !.reply = "none"]
      OBVIOUS
    <3>2. y \in TaskRecord /\ y.pc = pc
      BY <1>1, <3>1 DEF TaskRecord, PCs, Replies
    <3>3. TaskOK(s, y) /\ Served(y, proc')
      BY <1>2, <2>2, <3>2 DEF TaskOK, Served, RpcPCs, HandlePCs, StopPCs
    <3> QED BY <1>3, <2>2, <3>1, <3>3
  <2>3. CASE s # t /\ task[s].pc = "join" /\ HoldsStartupLock(t)
    <3>1. PICK y : y = [task[s] EXCEPT !.pc = pc]
      OBVIOUS
    <3>2. y \in TaskRecord /\ y.pc = pc
      BY <1>1, <3>1 DEF TaskRecord, PCs
    <3>3. s \notin Handles /\ s \notin Callers
      BY <1>1, <2>3 DEF TaskOK
    <3>4. TaskOK(s, y) /\ Served(y, proc')
      BY <3>2, <3>3 DEF TaskOK, Served, RpcPCs, HandlePCs, StopPCs
    <3> QED BY <1>3, <2>3, <3>1, <3>4
  <2> QED BY <1>3, <2>1, <2>2, <2>3
<1>6. SameProcs
  BY DEF SameProcs
<1>7. Keeps
  BY <1>1, <1>4, <1>5, <1>6, SameChildrenOK DEF Keeps, SameProcs
<1>8. ASSUME NEW s \in Operators
      PROVE  /\ task'[s].op = task[s].op /\ task'[s].h = task[s].h
             /\ task'[s].seen = task[s].seen
             /\ \/ task'[s] = task[s]
                \/ s = t /\ task'[s].pc = pc
                \/ task[s].pc = "join" /\ task'[s].pc = pc
  <2>1. s \in Tasks /\ s \notin Handles /\ task[s] \in TaskRecord
    BY <1>1, TaskKinds
  <2>2. \/ task'[s] = task[s]
        \/ s = t /\ task'[s] = [task[s] EXCEPT !.pc = pc, !.reply = "none"]
        \/ task[s].pc = "join" /\ task'[s] = [task[s] EXCEPT !.pc = pc]
    BY <1>3, <2>1
  <2> QED BY <2>1, <2>2 DEF TaskRecord
<1> QED BY <1>7, <1>8

LEMMA ReplyOK ==
    ASSUME BaseInv, NEW t \in Tasks, task[t].pc \in RpcPCs \cup WaitPCs,
           NEW r \in {"ok", "fail", "exit", "expired"}
    PROVE  \E y \in TaskRecord :
              /\ y = Reply(t, r) /\ y.reply = r /\ y.pc = task[t].pc
              /\ TaskOK(t, y) /\ \A procs : Served(y, procs)
              /\ t \in Operators => /\ y.h = task[t].h /\ y.op = task[t].op
                                    /\ y.seen = task[t].seen /\ y.pid = task[t].pid
<1>1. task[t] \in TaskRecord /\ TaskOK(t, task[t])
  BY DEF BaseInv, TypeOK, WorkersTypeOK, TasksOK
<1>2. PICK y : y = Reply(t, r)
  OBVIOUS
<1>3. CASE t \in Callers
  <2>1. y = [Idle EXCEPT !.pc = "calling", !.reply = r]
    BY <1>2, <1>3 DEF Reply
  <2>2. y \in TaskRecord /\ y.pc = "calling" /\ y.reply = r
    BY <2>1, IdleOK DEF TaskRecord, PCs, RpcPCs, Replies
  <2>3. t \notin Operators /\ t \notin Handles
    BY <1>3, TaskKinds
  <2>4. task[t].pc = "calling"
    BY <1>1, <1>3 DEF TaskOK, RpcPCs, WaitPCs
  <2>5. TaskOK(t, y) /\ \A procs : Served(y, procs)
    BY <2>2, <2>3 DEF TaskOK, Served, HandlePCs, StopPCs
  <2> QED BY <1>2, <2>2, <2>3, <2>4, <2>5
<1>4. CASE t \notin Callers
  <2>1. y = [task[t] EXCEPT !.reply = r]
    BY <1>2, <1>4 DEF Reply
  <2>2. /\ y \in TaskRecord /\ y.reply = r /\ y.pc = task[t].pc /\ y.h = task[t].h
        /\ y.op = task[t].op /\ y.seen = task[t].seen /\ y.pid = task[t].pid
    BY <1>1, <2>1 DEF TaskRecord, Replies
  <2>3. TaskOK(t, y) /\ \A procs : Served(y, procs)
    BY <1>1, <1>4, <2>2 DEF TaskOK, Served, RpcPCs, WaitPCs
  <2> QED BY <1>2, <2>2, <2>3
<1> QED BY <1>3, <1>4

-----------------------------------------------------------------------------
(* Events.                                                                   *)

LEMMA AnswerKeeps ==
    ASSUME BaseInv, NEW p \in Processes, NEW t \in proc[p].inbox, Answer(p, t)
    PROVE  Keeps /\ SameProcs /\ handle' = handle
<1>1. /\ proc \in [Processes -> ProcessRecord] /\ task \in [Tasks -> TaskRecord]
      /\ proc[p] \in ProcessRecord /\ t \in Tasks
      /\ handle \in [Handles -> HandleRecord]
  BY DEF BaseInv, TypeOK, WorkersTypeOK, ProcessRecord
<1>2. PICK z \in ProcessRecord : /\ proc' = [proc EXCEPT ![p] = z]
                                 /\ z.state = proc[p].state /\ z.of = proc[p].of
  <2>1. [proc[p] EXCEPT !.inbox = @ \ {t}] \in ProcessRecord
    BY <1>1 DEF ProcessRecord
  <2> QED BY <1>1, <2>1 DEF Answer, ProcessRecord
<1>3. SameProcs /\ SameChildren /\ handle' = handle /\ proc' \in [Processes -> ProcessRecord]
  BY <1>1, <1>2 DEF SameProcs, SameChildren, Answer
<1>4. CASE Pending(t, p)
  <2>1. PICK r \in {"ok", "fail"} : task' = [task EXCEPT ![t] = Reply(t, r)]
    BY <1>4 DEF Answer
  <2>2. task[t].pc \in RpcPCs \cup WaitPCs
    BY <1>4 DEF Pending
  <2>3. PICK y \in TaskRecord : y = Reply(t, r) /\ TaskOK(t, y) /\ Served(y, proc')
    BY <1>1, <2>2, ReplyOK
  <2> QED BY <1>1, <1>3, <2>1, <2>3, MoveKeeps
<1>5. CASE ~Pending(t, p)
  <2>1. task' = task
    BY <1>5 DEF Answer
  <2> QED BY <1>1, <1>3, <2>1, SameTasks, SameChildrenOK DEF Keeps, SameProcs
<1> QED BY <1>4, <1>5

LEMMA ExpireKeeps ==
    ASSUME BaseInv, NEW t \in Tasks, Expire(t)
    PROVE  /\ Keeps /\ SameProcs /\ handle' = handle
           /\ t \in Operators =>
                \E y \in TaskRecord :
                    /\ task' = [task EXCEPT ![t] = y] /\ y.pc = task[t].pc /\ y.h = task[t].h
                    /\ y.op = task[t].op /\ y.seen = task[t].seen /\ y.pid = task[t].pid
<1>1. /\ proc \in [Processes -> ProcessRecord] /\ task \in [Tasks -> TaskRecord]
      /\ handle \in [Handles -> HandleRecord]
  BY DEF BaseInv, TypeOK, WorkersTypeOK
<1>2. /\ task[t].pc \in RpcPCs \cup WaitPCs /\ proc' = proc /\ handle' = handle
      /\ \E r \in {"fail", "expired"} : task' = [task EXCEPT ![t] = Reply(t, r)]
  BY DEF Expire, MayExpire, HasTimer
<1>3. SameProcs /\ SameChildren
  BY <1>2 DEF SameProcs, SameChildren
<1>4. PICK r \in {"fail", "expired"} : task' = [task EXCEPT ![t] = Reply(t, r)]
  BY <1>2
<1>5. PICK y \in TaskRecord :
              /\ y = Reply(t, r) /\ y.pc = task[t].pc
              /\ TaskOK(t, y) /\ Served(y, proc')
              /\ t \in Operators => /\ y.h = task[t].h /\ y.op = task[t].op
                                    /\ y.seen = task[t].seen /\ y.pid = task[t].pid
  BY <1>2, ReplyOK
<1>6. Keeps
  BY <1>1, <1>2, <1>3, <1>4, <1>5, MoveKeeps
<1> QED BY <1>2, <1>3, <1>4, <1>5, <1>6

LEMMA BackoffKeeps ==
    ASSUME BaseInv, NEW h \in Handles, BackoffFires(h)
    PROVE  /\ Keeps /\ handle[h].timer
           /\ StartEffect(h, [handle[h] EXCEPT !.timer = FALSE])
           /\ \A s \in Tasks : s # h => task'[s] = task[s]
<1>1. /\ handle[h] \in HandleRecord /\ h \in Tasks \ Callers
      /\ task \in [Tasks -> TaskRecord] /\ handle \in [Handles -> HandleRecord]
  BY TaskKinds DEF BaseInv, TypeOK, WorkersTypeOK
<1>2. PICK h0 : h0 = [handle[h] EXCEPT !.timer = FALSE]
  OBVIOUS
<1>3. h0 \in HandleRecord /\ h0.child = handle[h].child
  BY <1>1, <1>2 DEF HandleRecord
<1>4. StartInternal(h, h, Idle, h0)
  BY <1>2 DEF BackoffFires
<1>5. /\ Keeps /\ StartEffect(h, h0)
      /\ \E y \in TaskRecord : task' = [task EXCEPT ![h] = y]
  BY <1>1, <1>3, <1>4, IdleOK, StartKeeps
<1> QED BY <1>1, <1>2, <1>5 DEF BackoffFires

LEMMA CallKeeps ==
    ASSUME BaseInv, NEW c \in Callers, Call(c)
    PROVE  /\ Keeps /\ SameProcs /\ handle' = handle
           /\ \A s \in Tasks : s # c => task'[s] = task[s]
<1>1. /\ proc \in [Processes -> ProcessRecord] /\ task \in [Tasks -> TaskRecord]
      /\ handle \in [Handles -> HandleRecord] /\ workers \in Handles \cup {None}
      /\ c \in Tasks /\ c \notin Handles /\ c \notin Operators
  BY TaskKinds DEF BaseInv, TypeOK, WorkersTypeOK
<1>2. handle' = handle /\ SameChildren
  BY DEF Call, SameChildren
<1>3. CASE task' = [task EXCEPT ![c] = Reply(c, "fail")] /\ UNCHANGED proc
  <2>1. PICK y : y = [Idle EXCEPT !.pc = "calling", !.reply = "fail"]
    OBVIOUS
  <2>2. y \in TaskRecord /\ y.pc = "calling" /\ y.reply = "fail"
    BY <2>1, IdleOK DEF TaskRecord, PCs, RpcPCs, Replies
  <2>3. TaskOK(c, y) /\ Served(y, proc')
    BY <1>1, <2>2 DEF TaskOK, Served, HandlePCs, StopPCs
  <2>4. task' = [task EXCEPT ![c] = y]
    BY <1>3, <2>1 DEF Reply
  <2>5. SameProcs
    BY <1>3 DEF SameProcs
  <2> QED BY <1>1, <1>2, <1>3, <2>3, <2>4, <2>5, MoveKeeps
<1>4. CASE /\ workers # None
           /\ Ask(c, handle[workers].child, [Idle EXCEPT !.pc = "calling", !.h = workers])
  <2>1. PICK x : x = [Idle EXCEPT !.pc = "calling", !.h = workers]
    OBVIOUS
  <2>2. workers \in Handles /\ x \in TaskRecord /\ x.pc = "calling" /\ x.h = workers /\ x.reply = "none"
    BY <1>1, <1>4, <2>1, IdleOK DEF Idle, TaskRecord, PCs, RpcPCs
  <2>3. TaskOK(c, x)
    BY <1>1, <2>2 DEF TaskOK, HandlePCs, StopPCs
  <2>4. PICK h \in Handles : h = workers
    BY <2>2
  <2>5. /\ Ask(c, handle[h].child, x) /\ x.h = h /\ x.pc # "idle"
        /\ handle' \in [Handles -> HandleRecord]
    BY <1>1, <1>2, <1>4, <2>1, <2>2, <2>4
  <2>6. /\ Keeps /\ SameProcs
        /\ \E y \in TaskRecord : /\ task' = [task EXCEPT ![c] = y]
                                 /\ y.pc = x.pc /\ y.op = x.op /\ y.seen = x.seen
                                 /\ y.h = h
    BY <1>1, <1>2, <2>2, <2>3, <2>5, AskKeeps
  <2> QED BY <1>1, <1>2, <2>6
<1> QED BY <1>3, <1>4 DEF Call

(* The exit settles the requests of the process: none of them is left.       *)
LEMMA ExitEffect ==
    ASSUME BaseInv, NEW p \in Processes, Exit(p)
    PROVE  /\ proc[p].of \in Handles /\ proc[p].state # "free"
           /\ proc' = [proc EXCEPT ![p] = FreeProcess]
           /\ \E z \in HandleRecord :
                /\ handle' = [handle EXCEPT ![proc[p].of] = z] /\ z.child = None
                /\ \/ /\ handle[proc[p].of].intentional /\ z.status = "stopped"
                      /\ z.timer = handle[proc[p].of].timer /\ z.intentional
                   \/ ~handle[proc[p].of].intentional /\ z.status \notin {"stopped", "stopping"}
           /\ task' = Settle(p, proc[p].of)
<1> DEFINE h == proc[p].of
<1>1. h \in Handles /\ handle[h] \in HandleRecord
  BY DEF Exit, BaseInv, ChildrenOK, TypeOK, WorkersTypeOK
<1>2. \E z \in HandleRecord :
          /\ handle' = [handle EXCEPT ![h] = z] /\ z.child = None
          /\ \/ handle[h].intentional /\ z.status = "stopped" /\ z.timer = handle[h].timer /\ z.intentional
             \/ ~handle[h].intentional /\ z.status \notin {"stopped", "stopping"}
  <2>1. CASE handle[h].intentional
    <3>1. Stopped(h) \in HandleRecord
      BY <1>1 DEF Stopped, HandleRecord, Statuses
    <3>2. /\ Stopped(h).child = None /\ Stopped(h).status = "stopped"
          /\ Stopped(h).timer = handle[h].timer /\ Stopped(h).intentional
      BY <1>1, <2>1 DEF Stopped, HandleRecord
    <3>3. handle' = [handle EXCEPT ![h] = Stopped(h)]
      BY <2>1 DEF Exit
    <3> QED BY <2>1, <3>1, <3>2, <3>3
  <2>2. CASE ~handle[h].intentional
    <3>1. PICK new \in BOOLEAN : handle' = [handle EXCEPT ![h] = Crashed(h, new)]
      BY <2>2, WorkersAssumption DEF Exit
    <3>2. PICK n \in 0 .. MaxConsecutive + 1, s \in {"backoff", "crashed"}, on \in BOOLEAN :
              Crashed(h, new) = [handle[h] EXCEPT !.child = None, !.crashes = n, !.status = s, !.timer = on]
      <4>1. handle[h].crashes \in 0 .. MaxConsecutive + 1 /\ MaxConsecutive \in Nat
        BY <1>1, WorkersAssumption DEF HandleRecord
      <4>2. PICK last \in 0 .. MaxConsecutive + 1 : last = IF new THEN 0 ELSE handle[h].crashes
        BY <4>1
      <4>3. PICK n \in 0 .. MaxConsecutive + 1 : n = IF last > MaxConsecutive THEN last ELSE last + 1
        BY <4>1, <4>2
      <4>4. WillRestart(n) \in BOOLEAN
        BY DEF WillRestart
      <4>5. Crashed(h, new) = [handle[h] EXCEPT !.child = None, !.crashes = n,
                      !.status = IF WillRestart(n) THEN "backoff" ELSE "crashed",
                      !.timer = WillRestart(n)]
        BY <4>2, <4>3 DEF Crashed
      <4>6. (IF WillRestart(n) THEN "backoff" ELSE "crashed") \in {"backoff", "crashed"}
        OBVIOUS
      <4> QED BY <4>3, <4>4, <4>5, <4>6
    <3>3. Crashed(h, new) \in HandleRecord
      BY <1>1, <3>2 DEF HandleRecord, Statuses
    <3>4. Crashed(h, new).child = None /\ Crashed(h, new).status = s
      BY <1>1, <3>2 DEF HandleRecord
    <3> QED BY <2>2, <3>1, <3>2, <3>3, <3>4
  <2> QED BY <2>1, <2>2
<1> QED BY <1>1, <1>2 DEF Exit

LEMMA SettleTask ==
    ASSUME BaseInv, NEW p \in Processes, NEW h \in Handles, task' = Settle(p, h), NEW t \in Tasks
    PROVE  \/ task'[t] = task[t] /\ t \notin ExitWaiters(p) /\ t \notin Rejected(h)
           \/ /\ TaskOK(t, task'[t]) /\ \A procs : Served(task'[t], procs)
              /\ task[t].reply = "none" /\ task'[t].reply # "none"
              /\ task'[t].pc = task[t].pc
              /\ t \in Operators => /\ task'[t].h = task[t].h /\ task'[t].op = task[t].op
                                    /\ task'[t].seen = task[t].seen /\ task'[t].pid = task[t].pid
<1>1. task'[t] = IF t \in ExitWaiters(p) THEN Reply(t, "exit")
                 ELSE IF t \in Rejected(h) THEN Reply(t, "fail") ELSE task[t]
  BY DEF Settle
<1>2. CASE t \in ExitWaiters(p)
  <2>1. task[t].pc \in RpcPCs \cup WaitPCs /\ task[t].reply = "none"
    BY <1>2 DEF ExitWaiters
  <2> QED BY <1>1, <1>2, <2>1, ReplyOK
<1>3. CASE t \notin ExitWaiters(p) /\ t \in Rejected(h)
  <2>1. task[t].pc \in RpcPCs \cup WaitPCs /\ task[t].reply = "none"
    BY <1>3 DEF Rejected
  <2> QED BY <1>1, <1>3, <2>1, ReplyOK
<1> QED BY <1>1, <1>2, <1>3

LEMMA ExitBase ==
    ASSUME BaseInv, NEW p \in Processes, Exit(p), plugin' \in Plugins
    PROVE  BaseInv'
<1>1. /\ proc \in [Processes -> ProcessRecord] /\ task \in [Tasks -> TaskRecord]
      /\ handle \in [Handles -> HandleRecord] /\ ChildrenOK /\ TasksOK
  BY DEF BaseInv, TypeOK, WorkersTypeOK
<1>2. PICK h \in Handles : h = proc[p].of
  BY ExitEffect
<1>3. PICK z \in HandleRecord : handle' = [handle EXCEPT ![h] = z] /\ z.child = None
  BY <1>2, ExitEffect
<1>4. proc' = [proc EXCEPT ![p] = FreeProcess] /\ proc[p].state # "free" /\ task' = Settle(p, h)
  BY <1>2, ExitEffect
<1>5. FreeProcess \in ProcessRecord /\ FreeProcess.state = "free"
  BY DEF FreeProcess, ProcessRecord
<1>6. \A t \in Tasks : TaskOK(t, task'[t]) /\ Served(task'[t], proc')
  <2> TAKE t \in Tasks
  <2>1. CASE task'[t] = task[t] /\ t \notin Rejected(h)
    <3>1. TaskOK(t, task[t]) /\ Served(task[t], proc)
      BY <1>1 DEF TasksOK
    <3>2. task[t].pc \in RpcPCs /\ task[t].reply = "none" => task[t].pid # p
      BY <1>2, <2>1, <3>1 DEF Rejected, Served
    <3> QED BY <1>1, <1>4, <2>1, <3>1, <3>2 DEF Served
  <2> QED BY <1>4, <2>1, SettleTask
<1>7. task' \in [Tasks -> TaskRecord]
  <2>1. task' = [t \in Tasks |-> task'[t]]
    BY <1>4 DEF Settle
  <2> QED BY <1>6, <2>1 DEF TaskOK
<1>8. TypeOK'
  BY <1>1, <1>3, <1>4, <1>5, <1>7 DEF TypeOK, WorkersTypeOK, BaseInv, Exit
<1>9. ChildrenOK'
  BY <1>1, <1>2, <1>3, <1>4, <1>5, TaskKinds DEF ChildrenOK
<1>10. TasksOK'
  BY <1>6 DEF TasksOK, TaskOK, Served
<1> QED BY <1>8, <1>9, <1>10 DEF BaseInv

-----------------------------------------------------------------------------
(* Continuations.                                                            *)

LEMMA StartingFacts ==
    ASSUME BaseInv, NEW t \in Tasks, task[t].pc \in HandlePCs
    PROVE  task[t].h \in Handles /\ t \notin Callers /\ handle[task[t].h] \in HandleRecord
  BY DEF BaseInv, TasksOK, TaskOK, HandlePCs, StopPCs, TypeOK, WorkersTypeOK

(* What the end of a start says of the handle.                               *)
LEMMA InitializedEffect ==
    ASSUME BaseInv, NEW t \in Tasks, Initialized(t) \/ StartKilled(t)
    PROVE  /\ task[t].h \in Handles /\ task[t].pc \in {"init", "killing"}
           /\ \E pc \in {"started", "failed"} : Return(t, pc)
           /\ proc' = proc /\ workers' = workers
           /\ \E z \in HandleRecord :
                /\ handle' = [handle EXCEPT ![task[t].h] = z]
                /\ z.status \in {"running", "crashed"} /\ z.child = handle[task[t].h].child
                /\ z.timer = handle[task[t].h].timer
                /\ z.intentional = handle[task[t].h].intentional
<1> DEFINE h == task[t].h
<1>1. task[t].pc \in {"init", "killing"}
  BY DEF Initialized, StartKilled
<1>2. h \in Handles /\ handle[h] \in HandleRecord /\ handle \in [Handles -> HandleRecord]
  BY <1>1, StartingFacts DEF HandlePCs, BaseInv, TypeOK, WorkersTypeOK
<1>3. \E z \in HandleRecord :
                /\ handle' = [handle EXCEPT ![h] = z]
                /\ z.status \in {"running", "crashed"} /\ z.child = handle[h].child
                /\ z.timer = handle[h].timer /\ z.intentional = handle[h].intentional
  <2>1. CASE Initialized(t)
    <3>1. PICK z : z = [handle[h] EXCEPT !.crashes = 0, !.status = "running"]
      OBVIOUS
    <3>2. 0 \in 0 .. MaxConsecutive + 1
      BY WorkersAssumption
    <3>3. /\ z \in HandleRecord /\ z.status = "running" /\ z.child = handle[h].child
          /\ z.timer = handle[h].timer /\ z.intentional = handle[h].intentional
      BY <1>2, <3>1, <3>2 DEF HandleRecord, Statuses
    <3>4. handle' = [handle EXCEPT ![h] = z]
      BY <1>2, <2>1, <3>1 DEF Initialized
    <3> QED BY <3>3, <3>4
  <2>2. CASE StartKilled(t)
    <3>1. PICK z : z = [handle[h] EXCEPT !.status = "crashed"]
      OBVIOUS
    <3>2. /\ z \in HandleRecord /\ z.status = "crashed" /\ z.child = handle[h].child
          /\ z.timer = handle[h].timer /\ z.intentional = handle[h].intentional
      BY <1>2, <3>1 DEF HandleRecord, Statuses
    <3>3. handle' = [handle EXCEPT ![h] = z]
      BY <1>2, <2>2, <3>1 DEF StartKilled
    <3> QED BY <3>2, <3>3
  <2> QED BY <2>1, <2>2
<1> QED BY <1>1, <1>2, <1>3 DEF Initialized, StartKilled

LEMMA InitializedKeeps ==
    ASSUME BaseInv, NEW t \in Tasks, Initialized(t) \/ StartKilled(t)
    PROVE  Keeps
<1>1. PICK pc \in {"started", "failed"}, z \in HandleRecord :
          /\ Return(t, pc) /\ handle' = [handle EXCEPT ![task[t].h] = z]
          /\ z.child = handle[task[t].h].child
          /\ task[t].h \in Handles /\ task[t].pc \in {"init", "killing"} /\ proc' = proc
  BY InitializedEffect
<1>2. handle \in [Handles -> HandleRecord]
  BY DEF BaseInv, TypeOK, WorkersTypeOK
<1>3. handle' \in [Handles -> HandleRecord] /\ SameChildren
  BY <1>1, <1>2 DEF SameChildren
<1> QED BY <1>1, <1>3, ReturnKeeps

LEMMA InitializeFailedEffect ==
    ASSUME BaseInv, NEW t \in Tasks, InitializeFailed(t)
    PROVE  /\ task[t].h \in Handles /\ task[t].pc = "init" /\ Keeps /\ SameProcs /\ workers' = workers
           /\ \E z \in HandleRecord :
                /\ handle' = [handle EXCEPT ![task[t].h] = z] /\ z.child = handle[task[t].h].child
                /\ z.timer = handle[task[t].h].timer
                /\ \/ z.status = "crashed"
                   \/ z.status = handle[task[t].h].status
                /\ handle[task[t].h].intentional => z.intentional
           /\ \/ Return(t, "failed") /\ proc' = proc
              \/ \E y \in TaskRecord :
                    /\ task' = [task EXCEPT ![t] = y] /\ y.pc = "killing"
                    /\ y.h = task[t].h /\ y.op = task[t].op /\ y.seen = task[t].seen
<1> DEFINE h == task[t].h
<1>1. task[t].pc = "init" /\ workers' = workers
  BY DEF InitializeFailed
<1>2. /\ h \in Handles /\ handle[h] \in HandleRecord /\ handle \in [Handles -> HandleRecord]
      /\ t \notin Callers /\ task[t] \in TaskRecord /\ proc \in [Processes -> ProcessRecord]
      /\ ChildrenOK /\ TaskOK(t, task[t])
  BY <1>1, StartingFacts DEF HandlePCs, BaseInv, TypeOK, WorkersTypeOK, TasksOK
<1>3. CASE handle[h].child = None
  <2>1. PICK z : z = [handle[h] EXCEPT !.status = "crashed"]
    OBVIOUS
  <2>2. /\ z \in HandleRecord /\ z.status = "crashed" /\ z.child = handle[h].child
        /\ z.timer = handle[h].timer /\ z.intentional = handle[h].intentional
    BY <1>2, <2>1 DEF HandleRecord, Statuses
  <2>3. handle' = [handle EXCEPT ![h] = z] /\ Return(t, "failed") /\ proc' = proc
    BY <1>2, <1>3, <2>1 DEF InitializeFailed
  <2>4. handle' \in [Handles -> HandleRecord] /\ SameChildren /\ SameProcs
    BY <1>2, <2>2, <2>3 DEF SameChildren, SameProcs
  <2>5. Keeps
    BY <1>1, <2>3, <2>4, ReturnKeeps
  <2> QED BY <1>1, <1>2, <2>2, <2>3, <2>4, <2>5
<1>4. CASE handle[h].child # None
  <2>1. PICK z : z = [handle[h] EXCEPT !.intentional = TRUE]
    OBVIOUS
  <2>2. /\ z \in HandleRecord /\ z.status = handle[h].status /\ z.child = handle[h].child
        /\ z.timer = handle[h].timer /\ z.intentional
    BY <1>2, <2>1 DEF HandleRecord
  <2>3. handle' = [handle EXCEPT ![h] = z]
    BY <1>2, <1>4, <2>1 DEF InitializeFailed
  <2>4. PICK y : y = [task[t] EXCEPT !.pc = "killing", !.reply = "none", !.pid = handle[h].child]
    OBVIOUS
  <2>5. /\ y \in TaskRecord /\ y.pc = "killing" /\ y.h = h /\ y.op = task[t].op
        /\ y.seen = task[t].seen
    BY <1>2, <2>4 DEF TaskRecord, HandleRecord, PCs, WaitPCs, Replies
  <2>6. task' = [task EXCEPT ![t] = y]
    BY <1>2, <1>4, <2>4 DEF InitializeFailed
  <2>7. proc' \in [Processes -> ProcessRecord] /\ SameProcs
    <3>1. handle[h].child \in Processes
      BY <1>2, <1>4 DEF HandleRecord
    <3>2. PICK q : q = [proc[handle[h].child] EXCEPT !.state = "killed"]
      OBVIOUS
    <3>3. q \in ProcessRecord /\ q.state = "killed" /\ q.of = proc[handle[h].child].of
      BY <1>2, <3>1, <3>2 DEF ProcessRecord
    <3>4. proc' = [proc EXCEPT ![handle[h].child] = q]
      BY <1>2, <1>4, <3>2 DEF InitializeFailed
    <3> QED BY <1>2, <3>1, <3>3, <3>4 DEF SameProcs, ChildrenOK
  <2>8. TaskOK(t, y) /\ Served(y, proc')
    BY <1>1, <1>2, <2>5 DEF TaskOK, Served, RpcPCs
  <2>9. handle' \in [Handles -> HandleRecord] /\ SameChildren
    BY <1>2, <2>2, <2>3 DEF SameChildren
  <2>10. Keeps
    BY <2>6, <2>7, <2>8, <2>9, MoveKeeps
  <2> QED BY <1>1, <1>2, <2>2, <2>3, <2>5, <2>6, <2>7, <2>10
<1> QED BY <1>3, <1>4

LEMMA StopContinuesEffect ==
    ASSUME BaseInv, NEW t \in Tasks, StopContinues(t)
    PROVE  /\ t \in Operators /\ Keeps /\ SameProcs /\ workers' = workers
           /\ task[t].pc \in StopPCs /\ task[t].reply # "none" /\ task[t].h \in Handles
           /\ \E y \in TaskRecord :
                /\ task' = [task EXCEPT ![t] = y]
                /\ y.h = task[t].h /\ y.op = task[t].op /\ y.seen = task[t].seen
                /\ \/ /\ y.pc = "stopped"
                      /\ handle[y.h].child = None \/ task[t].pc = "kill"
                      /\ \E z \in HandleRecord :
                            /\ handle' = [handle EXCEPT ![y.h] = z] /\ z.status = "stopped"
                            /\ z.child = handle[y.h].child /\ z.timer = handle[y.h].timer
                   \/ /\ y.pc \in {"linger", "term", "kill"} /\ handle' = handle
                      /\ y.pid = handle[y.h].child /\ y.reply = "none"
<1> DEFINE h == task[t].h
           child == handle[h].child
<1>1. /\ task[t].pc \in {"shutdown", "linger", "term", "kill"} /\ task[t].reply # "none"
      /\ workers' = workers
  BY DEF StopContinues, Settled, WaitPCs
<1>2. /\ h \in Handles /\ handle[h] \in HandleRecord /\ handle \in [Handles -> HandleRecord]
      /\ task[t] \in TaskRecord /\ proc \in [Processes -> ProcessRecord]
      /\ ChildrenOK /\ TaskOK(t, task[t])
  BY <1>1, StartingFacts DEF HandlePCs, StopPCs, BaseInv, TypeOK, WorkersTypeOK, TasksOK
<1>3. t \in Operators /\ t \notin Handles /\ t \notin Callers
  BY <1>1, <1>2, TaskKinds DEF TaskOK, Tasks
<1>4. PICK next \in {"linger", "term", "kill", "stopped"} :
          /\ next = IF task[t].pc = "kill" THEN "stopped" ELSE Escalation[task[t].pc]
          /\ next = "stopped" => task[t].pc = "kill"
  BY <1>1 DEF Escalation
<1>5. CASE child = None \/ next = "stopped"
  <2>1. PICK z : z = [handle[h] EXCEPT !.status = "stopped"]
    OBVIOUS
  <2>2. /\ z \in HandleRecord /\ z.status = "stopped" /\ z.child = child /\ z.timer = handle[h].timer
    BY <1>2, <2>1 DEF HandleRecord, Statuses
  <2>3. PICK y : y = [task[t] EXCEPT !.pc = "stopped", !.reply = "none", !.pid = None]
    OBVIOUS
  <2>4. /\ y \in TaskRecord /\ y.pc = "stopped" /\ y.h = h /\ y.op = task[t].op /\ y.seen = task[t].seen
    BY <1>2, <2>3 DEF TaskRecord, PCs, Replies
  <2>5. handle' = [handle EXCEPT ![h] = z] /\ task' = [task EXCEPT ![t] = y] /\ proc' = proc
    BY <1>2, <1>4, <1>5, <2>1, <2>3 DEF StopContinues
  <2>6. SameProcs /\ SameChildren /\ handle' \in [Handles -> HandleRecord]
    BY <1>2, <2>2, <2>5 DEF SameProcs, SameChildren
  <2>7. TaskOK(t, y) /\ Served(y, proc')
    BY <1>2, <1>3, <2>4 DEF TaskOK, Served, RpcPCs
  <2>8. Keeps
    BY <1>2, <2>5, <2>6, <2>7, MoveKeeps
  <2>9. child = None \/ task[t].pc = "kill"
    BY <1>4, <1>5
  <2> QED BY <1>1, <1>2, <1>3, <2>2, <2>4, <2>5, <2>6, <2>8, <2>9 DEF StopPCs
<1>6. CASE ~(child = None \/ next = "stopped")
  <2>1. PICK y : y = [task[t] EXCEPT !.pc = next, !.pid = child, !.reply = "none"]
    OBVIOUS
  <2>2. /\ y \in TaskRecord /\ y.pc = next /\ y.h = h /\ y.op = task[t].op /\ y.seen = task[t].seen
        /\ y.pid = child /\ y.reply = "none" /\ y.pc \in {"linger", "term", "kill"}
    BY <1>2, <1>6, <2>1 DEF TaskRecord, HandleRecord, PCs, WaitPCs, Replies
  <2>3. task' = [task EXCEPT ![t] = y] /\ handle' = handle
    BY <1>2, <1>4, <1>6, <2>1 DEF StopContinues
  <2>4. proc' \in [Processes -> ProcessRecord] /\ SameProcs
    <3>1. CASE next = "kill"
      <4>0. child \in Processes
        BY <1>2, <1>6 DEF HandleRecord
      <4>1. PICK q : q = [proc[child] EXCEPT !.state = "killed"]
        OBVIOUS
      <4>2. child \in Processes /\ q \in ProcessRecord /\ q.state = "killed" /\ q.of = proc[child].of
        BY <1>2, <4>0, <4>1 DEF ProcessRecord
      <4>3. proc' = [proc EXCEPT ![child] = q]
        BY <1>2, <1>4, <1>6, <3>1, <4>1 DEF StopContinues
      <4>4. proc[child].state # "free"
        BY <1>2, <4>0 DEF ChildrenOK
      <4> QED BY <1>2, <4>2, <4>3, <4>4 DEF SameProcs
    <3>2. CASE next # "kill"
      <4>1. proc' = proc
        BY <1>4, <1>6, <3>2 DEF StopContinues
      <4> QED BY <1>2, <4>1 DEF SameProcs
    <3> QED BY <3>1, <3>2
  <2>5. TaskOK(t, y) /\ Served(y, proc')
    BY <1>2, <1>3, <2>2 DEF TaskOK, Served, RpcPCs
  <2>6. SameChildren /\ handle' \in [Handles -> HandleRecord]
    BY <1>2, <2>3 DEF SameChildren
  <2>7. Keeps
    BY <2>3, <2>4, <2>5, <2>6, MoveKeeps
  <2> QED BY <1>1, <1>2, <1>3, <2>2, <2>3, <2>4, <2>7 DEF StopPCs
<1> QED BY <1>5, <1>6

-----------------------------------------------------------------------------
(* Steps of the operators.                                                   *)

(* A step that concerns the plugin's row moves the operator only.            *)
LEMMA StepKeeps ==
    ASSUME BaseInv, NEW o \in Operators, NEW y \in TaskRecord, y.pc \notin HandlePCs \cup RpcPCs,
           task' = [task EXCEPT ![o] = y], handle' = handle, proc' = proc
    PROVE  Keeps /\ SameProcs
<1>1. /\ handle \in [Handles -> HandleRecord] /\ proc \in [Processes -> ProcessRecord]
      /\ o \in Tasks /\ o \notin Handles /\ o \notin Callers
  BY TaskKinds DEF BaseInv, TypeOK, WorkersTypeOK
<1>2. TaskOK(o, y) /\ Served(y, proc')
  BY <1>1 DEF TaskOK, Served, RpcPCs
<1>3. SameProcs /\ SameChildren
  BY DEF SameProcs, SameChildren
<1> QED BY <1>1, <1>2, <1>3, MoveKeeps

(* ... and these are its steps.                                              *)
RowStep(o) ==
    \/ Install(o) \/ WriteStatus(o) \/ LoadSingle(o) \/ Activated(o) \/ ActivationFailed(o) \/ Register(o)
    \/ \E op \in Ops : Request(o, op)

LEMMA RowStepEffect ==
    ASSUME BaseInv, NEW o \in Operators, RowStep(o)
    PROVE  /\ workers' = workers /\ handle' = handle /\ proc' = proc /\ plugin' \in Plugins
           /\ task[o].pc \notin HandlePCs
           /\ \E y \in TaskRecord : /\ task' = [task EXCEPT ![o] = y]
                                    /\ y.pc \in {"idle", "read", "load", "start", "register"}
<1>0. task[o].pc \notin HandlePCs
  BY DEF RowStep, Install, WriteStatus, LoadSingle, Activated, ActivationFailed, Register, Request, At,
         HandlePCs, StopPCs
<1>1. /\ task[o] \in TaskRecord /\ task \in [Tasks -> TaskRecord] /\ o \in Tasks
      /\ plugin \in Plugins
  BY TaskKinds DEF BaseInv, TypeOK, WorkersTypeOK
<1>2. Idle \in TaskRecord /\ Idle.pc = "idle"
  BY IdleOK DEF Idle
<1>3. \A pc \in {"load", "start"} :
          [task[o] EXCEPT !.pc = pc] \in TaskRecord /\ [task[o] EXCEPT !.pc = pc].pc = pc
  BY <1>1 DEF TaskRecord, PCs
<1>4. \A pc \in {"read", "load"}, op \in Ops :
          /\ [Idle EXCEPT !.pc = pc, !.op = op] \in TaskRecord
          /\ [Idle EXCEPT !.pc = pc, !.op = op].pc = pc
  BY <1>2 DEF TaskRecord, PCs
<1>5. CASE Install(o)
  <2>1. task[o].pc = "read" /\ [task[o] EXCEPT !.op = "load"] \in TaskRecord
        /\ [task[o] EXCEPT !.op = "load"].pc = "read"
    BY <1>1, <1>5 DEF Install, At, TaskRecord, Ops
  <2> QED BY <1>0, <1>1, <1>2, <1>5, <2>1 DEF Install, Finish, Plugins
<1>6. CASE WriteStatus(o)
  <2>1. "load" \in Ops
    BY DEF Ops
  <2>2. \E y \in TaskRecord : task' = [task EXCEPT ![o] = y] /\ y.pc \in {"idle", "load"}
    BY <1>2, <1>4, <1>6, <2>1 DEF WriteStatus, Finish
  <2>3. \A op : Target(op) \in Plugins
    BY DEF Target, Plugins
  <2>4. plugin' \in Plugins
    BY <1>1, <1>6, <2>3 DEF WriteStatus
  <2> QED BY <1>0, <1>6, <2>2, <2>4 DEF WriteStatus
<1>7. CASE LoadSingle(o)
  BY <1>0, <1>1, <1>2, <1>3, <1>7 DEF LoadSingle, Goto, Finish
<1>8. CASE Activated(o) \/ ActivationFailed(o) \/ Register(o)
  <2>1. "load" \in Ops /\ "markError" \in Ops
    BY DEF Ops
  <2>2. PICK x : x = [Idle EXCEPT !.pc = "register", !.op = "load"]
    OBVIOUS
  <2>3. x \in TaskRecord /\ x.pc = "register"
    BY <1>2, <2>1, <2>2 DEF TaskRecord, PCs
  <2>4. \/ Finish(o) \/ task' = [task EXCEPT ![o] = x]
        \/ task' = [task EXCEPT ![o] = [Idle EXCEPT !.pc = "read", !.op = "markError"]]
    BY <1>8, <2>2 DEF Activated, ActivationFailed, Register, MarkError
  <2>5. \E y \in TaskRecord : task' = [task EXCEPT ![o] = y] /\ y.pc \in {"idle", "read", "register"}
    BY <1>2, <1>4, <2>1, <2>3, <2>4 DEF Finish
  <2> QED BY <1>0, <1>1, <1>8, <2>5 DEF Activated, ActivationFailed, Register
<1>9. CASE \E op \in Ops : Request(o, op)
  BY <1>0, <1>1, <1>4, <1>9 DEF Request
<1> QED BY <1>5, <1>6, <1>7, <1>8, <1>9 DEF RowStep

(* Reading the row and deactivating end the operation, go on, or begin a stop. *)
LEMMA ReadEffect ==
    ASSUME BaseInv, NEW o \in Operators, ReadPlugin(o) \/ Deactivate(o)
    PROVE  /\ workers' = workers /\ plugin' = plugin /\ Keeps /\ SameProcs
           /\ task[o].pc \in {"read", "deactivate"}
           /\ \E y \in TaskRecord :
                /\ task' = [task EXCEPT ![o] = y]
                /\ \/ handle' = handle /\ proc' = proc /\ y.pc \in {"idle", "deactivate", "write"}
                   \/ workers # None /\ y.h = workers /\ StopEffect(workers, y)
                /\ \/ y.pc = "idle" /\ task[o].pc = "read" /\ ~Admissible(task[o].op)
                   \/ /\ y.pc # "idle" /\ y.op = task[o].op
                      /\ \/ /\ task[o].pc = "read" /\ y.seen = plugin /\ y.op # "install"
                            /\ Admissible(y.op)
                            /\ y.pc \in {"write", "deactivate"} => y.op # "restart"
                         \/ task[o].pc = "deactivate" /\ y.seen = task[o].seen
<1>1. /\ task[o] \in TaskRecord /\ task \in [Tasks -> TaskRecord] /\ o \in Tasks
      /\ plugin \in Plugins /\ handle \in [Handles -> HandleRecord]
      /\ workers \in Handles \cup {None}
  BY TaskKinds DEF BaseInv, TypeOK, WorkersTypeOK
<1>2. Idle \in TaskRecord /\ Idle.pc = "idle"
  BY IdleOK DEF Idle
<1>3. CASE ReadPlugin(o)
  <2>1. PICK rec : rec = [task[o] EXCEPT !.seen = plugin]
    OBVIOUS
  <2>2. rec \in TaskRecord /\ rec.op = task[o].op /\ rec.seen = plugin
    BY <1>1, <2>1 DEF TaskRecord
  <2>3. /\ task[o].pc = "read" /\ task[o].op # "install" /\ workers' = workers /\ plugin' = plugin
    BY <1>3 DEF ReadPlugin, At
  <2>4. CASE ~Admissible(task[o].op)
    <3>1. task' = [task EXCEPT ![o] = Idle] /\ handle' = handle /\ proc' = proc
      BY <1>3, <2>4 DEF ReadPlugin, Finish
    <3>2. Idle.pc \notin HandlePCs \cup RpcPCs
      BY <1>2 DEF HandlePCs, StopPCs, RpcPCs
    <3>3. Keeps /\ SameProcs
      BY <1>2, <3>1, <3>2, StepKeeps
    <3> QED BY <1>2, <2>3, <2>4, <3>1, <3>3
  <2>5. CASE /\ Admissible(task[o].op)
             /\ task[o].op = "restart" \/ (task[o].op = "markError" /\ workers # None)
    <3>1. StopInternal(o, workers, rec)
      BY <1>3, <2>1, <2>5 DEF ReadPlugin
    <3>2. workers # None
      BY <2>5 DEF Admissible
    <3>3. workers \in Handles
      BY <1>1, <3>2
    <3>4. /\ Keeps /\ SameProcs
          /\ \E y \in TaskRecord : /\ task' = [task EXCEPT ![o] = y]
                                   /\ y.op = rec.op /\ y.seen = rec.seen /\ y.h = workers
                                   /\ StopEffect(workers, y)
      BY <2>2, <3>1, <3>3, StopKeeps
    <3>5. PICK y \in TaskRecord : /\ task' = [task EXCEPT ![o] = y]
                                  /\ y.op = task[o].op /\ y.seen = plugin /\ y.h = workers
                                  /\ StopEffect(workers, y)
      BY <2>2, <3>4
    <3>6. y.pc \notin {"write", "deactivate", "idle"}
      BY <3>5 DEF StopEffect
    <3> QED BY <2>3, <2>5, <3>2, <3>4, <3>5, <3>6
  <2>6. CASE /\ Admissible(task[o].op) /\ task[o].op # "restart"
             /\ ~(task[o].op = "markError" /\ workers # None)
    <3>1. PICK pc \in {"deactivate", "write"} :
              task' = [task EXCEPT ![o] = [rec EXCEPT !.pc = pc]] /\ handle' = handle /\ proc' = proc
      BY <1>3, <2>1, <2>6 DEF ReadPlugin
    <3>2. PICK y : y = [rec EXCEPT !.pc = pc]
      OBVIOUS
    <3>3. /\ y \in TaskRecord /\ y.pc = pc /\ y.op = task[o].op /\ y.seen = plugin
      BY <2>2, <3>2 DEF TaskRecord, PCs
    <3>4. y.pc \notin HandlePCs \cup RpcPCs
      BY <3>3 DEF HandlePCs, StopPCs, RpcPCs
    <3>5. Keeps /\ SameProcs
      BY <3>1, <3>2, <3>3, <3>4, StepKeeps
    <3> QED BY <2>3, <2>6, <3>1, <3>2, <3>3, <3>5
  <2> QED BY <2>4, <2>5, <2>6
<1>4. CASE Deactivate(o)
  <2>1. /\ task[o].pc = "deactivate" /\ workers' = workers /\ plugin' = plugin
    BY <1>4 DEF Deactivate, At
  <2>2. CASE workers # None /\ handle[workers].status = "running"
    <3>1. StopInternal(o, workers, task[o]) /\ workers \in Handles
      BY <1>1, <1>4, <2>2 DEF Deactivate
    <3>2. /\ Keeps /\ SameProcs
          /\ \E y \in TaskRecord : /\ task' = [task EXCEPT ![o] = y]
                                   /\ y.op = task[o].op /\ y.seen = task[o].seen /\ y.h = workers
                                   /\ StopEffect(workers, y)
      BY <1>1, <3>1, StopKeeps
    <3>3. PICK y \in TaskRecord : /\ task' = [task EXCEPT ![o] = y]
                                  /\ y.op = task[o].op /\ y.seen = task[o].seen /\ y.h = workers
                                  /\ StopEffect(workers, y)
      BY <3>2
    <3>4. y.pc # "idle"
      BY <3>3 DEF StopEffect
    <3> QED BY <2>1, <2>2, <3>2, <3>3, <3>4
  <2>3. CASE ~(workers # None /\ handle[workers].status = "running")
    <3>1. PICK y : y = [task[o] EXCEPT !.pc = "write"]
      OBVIOUS
    <3>2. y \in TaskRecord /\ y.pc = "write" /\ y.op = task[o].op /\ y.seen = task[o].seen
      BY <1>1, <3>1 DEF TaskRecord, PCs
    <3>3. task' = [task EXCEPT ![o] = y] /\ handle' = handle /\ proc' = proc
      BY <1>1, <1>4, <2>3, <3>1 DEF Deactivate, Goto
    <3>4. y.pc \notin HandlePCs \cup RpcPCs
      BY <3>2 DEF HandlePCs, StopPCs, RpcPCs
    <3>5. Keeps /\ SameProcs
      BY <3>2, <3>3, <3>4, StepKeeps
    <3> QED BY <2>1, <3>2, <3>3, <3>5
  <2> QED BY <2>2, <2>3
<1> QED BY <1>3, <1>4

(* After a stop the registration is dropped, or the handle starts again.     *)
LEMMA WorkerStoppedEffect ==
    ASSUME BaseInv, NEW o \in Operators, WorkerStopped(o)
    PROVE  /\ plugin' = plugin /\ Keeps /\ task[o].pc = "stopped" /\ task[o].h \in Handles
           /\ \E y \in TaskRecord :
                /\ task' = [task EXCEPT ![o] = y] /\ y.op = task[o].op /\ y.seen = task[o].seen
                /\ \/ /\ workers' = workers /\ StartEffect(task[o].h, handle[task[o].h])
                      /\ y.op = "restart"
                      /\ y.pc = "failed" \/ (y.pc = "init" /\ y.h = task[o].h)
                   \/ /\ workers' = None /\ y.pc = "write" /\ proc' = proc /\ y.op # "restart"
                      /\ \/ handle' = handle
                         \/ handle' = [handle EXCEPT ![task[o].h] = NewHandle]
<1> DEFINE h == task[o].h
<1>1. /\ task[o] \in TaskRecord /\ task \in [Tasks -> TaskRecord] /\ o \in Tasks
      /\ handle \in [Handles -> HandleRecord] /\ proc \in [Processes -> ProcessRecord]
      /\ task[o].pc = "stopped" /\ plugin' = plugin /\ o \notin Callers /\ o \notin Handles
  BY TaskKinds DEF BaseInv, TypeOK, WorkersTypeOK, WorkerStopped
<1>2. h \in Handles /\ handle[h] \in HandleRecord
  BY <1>1, StartingFacts DEF HandlePCs
<1>3. CASE task[o].op = "restart"
  <2>1. StartInternal(o, h, task[o], handle[h]) /\ workers' = workers
    BY <1>3 DEF WorkerStopped
  <2>2. /\ Keeps /\ StartEffect(h, handle[h])
        /\ \E y \in TaskRecord : /\ task' = [task EXCEPT ![o] = y]
                                 /\ o \notin Handles => y.op = task[o].op /\ y.seen = task[o].seen
                                 /\ \/ y.pc = "init" /\ y.h = h
                                    \/ o \in Handles /\ y = Idle
                                    \/ o \notin Handles /\ y.pc = "failed"
    <3>1. o \in Tasks \ Callers /\ handle[h].child \in {handle[h].child, None}
          /\ (o \in Handles => o = h)
      BY <1>1
    <3> QED BY <1>1, <1>2, <2>1, <3>1, StartKeeps
  <2> QED BY <1>1, <1>2, <1>3, <2>1, <2>2
<1>4. CASE task[o].op # "restart"
  <2>1. PICK y : y = [task[o] EXCEPT !.pc = "write", !.h = None]
    OBVIOUS
  <2>2. y \in TaskRecord /\ y.pc = "write" /\ y.op = task[o].op /\ y.seen = task[o].seen
    BY <1>1, <2>1 DEF TaskRecord, PCs
  <2>3. workers' = None /\ task' = [task EXCEPT ![o] = y] /\ handle' = Forgotten(h) /\ proc' = proc
    BY <1>1, <1>4, <2>1 DEF WorkerStopped
  <2>4. handle' = handle \/ handle' = [handle EXCEPT ![h] = NewHandle]
    BY <1>1, <1>2, <2>3 DEF Forgotten
  <2>5. NewHandle \in HandleRecord /\ NewHandle.child = None
    BY WorkersAssumption DEF NewHandle, HandleRecord, Statuses
  <2>6. handle' \in [Handles -> HandleRecord] /\ SameChildren
    BY <1>1, <1>2, <2>4, <2>5 DEF SameChildren
  <2>7. SameProcs
    BY <2>3 DEF SameProcs
  <2>8. TaskOK(o, y) /\ Served(y, proc')
    BY <1>1, <2>2 DEF TaskOK, Served, RpcPCs, HandlePCs, StopPCs
  <2>9. Keeps
    BY <1>1, <2>2, <2>3, <2>6, <2>7, <2>8, MoveKeeps
  <2> QED BY <1>1, <1>2, <1>4, <2>2, <2>3, <2>4, <2>9
<1> QED BY <1>3, <1>4

(* A start joins, is refused, or registers an unused handle.                 *)
LEMMA StartWorkerEffect ==
    ASSUME BaseInv, NEW o \in Operators, StartWorker(o)
    PROVE  /\ plugin' = plugin /\ Keeps /\ task[o].pc = "start"
           /\ \E y \in TaskRecord :
                /\ task' = [task EXCEPT ![o] = y] /\ y.op = task[o].op
                /\ \/ /\ workers' = workers /\ handle' = handle /\ proc' = proc
                      /\ \/ y.pc = "join" /\ \E t \in Tasks : HoldsStartupLock(t)
                         \/ y.pc = "failed" /\ ~Replaceable(workers)
                   \/ \E h \in Handles :
                        /\ workers' = h /\ Unused(h) /\ Replaceable(workers)
                        /\ StartEffect(h, NewHandle)
                        /\ y.pc = "failed" \/ (y.pc = "init" /\ y.h = h)
<1>1. /\ task[o] \in TaskRecord /\ task \in [Tasks -> TaskRecord] /\ o \in Tasks
      /\ handle \in [Handles -> HandleRecord] /\ proc \in [Processes -> ProcessRecord]
      /\ task[o].pc = "start" /\ plugin' = plugin /\ o \notin Callers /\ o \notin Handles
  BY TaskKinds DEF BaseInv, TypeOK, WorkersTypeOK, StartWorker, At
<1>2. ASSUME NEW pc \in {"join", "failed"}, Goto(o, pc), handle' = handle, proc' = proc
      PROVE  /\ Keeps
             /\ \E y \in TaskRecord : /\ task' = [task EXCEPT ![o] = y] /\ y.pc = pc
                                      /\ y.op = task[o].op
  <2>1. PICK y : y = [task[o] EXCEPT !.pc = pc]
    OBVIOUS
  <2>2. y \in TaskRecord /\ y.pc = pc /\ y.op = task[o].op
    BY <1>1, <2>1 DEF TaskRecord, PCs
  <2>3. task' = [task EXCEPT ![o] = y]
    BY <1>1, <1>2, <2>1 DEF Goto
  <2>4. y.pc \notin HandlePCs \cup RpcPCs
    BY <2>2 DEF HandlePCs, StopPCs, RpcPCs
  <2> QED BY <1>2, <2>2, <2>3, <2>4, StepKeeps
<1>3. CASE \E t \in Tasks : HoldsStartupLock(t)
  <2>1. Goto(o, "join") /\ workers' = workers /\ handle' = handle /\ proc' = proc
    BY <1>3 DEF StartWorker
  <2> QED BY <1>1, <1>2, <1>3, <2>1
<1>4. CASE ~(\E t \in Tasks : HoldsStartupLock(t)) /\ ~Replaceable(workers)
  <2>1. Goto(o, "failed") /\ workers' = workers /\ handle' = handle /\ proc' = proc
    BY <1>4 DEF StartWorker
  <2> QED BY <1>1, <1>2, <1>4, <2>1
<1>5. CASE ~(\E t \in Tasks : HoldsStartupLock(t)) /\ Replaceable(workers)
  <2>1. PICK h \in Handles : /\ Unused(h) /\ workers' = h
                             /\ StartInternal(o, h, task[o], NewHandle)
    BY <1>5 DEF StartWorker
  <2>2. /\ NewHandle \in HandleRecord /\ NewHandle.child \in {handle[h].child, None}
        /\ o \in Tasks \ Callers /\ (o \in Handles => o = h)
    BY <1>1, WorkersAssumption DEF NewHandle, HandleRecord, Statuses
  <2>3. /\ Keeps /\ StartEffect(h, NewHandle)
        /\ \E y \in TaskRecord : /\ task' = [task EXCEPT ![o] = y]
                                 /\ o \notin Handles => y.op = task[o].op /\ y.seen = task[o].seen
                                 /\ \/ y.pc = "init" /\ y.h = h
                                    \/ o \in Handles /\ y = Idle
                                    \/ o \notin Handles /\ y.pc = "failed"
    BY <1>1, <2>1, <2>2, StartKeeps
  <2> QED BY <1>1, <1>5, <2>1, <2>3
<1> QED BY <1>3, <1>4, <1>5

-----------------------------------------------------------------------------
(* The base invariant holds, and what every step does to the calls.          *)

LEMMA BaseInit == Init => BaseInv
<1> SUFFICES ASSUME Init PROVE BaseInv
  OBVIOUS
<1>1. NewHandle \in HandleRecord /\ NewHandle.child = None
  BY WorkersAssumption DEF NewHandle, HandleRecord, Statuses
<1>2. FreeProcess \in ProcessRecord /\ FreeProcess.state = "free"
  BY DEF FreeProcess, ProcessRecord
<1>3. PICK y : y = [Idle EXCEPT !.pc = "start", !.op = "load"]
  OBVIOUS
<1>4. y \in TaskRecord /\ y.pc = "start"
  BY <1>3, IdleOK DEF TaskRecord, PCs, Ops
<1>5. Boot \in Operators /\ Boot \notin Handles /\ Boot \notin Callers /\ Boot \in Tasks
  BY LifecycleAssumption, TaskKinds
<1>6. \A t \in Tasks : task[t] = IF t = Boot THEN y ELSE Idle
  BY <1>3 DEF Init
<1>7. TaskOK(Boot, y) /\ Served(y, proc)
  BY <1>4, <1>5 DEF TaskOK, Served, RpcPCs, HandlePCs, StopPCs
<1>8. TasksOK
  BY <1>6, <1>7, IdleOK DEF TasksOK
<1>9. /\ handle \in [Handles -> HandleRecord] /\ proc \in [Processes -> ProcessRecord]
      /\ task \in [Tasks -> TaskRecord] /\ ChildrenOK
  BY <1>1, <1>2, <1>3, <1>4, IdleOK, TaskKinds DEF Init, WorkersInit, ChildrenOK
<1>10. TypeOK
  BY <1>9 DEF Init, WorkersInit, TypeOK, WorkersTypeOK, Plugins
<1> QED BY <1>8, <1>9, <1>10 DEF BaseInv

(* The calls that have settled stay as they are.                             *)
SettledCallsStay == \A c \in Callers : task[c].reply # "none" => task'[c].reply = task[c].reply

LEMMA OtherTaskStays ==
    ASSUME BaseInv, NEW t \in Tasks \ Callers, NEW y, task' = [task EXCEPT ![t] = y]
    PROVE  SettledCallsStay
  BY TaskKinds DEF SettledCallsStay, BaseInv, TypeOK, WorkersTypeOK

LEMMA ReturnStays ==
    ASSUME BaseInv, NEW t \in Tasks, task[t].pc \in {"init", "killing"}, NEW pc, Return(t, pc)
    PROVE  SettledCallsStay
<1> SUFFICES ASSUME NEW c \in Callers PROVE task'[c] = task[c]
  BY DEF SettledCallsStay
<1>1. c \in Tasks /\ task[c].pc \in {"idle", "calling"}
  BY TaskKinds DEF BaseInv, TasksOK, TaskOK
<1> QED BY <1>1 DEF Return

LEMMA BaseStep ==
    ASSUME BaseInv, Next
    PROVE  BaseInv' /\ SettledCallsStay
<1>1. workers \in Handles \cup {None} /\ plugin \in Plugins
  BY DEF BaseInv, TypeOK, WorkersTypeOK
<1>2. ASSUME NEW p \in Processes, Exit(p), plugin' = plugin
      PROVE  BaseInv' /\ SettledCallsStay
  <2>1. BaseInv'
    BY <1>1, <1>2, ExitBase
  <2>2. ASSUME NEW c \in Callers, task[c].reply # "none"
        PROVE  task'[c] = task[c]
    <3>1. proc[p].of \in Handles /\ task' = Settle(p, proc[p].of)
      BY <1>2, ExitEffect
    <3>2. c \in Tasks
      BY TaskKinds
    <3> QED BY <2>2, <3>1, <3>2, SettleTask
  <2> QED BY <2>1, <2>2 DEF SettledCallsStay
<1>3. ASSUME NEW p \in Processes, NEW t \in proc[p].inbox, Answer(p, t), plugin' = plugin
      PROVE  BaseInv' /\ SettledCallsStay
  <2>1. Keeps /\ workers' = workers
    BY <1>3, AnswerKeeps DEF Answer
  <2>2. \A c \in Callers : task[c].reply # "none" => task'[c] = task[c]
    BY <1>3, TaskKinds DEF Answer, Pending, BaseInv, TypeOK, WorkersTypeOK
  <2> QED BY <1>1, <1>3, <2>1, <2>2, KeepsBase DEF SettledCallsStay
<1>4. ASSUME NEW t \in Tasks, Expire(t), plugin' = plugin
      PROVE  BaseInv' /\ SettledCallsStay
  <2>1. Keeps /\ workers' = workers
    BY <1>4, ExpireKeeps DEF Expire
  <2>2. \A c \in Callers : task[c].reply # "none" => task'[c] = task[c]
    BY <1>4, TaskKinds DEF Expire, MayExpire, BaseInv, TypeOK, WorkersTypeOK
  <2> QED BY <1>1, <1>4, <2>1, <2>2, KeepsBase DEF SettledCallsStay
<1>5. ASSUME NEW h \in Handles, BackoffFires(h), plugin' = plugin
      PROVE  BaseInv' /\ SettledCallsStay
  <2>1. Keeps /\ workers' = workers /\ \A s \in Tasks : s # h => task'[s] = task[s]
    BY <1>5, BackoffKeeps DEF BackoffFires
  <2>2. \A c \in Callers : task'[c] = task[c]
    BY <2>1, TaskKinds
  <2> QED BY <1>1, <1>5, <2>1, <2>2, KeepsBase DEF SettledCallsStay
<1>6. ASSUME NEW c \in Callers, Call(c), plugin' = plugin
      PROVE  BaseInv' /\ SettledCallsStay
  <2>1. Keeps /\ workers' = workers /\ \A s \in Tasks : s # c => task'[s] = task[s]
    BY <1>6, CallKeeps DEF Call
  <2>2. task[c].reply = "none"
    BY <1>6, TaskKinds DEF Call, BaseInv, TasksOK, TaskOK
  <2>3. \A d \in Callers : task[d].reply # "none" => task'[d] = task[d]
    BY <2>1, <2>2, TaskKinds
  <2> QED BY <1>1, <1>6, <2>1, <2>3, KeepsBase DEF SettledCallsStay
<1>7. ASSUME NEW t \in Tasks, Initialized(t) \/ StartKilled(t), plugin' = plugin
      PROVE  BaseInv' /\ SettledCallsStay
  <2>1. Keeps
    BY <1>7, InitializedKeeps
  <2>2. PICK pc : Return(t, pc) /\ task[t].pc \in {"init", "killing"} /\ workers' = workers
    BY <1>7, InitializedEffect
  <2>3. SettledCallsStay
    BY <2>2, ReturnStays
  <2> QED BY <1>1, <1>7, <2>1, <2>2, <2>3, KeepsBase
<1>8. ASSUME NEW t \in Tasks, InitializeFailed(t), plugin' = plugin
      PROVE  BaseInv' /\ SettledCallsStay
  <2>1. /\ Keeps /\ workers' = workers /\ task[t].pc = "init"
        /\ Return(t, "failed") \/ \E y : task' = [task EXCEPT ![t] = y]
    BY <1>8, InitializeFailedEffect
  <2>2. t \in Tasks \ Callers
    BY <2>1, StartingFacts DEF HandlePCs
  <2>3. SettledCallsStay
    BY <2>1, <2>2, ReturnStays, OtherTaskStays
  <2> QED BY <1>1, <1>8, <2>1, <2>3, KeepsBase
<1>9. ASSUME NEW t \in Tasks, StopContinues(t), plugin' = plugin
      PROVE  BaseInv' /\ SettledCallsStay
  <2>1. /\ t \in Operators /\ Keeps /\ workers' = workers
        /\ \E y : task' = [task EXCEPT ![t] = y]
    BY <1>9, StopContinuesEffect
  <2>2. SettledCallsStay
    BY <2>1, OtherTaskStays, TaskKinds
  <2> QED BY <1>1, <1>9, <2>1, <2>2, KeepsBase
<1>10. ASSUME NEW o \in Operators, RowStep(o)
       PROVE  BaseInv' /\ SettledCallsStay
  <2>1. PICK y \in TaskRecord :
            /\ task' = [task EXCEPT ![o] = y] /\ y.pc \in {"idle", "read", "load", "start", "register"}
            /\ workers' = workers /\ handle' = handle /\ proc' = proc /\ plugin' \in Plugins
    BY <1>10, RowStepEffect
  <2>2. y.pc \notin HandlePCs \cup RpcPCs
    BY <2>1 DEF HandlePCs, StopPCs, RpcPCs
  <2>3. Keeps
    BY <2>1, <2>2, StepKeeps
  <2>4. SettledCallsStay
    BY <2>1, OtherTaskStays, TaskKinds
  <2> QED BY <1>1, <2>1, <2>3, <2>4, KeepsBase
<1>11. ASSUME NEW o \in Operators, ReadPlugin(o) \/ Deactivate(o)
       PROVE  BaseInv' /\ SettledCallsStay
  <2>1. Keeps /\ workers' = workers /\ plugin' = plugin /\ \E y : task' = [task EXCEPT ![o] = y]
    BY <1>11, ReadEffect
  <2>2. SettledCallsStay
    BY <2>1, OtherTaskStays, TaskKinds
  <2> QED BY <1>1, <2>1, <2>2, KeepsBase
<1>12. ASSUME NEW o \in Operators, WorkerStopped(o)
       PROVE  BaseInv' /\ SettledCallsStay
  <2>1. /\ Keeps /\ workers' \in {workers, None} /\ plugin' = plugin
        /\ \E y : task' = [task EXCEPT ![o] = y]
    BY <1>12, WorkerStoppedEffect
  <2>2. SettledCallsStay
    BY <2>1, OtherTaskStays, TaskKinds
  <2> QED BY <1>1, <2>1, <2>2, KeepsBase
<1>13. ASSUME NEW o \in Operators, StartWorker(o)
       PROVE  BaseInv' /\ SettledCallsStay
  <2>1. /\ Keeps /\ workers' \in Handles \cup {None} /\ plugin' = plugin
        /\ \E y : task' = [task EXCEPT ![o] = y]
    BY <1>1, <1>13, StartWorkerEffect
  <2>2. SettledCallsStay
    BY <2>1, OtherTaskStays, TaskKinds
  <2> QED BY <1>1, <2>1, <2>2, KeepsBase
<1>14. CASE Event
  BY <1>2, <1>3, <1>4, <1>5, <1>6, <1>14 DEF Event
<1>15. CASE \E t \in Tasks : Continuation(t)
  BY <1>7, <1>8, <1>9, <1>15 DEF Continuation
<1>16. CASE \E o \in Operators : OperatorStep(o) \/ Returned(o) \/ \E op \in Ops : Request(o, op)
  BY <1>10, <1>11, <1>12, <1>13, <1>16 DEF OperatorStep, Returned, RowStep
<1> QED BY <1>14, <1>15, <1>16 DEF Next

LEMMA BaseStutter ==
    ASSUME BaseInv, UNCHANGED vars
    PROVE  BaseInv' /\ SettledCallsStay
  BY DEF vars, workerVars, BaseInv, TypeOK, WorkersTypeOK, TasksOK, ChildrenOK, SettledCallsStay

(* The base invariant holds in every state.                                  *)
THEOREM BaseInvariance == Spec => []BaseInv
<1>1. BaseInv /\ [Next]_vars => BaseInv'
  BY BaseStep, BaseStutter
<1> QED BY <1>1, BaseInit, PTL DEF Spec

(* Every variable has its type, for any number of concurrent operations.     *)
THEOREM TypeCorrect == Spec => []TypeOK
<1>1. BaseInv => TypeOK
  BY DEF BaseInv
<1> QED BY <1>1, BaseInvariance, PTL

(* A pending call was sent to a process that still exists, so that its exit  *)
(* rejects the call: callInternal checks the child, and handleProcessExit     *)
(* rejects all that is pending.                                              *)
THEOREM CallsHaveProcess == Spec => []PendingHasProcess
<1>1. BaseInv => PendingHasProcess
  BY TaskKinds DEF BaseInv, PendingHasProcess, TasksOK, Served, RpcPCs, Writable
<1> QED BY <1>1, BaseInvariance, PTL

(* A call settles once, whatever answer, timer or exit comes after.          *)
THEOREM CallsSettleOnce == Spec => CallSettlesOnce
<1>1. BaseInv /\ [Next]_vars => [\A c \in Callers :
          task[c].reply # "none" => task'[c].reply = task[c].reply]_vars
  BY BaseStep, BaseStutter DEF SettledCallsStay
<1> QED BY <1>1, BaseInvariance, PTL DEF Spec, CallSettlesOnce

-----------------------------------------------------------------------------
(* One operation at a time.                                                  *)

LEMMA SameDead ==
    ASSUME SameProcs, NEW h
    PROVE  Dead(h)' <=> Dead(h)
  BY DEF SameProcs, Dead

LEMMA SingleFacts ==
    ASSUME SingleInv
    PROVE  /\ BaseInv /\ LiveIsChild /\ OperatorOK /\ \A h \in Handles : HandleOK(h)
           /\ handle \in [Handles -> HandleRecord] /\ proc \in [Processes -> ProcessRecord]
           /\ task \in [Tasks -> TaskRecord] /\ workers \in Handles \cup {None}
           /\ Boot \in Operators /\ Boot \in Tasks /\ Boot \notin Handles /\ Boot \notin Callers
           /\ \A p \in Processes : proc[p].state # "free" => proc[p].of \in Handles
           /\ task[Boot].pc \in HandlePCs => task[Boot].h \in Handles
  BY TaskKinds, LifecycleAssumption
     DEF SingleInv, BaseInv, TypeOK, WorkersTypeOK, TasksOK, TaskOK, ChildrenOK

(* A handle is dead when its child is none of the processes.                 *)
LEMMA NoChildDead ==
    ASSUME SingleInv, NEW h \in Handles, handle[h].child \notin Processes
    PROVE  Dead(h)
  BY DEF SingleInv, LiveIsChild, Dead

(* What a step that starts and ends no process must show.                    *)
LEMMA SingleStep ==
    ASSUME SingleInv, BaseInv', SameProcs, workers' = workers, OperatorOK',
           NEW h \in Handles, NEW z, handle' = [handle EXCEPT ![h] = z],
           z.child = handle[h].child, z.timer => handle[h].timer,
           z.status = "stopped" => Dead(h) /\ ~z.timer,
           z.status = "stopping" => task'[Boot].pc \in StopPCs /\ task'[Boot].h = h,
           \A g \in Handles \ {h} : handle[g].status = "stopping" =>
                task'[Boot].pc \in StopPCs /\ task'[Boot].h = g
    PROVE  SingleInv'
<1>1. handle'[h] = z /\ \A g \in Handles : g # h => handle'[g] = handle[g]
  BY SingleFacts
<1>2. LiveIsChild'
  BY <1>1, SingleFacts DEF LiveIsChild, SameProcs
<1>3. ASSUME NEW g \in Handles PROVE HandleOK(g)'
  <2>1. HandleOK(g) /\ (Dead(g)' <=> Dead(g))
    BY SameDead, SingleFacts
  <2>2. CASE g = h
    BY <1>1, <2>1, <2>2 DEF HandleOK
  <2>3. CASE g # h
    BY <1>1, <2>1, <2>3 DEF HandleOK
  <2> QED BY <2>2, <2>3
<1> QED BY <1>2, <1>3 DEF SingleInv

LEMMA SingleFrame ==
    ASSUME SingleInv, BaseInv', SameProcs, workers' = workers, OperatorOK', handle' = handle,
           task[Boot].pc \in StopPCs => task'[Boot].pc \in StopPCs /\ task'[Boot].h = task[Boot].h
    PROVE  SingleInv'
<1>1. PICK h \in Handles : h = 1
  BY WorkersAssumption DEF Handles
<1>2. PICK z : z = handle[h]
  OBVIOUS
<1>3. handle' = [handle EXCEPT ![h] = z]
  BY <1>2, SingleFacts
<1>4. HandleOK(h) /\ \A g \in Handles : HandleOK(g)
  BY SingleFacts
<1>5. \A g \in Handles : handle[g].status = "stopping" =>
                task'[Boot].pc \in StopPCs /\ task'[Boot].h = g
  BY <1>4 DEF HandleOK
<1>6. /\ z.child = handle[h].child /\ (z.timer => handle[h].timer)
      /\ z.status = "stopped" => Dead(h) /\ ~z.timer
      /\ z.status = "stopping" => task'[Boot].pc \in StopPCs /\ task'[Boot].h = h
  BY <1>2, <1>4, <1>5 DEF HandleOK
<1> QED BY <1>3, <1>5, <1>6, SingleStep

(* The operator's record may only settle, and not while it waits for a kill. *)
LEMMA SingleWait ==
    ASSUME SingleInv, BaseInv', SameProcs, workers' = workers, handle' = handle,
           task'[Boot].pc = task[Boot].pc, task'[Boot].h = task[Boot].h,
           task[Boot].pc = "kill" => task'[Boot] = task[Boot] \/ Dead(task[Boot].h)
    PROVE  SingleInv'
<1>1. OperatorOK'
  BY SingleFacts DEF OperatorOK, Dead, SameProcs
<1> QED BY <1>1, SingleFrame

(* A dead handle starts: it is, or becomes, the registered one.              *)
LEMMA SingleStart ==
    ASSUME SingleInv, BaseInv', NEW h \in Handles, NEW h0, Dead(h), ~h0.timer, h0.status # "stopping",
           StartEffect(h, h0), workers' = h,
           workers = h \/ workers = None \/ handle[workers].status = "stopped",
           task[Boot].pc \notin StopPCs,
           task'[Boot].pc \notin StopPCs \cup {"stopped"},
           task'[Boot].pc \in HandlePCs => task'[Boot].h = h
    PROVE  SingleInv'
<1>1. PICK z \in HandleRecord :
        /\ handle' = [handle EXCEPT ![h] = z] /\ z.timer = h0.timer
        /\ \/ /\ z.status = "starting" /\ z.child \in Processes /\ proc[z.child].state = "free"
              /\ \E q \in ProcessRecord : /\ proc' = [proc EXCEPT ![z.child] = q]
                                          /\ q.of = h /\ q.state = "up"
           \/ z = h0 /\ proc' = proc
  BY DEF StartEffect
<1>2. handle'[h] = z /\ \A g \in Handles : g # h => handle'[g] = handle[g]
  BY <1>1, SingleFacts
<1>3. \A p \in Processes : \/ proc'[p] = proc[p]
                           \/ p = z.child /\ proc'[p].of = h /\ z.status = "starting"
  BY <1>1, SingleFacts
<1>4. LiveIsChild'
  BY <1>2, <1>3, SingleFacts DEF LiveIsChild, Dead
<1>5. OperatorOK'
  BY DEF OperatorOK, StopPCs
<1>6. ASSUME NEW g \in Handles, g # h PROVE HandleOK(g)'
  <2>1. HandleOK(g) /\ Dead(g) /\ ~handle[g].timer
    BY <1>6, SingleFacts, TaskKinds DEF HandleOK
  <2>2. Dead(g)'
    BY <1>3, <1>6, <2>1 DEF Dead
  <2> QED BY <1>2, <1>6, <2>1, <2>2 DEF HandleOK
<1>7. HandleOK(h)'
  <2>1. z.status = "stopped" => Dead(h)'
    BY <1>1 DEF Dead
  <2> QED BY <1>1, <1>2, <2>1 DEF HandleOK
<1> QED BY <1>4, <1>5, <1>6, <1>7 DEF SingleInv

(* An event only settles what an operator waits for.                         *)
Settles(o) == /\ task'[o].pc = task[o].pc /\ task'[o].h = task[o].h
              /\ task'[o].op = task[o].op /\ task'[o].seen = task[o].seen

LEMMA AnswerSettles ==
    ASSUME BaseInv, NEW o \in Operators, NEW p \in Processes, NEW t \in proc[p].inbox, Answer(p, t)
    PROVE  Settles(o) /\ (task'[o] = task[o] \/ task[o].pc \in RpcPCs)
<1>1. task \in [Tasks -> TaskRecord] /\ o \in Tasks
  BY TaskKinds DEF BaseInv, TypeOK, WorkersTypeOK
<1>2. CASE t = o /\ Pending(t, p)
  <2>1. PICK r \in {"ok", "fail"} : task' = [task EXCEPT ![t] = Reply(t, r)]
    BY <1>2 DEF Answer
  <2>2. task[t].pc \in RpcPCs
    BY <1>2 DEF Pending
  <2>3. PICK y \in TaskRecord : /\ y = Reply(t, r) /\ y.pc = task[t].pc
                                /\ y.h = task[t].h /\ y.op = task[t].op /\ y.seen = task[t].seen
    BY <1>1, <1>2, <2>2, ReplyOK
  <2> QED BY <1>1, <1>2, <2>1, <2>2, <2>3 DEF Settles
<1>3. CASE ~(t = o /\ Pending(t, p))
  <2>1. task'[o] = task[o]
    BY <1>1, <1>3 DEF Answer
  <2> QED BY <2>1 DEF Settles
<1> QED BY <1>2, <1>3

LEMMA EventSettles ==
    ASSUME BaseInv, NEW o \in Operators, Event
    PROVE  Settles(o)
<1>1. task \in [Tasks -> TaskRecord] /\ o \in Tasks /\ o \notin Handles /\ o \notin Callers
  BY TaskKinds DEF BaseInv, TypeOK, WorkersTypeOK
<1>2. ASSUME NEW p \in Processes, Exit(p) PROVE Settles(o)
  <2>1. proc[p].of \in Handles /\ task' = Settle(p, proc[p].of)
    BY <1>2, ExitEffect
  <2> QED BY <1>1, <2>1, SettleTask DEF Settles
<1>3. ASSUME NEW t \in Tasks, Expire(t) PROVE Settles(o)
  <2>1. CASE t = o
    BY <1>1, <1>3, <2>1, ExpireKeeps DEF Settles
  <2>2. CASE t # o
    BY <1>1, <1>3, <2>2 DEF Expire, Settles
  <2> QED BY <2>1, <2>2
<1>4. ASSUME NEW h \in Handles, BackoffFires(h) PROVE Settles(o)
  BY <1>1, <1>4, BackoffKeeps DEF Settles
<1>5. ASSUME NEW c \in Callers, Call(c) PROVE Settles(o)
  BY <1>1, <1>5, CallKeeps DEF Settles
<1> QED BY <1>2, <1>3, <1>4, <1>5, AnswerSettles DEF Event

LEMMA SingleEvent ==
    ASSUME Operators = {Boot}, SingleInv, BaseInv', Event
    PROVE  SingleInv'
<1>0. BaseInv /\ OperatorOK /\ Settles(Boot)
  BY EventSettles, SingleFacts
<1>1. ASSUME NEW p \in Processes, Exit(p) PROVE SingleInv'
  <2>1. PICK h \in Handles, z \in HandleRecord :
            /\ proc[p].of = h /\ proc[p].state # "free"
            /\ proc' = [proc EXCEPT ![p] = FreeProcess]
            /\ handle' = [handle EXCEPT ![h] = z] /\ z.child = None
            /\ \/ /\ handle[h].intentional /\ z.status = "stopped"
                  /\ z.timer = handle[h].timer /\ z.intentional
               \/ ~handle[h].intentional /\ z.status \notin {"stopped", "stopping"}
    BY <1>0, <1>1, ExitEffect
  <2>2. /\ handle'[h] = z /\ \A g \in Handles : g # h => handle'[g] = handle[g]
        /\ proc'[p].state = "free" /\ \A q \in Processes : q # p => proc'[q] = proc[q]
    BY <2>1, SingleFacts DEF FreeProcess
  <2>3. /\ ~Dead(h) /\ handle[h].child = p
        /\ \A q \in Processes \ {p} : proc[q].state # "free" => proc[q].of # h
    BY <2>1, SingleFacts DEF Dead, LiveIsChild
  <2>4. h = workers /\ ~handle[h].timer /\ HandleOK(h) /\ handle[h].status # "stopped"
    BY <2>3, SingleFacts DEF HandleOK
  <2>5. Dead(h)'
    BY <2>2, <2>3 DEF Dead
  <2>6. LiveIsChild'
    BY <2>2, <2>3, SingleFacts DEF LiveIsChild
  <2>7. workers' = workers
    BY <1>1 DEF Exit
  <2>8. HandleOK(h)'
    BY <2>1, <2>2, <2>4, <2>5, <2>7 DEF HandleOK
  <2>9. ASSUME NEW g \in Handles, g # h PROVE HandleOK(g)'
    <3>1. HandleOK(g) /\ (Dead(g) => Dead(g)')
      BY <2>2, SingleFacts DEF Dead
    <3> QED BY <1>0, <2>2, <2>7, <2>9, <3>1 DEF HandleOK, Settles
  <2>10. OperatorOK'
    <3>1. CASE task[Boot].pc \in HandlePCs
      <4>1. task[Boot].h = h /\ task'[Boot].h = h /\ task'[Boot].pc = task[Boot].pc
        BY <1>0, <2>4, <3>1 DEF OperatorOK, Settles
      <4>2. task[Boot].pc # "stopped"
        BY <1>0, <2>3, <4>1 DEF OperatorOK
      <4>3. Dead(task[Boot].h)'
        BY <2>2, <2>3, <4>1 DEF Dead
      <4>4. task[Boot].pc \in StopPCs => handle[h].intentional
        BY <1>0, <4>1 DEF OperatorOK
      <4>5. task'[Boot].pc \in StopPCs => handle'[h].intentional /\ ~handle'[h].timer
        BY <2>1, <2>2, <2>4, <4>1, <4>4
      <4> QED BY <2>4, <2>5, <2>7, <4>1, <4>2, <4>5 DEF OperatorOK, Dead
    <3>2. CASE task[Boot].pc \notin HandlePCs
      BY <1>0, <3>2 DEF OperatorOK, Settles, HandlePCs, StopPCs
    <3> QED BY <3>1, <3>2
  <2> QED BY <2>6, <2>8, <2>9, <2>10 DEF SingleInv
<1>2. ASSUME NEW p \in Processes, NEW t \in proc[p].inbox, Answer(p, t) PROVE SingleInv'
  <2>1. SameProcs /\ handle' = handle /\ workers' = workers
    BY <1>0, <1>2, AnswerKeeps DEF Answer
  <2>2. task'[Boot] = task[Boot] \/ task[Boot].pc \in RpcPCs
    BY <1>0, <1>2, AnswerSettles, SingleFacts
  <2> QED BY <1>0, <2>1, <2>2, SingleWait DEF Settles, RpcPCs
<1>3. ASSUME NEW t \in Tasks, Expire(t) PROVE SingleInv'
  <2>1. SameProcs /\ handle' = handle /\ workers' = workers
    BY <1>0, <1>3, ExpireKeeps DEF Expire
  <2>2. CASE t # Boot
    <3>1. task'[Boot] = task[Boot]
      BY <1>3, <2>2, SingleFacts DEF Expire
    <3> QED BY <1>0, <2>1, <3>1, SingleWait DEF Settles
  <2>3. task[t].pc # "kill"
    BY <1>3 DEF Expire, MayExpire
  <2> QED BY <1>0, <2>1, <2>2, <2>3, SingleWait DEF Settles
<1>4. ASSUME NEW h \in Handles, BackoffFires(h) PROVE SingleInv'
  <2>1. handle[h].timer /\ handle[h] \in HandleRecord /\ StartEffect(h, [handle[h] EXCEPT !.timer = FALSE])
    BY <1>0, <1>4, BackoffKeeps, SingleFacts
  <2>2. PICK h0 : h0 = [handle[h] EXCEPT !.timer = FALSE]
    OBVIOUS
  <2>3. ~h0.timer /\ h0.status = handle[h].status /\ StartEffect(h, h0)
    BY <2>1, <2>2 DEF HandleRecord
  <2>4. HandleOK(h) /\ workers' = workers
    BY <1>4, SingleFacts DEF BackoffFires
  <2>5. h = workers /\ Dead(h)
    BY <2>1, <2>4 DEF HandleOK
  <2>6. task[Boot].pc \in HandlePCs => task[Boot].h = h
    BY <1>0, <2>5 DEF OperatorOK
  <2>7. task[Boot].pc \notin StopPCs \cup {"stopped"}
    BY <1>0, <2>1, <2>6 DEF OperatorOK, HandlePCs
  <2>8. h0.status # "stopping"
    BY <2>3, <2>4, <2>7 DEF HandleOK
  <2>9. /\ workers' = h /\ task'[Boot].pc \notin StopPCs \cup {"stopped"}
        /\ task[Boot].pc \notin StopPCs
        /\ task'[Boot].pc \in HandlePCs => task'[Boot].h = h
    BY <1>0, <2>4, <2>5, <2>6, <2>7 DEF Settles
  <2> QED BY <2>3, <2>5, <2>8, <2>9, SingleStart
<1>5. ASSUME NEW c \in Callers, Call(c) PROVE SingleInv'
  <2>1. SameProcs /\ handle' = handle /\ workers' = workers /\ task'[Boot] = task[Boot]
    BY <1>0, <1>5, CallKeeps, SingleFacts DEF Call
  <2> QED BY <1>0, <2>1, SingleWait DEF Settles
<1> QED BY <1>1, <1>2, <1>3, <1>4, <1>5 DEF Event

(* A start that ends: what becomes of an operator, and of the handle.        *)
StartEnds(t) == Initialized(t) \/ StartKilled(t) \/ InitializeFailed(t)

EndedFor(o) ==
    /\ task'[o].op = task[o].op /\ task'[o].h = task[o].h /\ task'[o].seen = task[o].seen
    /\ \/ task'[o] = task[o]
       \/ task'[o].pc = "killing" /\ task[o].pc = "init"
       \/ task'[o].pc \in {"started", "failed"} /\ task[o].pc \in {"init", "killing", "join"}

LEMMA StartEndsEffect ==
    ASSUME BaseInv, NEW t \in Tasks, StartEnds(t)
    PROVE  /\ SameProcs /\ workers' = workers /\ task[t].h \in Handles
           /\ \A o \in Operators : EndedFor(o)
           /\ \E z \in HandleRecord :
                /\ handle' = [handle EXCEPT ![task[t].h] = z]
                /\ z.child = handle[task[t].h].child /\ z.timer = handle[task[t].h].timer
                /\ handle[task[t].h].intentional => z.intentional
                /\ z.status \in {"running", "crashed", handle[task[t].h].status}
<1>1. handle \in [Handles -> HandleRecord] /\ task \in [Tasks -> TaskRecord]
  BY DEF BaseInv, TypeOK, WorkersTypeOK
<1>2. ASSUME NEW pc \in {"started", "failed"}, Return(t, pc), task[t].pc \in {"init", "killing"},
             handle' \in [Handles -> HandleRecord], SameChildren, proc' = proc
      PROVE  SameProcs /\ \A o \in Operators : EndedFor(o)
  <2>1. \A s \in Operators : /\ task'[s].op = task[s].op /\ task'[s].h = task[s].h
                             /\ task'[s].seen = task[s].seen
                             /\ \/ task'[s] = task[s]
                                \/ s = t /\ task'[s].pc = pc
                                \/ task[s].pc = "join" /\ task'[s].pc = pc
    BY <1>2, ReturnKeeps
  <2>2. SameProcs
    BY <1>2 DEF SameProcs
  <2> QED BY <1>2, <2>1, <2>2 DEF EndedFor
<1>3. CASE Initialized(t) \/ StartKilled(t)
  <2>1. PICK pc \in {"started", "failed"}, z \in HandleRecord :
            /\ Return(t, pc) /\ task[t].h \in Handles /\ task[t].pc \in {"init", "killing"}
            /\ proc' = proc /\ workers' = workers
            /\ handle' = [handle EXCEPT ![task[t].h] = z]
            /\ z.status \in {"running", "crashed"} /\ z.child = handle[task[t].h].child
            /\ z.timer = handle[task[t].h].timer
            /\ z.intentional = handle[task[t].h].intentional
    BY <1>3, InitializedEffect
  <2>2. handle' \in [Handles -> HandleRecord] /\ SameChildren
    BY <1>1, <2>1 DEF SameChildren
  <2>3. SameProcs /\ \A o \in Operators : EndedFor(o)
    BY <1>2, <2>1, <2>2
  <2> QED BY <2>1, <2>3
<1>4. CASE InitializeFailed(t)
  <2>1. PICK z \in HandleRecord :
                /\ handle' = [handle EXCEPT ![task[t].h] = z] /\ z.child = handle[task[t].h].child
                /\ z.timer = handle[task[t].h].timer
                /\ \/ z.status = "crashed"
                   \/ z.status = handle[task[t].h].status
                /\ handle[task[t].h].intentional => z.intentional
    BY <1>4, InitializeFailedEffect
  <2>2. task[t].h \in Handles /\ task[t].pc = "init" /\ SameProcs /\ workers' = workers
    BY <1>4, InitializeFailedEffect
  <2>3. handle' \in [Handles -> HandleRecord] /\ SameChildren
    BY <1>1, <2>1, <2>2 DEF SameChildren
  <2>4. \A o \in Operators : EndedFor(o)
    <3>1. CASE Return(t, "failed") /\ proc' = proc
      BY <1>2, <2>2, <2>3, <3>1
    <3>2. CASE \E y \in TaskRecord :
                    /\ task' = [task EXCEPT ![t] = y] /\ y.pc = "killing"
                    /\ y.h = task[t].h /\ y.op = task[t].op /\ y.seen = task[t].seen
      BY <1>1, <2>2, <3>2, TaskKinds DEF EndedFor
    <3> QED BY <1>4, <3>1, <3>2, InitializeFailedEffect
  <2> QED BY <2>1, <2>2, <2>4
<1> QED BY <1>3, <1>4 DEF StartEnds

LEMMA SingleStartEnds ==
    ASSUME SingleInv, BaseInv', NEW t \in Tasks, StartEnds(t)
    PROVE  SingleInv'
<1> DEFINE h == task[t].h
<1>1. /\ SameProcs /\ workers' = workers /\ h \in Handles /\ EndedFor(Boot)
  BY StartEndsEffect, SingleFacts
<1>2. PICK z \in HandleRecord :
            /\ handle' = [handle EXCEPT ![h] = z] /\ z.child = handle[h].child
            /\ z.timer = handle[h].timer /\ (handle[h].intentional => z.intentional)
            /\ z.status \in {"running", "crashed", handle[h].status}
  BY StartEndsEffect, SingleFacts
<1>3. HandleOK(h) /\ OperatorOK /\ \A g \in Handles : HandleOK(g)
  BY <1>1, SingleFacts
<1>4. task[Boot].pc \in StopPCs => task'[Boot] = task[Boot]
  BY <1>1 DEF EndedFor, StopPCs
<1>5. z.status = "stopped" => Dead(h) /\ ~z.timer
  BY <1>2, <1>3 DEF HandleOK
<1>6. z.status = "stopping" => task'[Boot].pc \in StopPCs /\ task'[Boot].h = h
  BY <1>2, <1>3, <1>4 DEF HandleOK
<1>7. \A g \in Handles \ {h} : handle[g].status = "stopping" =>
                task'[Boot].pc \in StopPCs /\ task'[Boot].h = g
  BY <1>3, <1>4 DEF HandleOK
<1>8. OperatorOK'
  <2>1. CASE task'[Boot].pc \in StopPCs \cup {"stopped"}
    <3>1. task'[Boot] = task[Boot] /\ task[Boot].h \in Handles
      BY <1>1, <2>1, SingleFacts DEF EndedFor, StopPCs, HandlePCs
    <3>2. /\ handle'[task[Boot].h].timer = handle[task[Boot].h].timer
          /\ handle'[task[Boot].h].child = handle[task[Boot].h].child
          /\ handle[task[Boot].h].intentional => handle'[task[Boot].h].intentional
      BY <1>1, <1>2, <3>1, SingleFacts
    <3> QED BY <1>1, <1>3, <3>1, <3>2 DEF OperatorOK, Dead, SameProcs
  <2>2. CASE task'[Boot].pc \notin StopPCs \cup {"stopped"}
    <3>1. task'[Boot].pc \in HandlePCs => task[Boot].pc \in HandlePCs
      BY <1>1, <2>2 DEF EndedFor, HandlePCs
    <3> QED BY <1>1, <1>3, <2>2, <3>1 DEF OperatorOK, EndedFor, StopPCs
  <2> QED BY <2>1, <2>2
<1> QED BY <1>1, <1>2, <1>5, <1>6, <1>7, <1>8, SingleStep

LEMMA SingleStopContinues ==
    ASSUME Operators = {Boot}, SingleInv, BaseInv', NEW t \in Tasks, StopContinues(t)
    PROVE  SingleInv'
<1> DEFINE h == task[Boot].h
<1>1. /\ t = Boot /\ SameProcs /\ workers' = workers
      /\ task[Boot].pc \in StopPCs /\ task[Boot].reply # "none" /\ h \in Handles
  BY StopContinuesEffect, SingleFacts
<1>2. PICK y \in TaskRecord :
            /\ task' = [task EXCEPT ![t] = y] /\ y.h = h
            /\ \/ /\ y.pc = "stopped" /\ (handle[y.h].child = None \/ task[t].pc = "kill")
                  /\ \E z \in HandleRecord :
                        /\ handle' = [handle EXCEPT ![y.h] = z] /\ z.status = "stopped"
                        /\ z.child = handle[y.h].child /\ z.timer = handle[y.h].timer
               \/ /\ y.pc \in {"linger", "term", "kill"} /\ handle' = handle
                  /\ y.pid = handle[y.h].child /\ y.reply = "none"
  BY <1>1, StopContinuesEffect, SingleFacts
<1>3. task'[Boot] = y /\ OperatorOK /\ h = workers /\ handle[h].intentional /\ ~handle[h].timer
  BY <1>1, <1>2, SingleFacts DEF OperatorOK, HandlePCs
<1>4. CASE y.pc = "stopped"
  <2>1. PICK z \in HandleRecord : /\ handle' = [handle EXCEPT ![h] = z] /\ z.status = "stopped"
                                  /\ z.child = handle[h].child /\ z.timer = handle[h].timer
    BY <1>2, <1>4
  <2>2. Dead(h)
    <3>1. CASE handle[h].child = None
      BY <1>1, <3>1, NoChildDead, TaskKinds
    <3>2. CASE task[Boot].pc = "kill"
      BY <1>1, <1>3, <3>2 DEF OperatorOK
    <3> QED BY <1>1, <1>2, <1>4, <3>1, <3>2
  <2>3. handle'[h] = z
    BY <1>1, <2>1, SingleFacts
  <2>4. OperatorOK'
    BY <1>1, <1>2, <1>3, <1>4, <2>1, <2>2, <2>3 DEF OperatorOK, Dead, SameProcs, StopPCs
  <2>5. \A g \in Handles \ {h} : handle[g].status # "stopping"
    BY <1>1, SingleFacts DEF HandleOK
  <2> QED BY <1>1, <1>3, <2>1, <2>2, <2>4, <2>5, SingleStep
<1>5. CASE y.pc \in {"linger", "term", "kill"} /\ handle' = handle
               /\ y.pid = handle[y.h].child /\ y.reply = "none"
  <2>1. OperatorOK'
    BY <1>1, <1>2, <1>3, <1>5 DEF OperatorOK, StopPCs
  <2> QED BY <1>1, <1>2, <1>3, <1>5, <2>1, SingleFrame DEF StopPCs
<1> QED BY <1>2, <1>4, <1>5

LEMMA SingleRowStep ==
    ASSUME SingleInv, BaseInv', RowStep(Boot)
    PROVE  SingleInv'
<1>1. PICK y \in TaskRecord :
          /\ task' = [task EXCEPT ![Boot] = y] /\ y.pc \in {"idle", "read", "load", "start", "register"}
          /\ workers' = workers /\ handle' = handle /\ proc' = proc
          /\ task[Boot].pc \notin HandlePCs
  BY RowStepEffect, SingleFacts
<1>2. task'[Boot] = y
  BY <1>1, SingleFacts
<1>3. SameProcs
  BY <1>1 DEF SameProcs
<1>4. OperatorOK'
  BY <1>1, <1>2 DEF OperatorOK, HandlePCs, StopPCs
<1>5. task[Boot].pc \notin StopPCs
  BY <1>1 DEF HandlePCs
<1> QED BY <1>1, <1>3, <1>4, <1>5, SingleFrame

LEMMA SingleRead ==
    ASSUME SingleInv, BaseInv', ReadPlugin(Boot) \/ Deactivate(Boot)
    PROVE  SingleInv'
<1>1. PICK y \in TaskRecord :
            /\ workers' = workers /\ SameProcs
            /\ task[Boot].pc \in {"read", "deactivate"} /\ task' = [task EXCEPT ![Boot] = y]
            /\ \/ handle' = handle /\ y.pc \in {"idle", "deactivate", "write"}
               \/ workers # None /\ y.h = workers /\ StopEffect(workers, y)
  BY ReadEffect, SingleFacts
<1>2. task'[Boot] = y /\ task[Boot].pc \notin StopPCs
  BY <1>1, SingleFacts DEF StopPCs
<1>3. CASE handle' = handle /\ y.pc \in {"idle", "deactivate", "write"}
  <2>1. OperatorOK'
    BY <1>2, <1>3 DEF OperatorOK, HandlePCs, StopPCs
  <2> QED BY <1>1, <1>2, <1>3, <2>1, SingleFrame
<1>4. CASE workers # None /\ y.h = workers /\ StopEffect(workers, y)
  <2>1. PICK h \in Handles : h = workers
    BY <1>4, SingleFacts
  <2>2. PICK z \in HandleRecord :
        /\ handle' = [handle EXCEPT ![h] = z] /\ ~z.timer /\ z.child = handle[h].child
        /\ \/ /\ handle[h].status \in {"stopped", "stopping"} /\ z.status = handle[h].status
              /\ y.pc = "stopped"
           \/ z.child = None /\ y.pc = "stopped" /\ z.status = "stopped"
           \/ y.pc = "shutdown" /\ z.intentional /\ z.status = "stopping"
    BY <1>4, <2>1 DEF StopEffect
  <2>3. HandleOK(h) /\ \A g \in Handles : handle[g].status # "stopping"
    BY <1>2, SingleFacts DEF HandleOK
  <2>4. y.pc = "stopped" => Dead(h) /\ z.status = "stopped"
    BY <2>2, <2>3, NoChildDead, TaskKinds DEF HandleOK
  <2>5. handle'[h] = z
    BY <2>1, <2>2, SingleFacts
  <2>6. OperatorOK'
    BY <1>1, <1>2, <1>4, <2>1, <2>2, <2>4, <2>5 DEF OperatorOK, Dead, SameProcs, StopPCs
  <2>7. /\ z.status = "stopped" => Dead(h) /\ ~z.timer
        /\ z.status = "stopping" => task'[Boot].pc \in StopPCs /\ task'[Boot].h = h
    BY <1>2, <1>4, <2>1, <2>2, <2>3, <2>4, NoChildDead, TaskKinds DEF StopPCs
  <2> QED BY <1>1, <2>2, <2>3, <2>6, <2>7, SingleStep
<1> QED BY <1>1, <1>3, <1>4

LEMMA SingleWorkerStopped ==
    ASSUME SingleInv, BaseInv', WorkerStopped(Boot)
    PROVE  SingleInv'
<1> DEFINE h == task[Boot].h
<1>1. PICK y \in TaskRecord :
        /\ task[Boot].pc = "stopped" /\ h \in Handles
        /\ task' = [task EXCEPT ![Boot] = y]
        /\ \/ /\ workers' = workers /\ StartEffect(h, handle[h])
              /\ \/ y.pc = "failed"
                 \/ y.pc = "init" /\ y.h = h
           \/ /\ workers' = None /\ y.pc = "write" /\ proc' = proc
              /\ \/ handle' = handle
                 \/ handle' = [handle EXCEPT ![h] = NewHandle]
  BY WorkerStoppedEffect, SingleFacts
<1>2. /\ task'[Boot] = y /\ task[Boot].pc \notin StopPCs
      /\ h = workers /\ Dead(h) /\ ~handle[h].timer
  BY <1>1, SingleFacts DEF OperatorOK, StopPCs, HandlePCs
<1>3. \A g \in Handles : HandleOK(g) /\ handle[g].status # "stopping"
  BY <1>2, SingleFacts DEF HandleOK
<1>4. CASE /\ workers' = workers /\ StartEffect(h, handle[h])
           /\ \/ y.pc = "failed"
              \/ y.pc = "init" /\ y.h = h
  <2>1. /\ task'[Boot].pc \notin StopPCs \cup {"stopped"} /\ workers' = h
        /\ task'[Boot].pc \in HandlePCs => task'[Boot].h = h
    BY <1>2, <1>4 DEF StopPCs, HandlePCs
  <2> QED BY <1>1, <1>2, <1>3, <1>4, <2>1, SingleStart
<1>5. CASE /\ workers' = None /\ y.pc = "write" /\ proc' = proc
           /\ \/ handle' = handle
              \/ handle' = [handle EXCEPT ![h] = NewHandle]
  <2>1. \A g \in Handles : handle'[g] = handle[g] \/ (g = h /\ handle'[g] = NewHandle)
    BY <1>1, <1>5, SingleFacts
  <2>2. LiveIsChild'
    BY <1>2, <1>5, <2>1, SingleFacts DEF LiveIsChild, Dead
  <2>3. ASSUME NEW g \in Handles PROVE HandleOK(g)'
    <3>1. Dead(g) /\ ~handle[g].timer
      BY <1>2, <1>3 DEF HandleOK
    <3>2. Dead(g)'
      BY <1>5, <3>1 DEF Dead
    <3> QED BY <1>3, <2>1, <3>1, <3>2 DEF HandleOK, NewHandle
  <2>4. OperatorOK'
    BY <1>2, <1>5 DEF OperatorOK, HandlePCs, StopPCs
  <2> QED BY <2>2, <2>3, <2>4 DEF SingleInv
<1> QED BY <1>1, <1>4, <1>5

LEMMA SingleStartWorker ==
    ASSUME SingleInv, BaseInv', StartWorker(Boot)
    PROVE  SingleInv'
<1>1. PICK y \in TaskRecord :
        /\ task[Boot].pc = "start" /\ task' = [task EXCEPT ![Boot] = y]
        /\ \/ /\ workers' = workers /\ handle' = handle /\ proc' = proc
              /\ y.pc \in {"join", "failed"}
           \/ \E h \in Handles :
                /\ workers' = h /\ Unused(h) /\ Replaceable(workers)
                /\ StartEffect(h, NewHandle)
                /\ y.pc = "failed" \/ (y.pc = "init" /\ y.h = h)
  BY StartWorkerEffect, SingleFacts
<1>2. task'[Boot] = y /\ task[Boot].pc \notin StopPCs
  BY <1>1, SingleFacts DEF StopPCs
<1>3. CASE /\ workers' = workers /\ handle' = handle /\ proc' = proc
           /\ y.pc \in {"join", "failed"}
  <2>1. SameProcs
    BY <1>3 DEF SameProcs
  <2>2. OperatorOK'
    BY <1>2, <1>3 DEF OperatorOK, HandlePCs, StopPCs
  <2> QED BY <1>2, <1>3, <2>1, <2>2, SingleFrame
<1>4. ASSUME NEW h \in Handles,
             /\ workers' = h /\ Unused(h) /\ Replaceable(workers)
             /\ StartEffect(h, NewHandle)
             /\ y.pc = "failed" \/ (y.pc = "init" /\ y.h = h)
      PROVE  SingleInv'
  <2>1. Dead(h)
    BY <1>4 DEF Unused, Live, Dead
  <2>2. ~NewHandle.timer /\ NewHandle.status # "stopping"
    BY DEF NewHandle
  <2>3. workers = h \/ workers = None \/ handle[workers].status = "stopped"
    BY <1>4 DEF Replaceable
  <2>4. /\ task'[Boot].pc \notin StopPCs \cup {"stopped"}
        /\ task'[Boot].pc \in HandlePCs => task'[Boot].h = h
    BY <1>2, <1>4 DEF StopPCs, HandlePCs
  <2> QED BY <1>2, <1>4, <2>1, <2>2, <2>3, <2>4, SingleStart
<1> QED BY <1>1, <1>3, <1>4

LEMMA SingleInit == Init => SingleInv
<1> SUFFICES ASSUME Init PROVE SingleInv
  OBVIOUS
<1>1. /\ \A p \in Processes : proc[p].state = "free"
      /\ \A h \in Handles : ~handle[h].timer /\ handle[h].status = "stopped"
      /\ Boot \in Tasks /\ workers = None
  BY LifecycleAssumption, TaskKinds DEF Init, WorkersInit, FreeProcess, NewHandle
<1>2. task[Boot].pc = "start"
  BY <1>1 DEF Init, Idle
<1> QED BY <1>1, <1>2, BaseInit DEF SingleInv, LiveIsChild, HandleOK, Dead, OperatorOK, HandlePCs,
        StopPCs

LEMMA SingleNext ==
    ASSUME Operators = {Boot}, SingleInv, Next
    PROVE  SingleInv'
<1>1. BaseInv'
  BY BaseStep, SingleFacts
<1>2. CASE Event
  BY <1>1, <1>2, SingleEvent
<1>3. CASE \E t \in Tasks : Continuation(t)
  BY <1>1, <1>3, SingleStartEnds, SingleStopContinues DEF Continuation, StartEnds
<1>4. CASE \E o \in Operators : OperatorStep(o) \/ Returned(o) \/ \E op \in Ops : Request(o, op)
  <2>1. OperatorStep(Boot) \/ Returned(Boot) \/ \E op \in Ops : Request(Boot, op)
    BY <1>4
  <2> QED BY <1>1, <2>1, SingleRowStep, SingleRead, SingleWorkerStopped, SingleStartWorker
          DEF OperatorStep, Returned, RowStep
<1> QED BY <1>2, <1>3, <1>4 DEF Next

LEMMA SingleStutter ==
    ASSUME SingleInv, UNCHANGED vars
    PROVE  SingleInv'
<1>1. BaseInv'
  BY BaseStutter, SingleFacts
<1>2. /\ workers' = workers /\ handle' = handle /\ proc' = proc /\ task' = task
  BY DEF vars, workerVars
<1>3. LiveIsChild' /\ OperatorOK'
  BY <1>2, SingleFacts DEF LiveIsChild, OperatorOK, Dead
<1>4. \A h \in Handles : HandleOK(h)'
  BY <1>2, SingleFacts DEF HandleOK, Dead
<1> QED BY <1>1, <1>3, <1>4 DEF SingleInv

(* One operation at a time keeps the invariant of the registered worker.     *)
THEOREM SingleInvariance ==
    ASSUME Operators = {Boot}
    PROVE  Spec => []SingleInv
<1>1. SingleInv /\ [Next]_vars => SingleInv'
  BY SingleNext, SingleStutter
<1> QED BY <1>1, SingleInit, PTL DEF Spec

(* At most one process of the plugin exists at a time, whatever operations    *)
(* follow each other while it starts, crashes, backs off and stops.  They     *)
(* must follow each other: restartWorker does not take the startup lock, and  *)
(* two operations at once may each start a process.                          *)
THEOREM OneProcess ==
    ASSUME Operators = {Boot}
    PROVE  Spec => []OneWorker
<1>1. SingleInv => OneWorker
  <2> SUFFICES ASSUME SingleInv, NEW p \in Processes, NEW q \in Processes,
                      proc[p].state # "free", proc[q].state # "free"
               PROVE  p = q
    BY DEF OneWorker
  <2>1. proc[p].of = workers /\ proc[q].of = workers
    BY SingleFacts DEF HandleOK, Dead
  <2> QED BY <2>1, SingleFacts DEF LiveIsChild
<1> QED BY <1>1, SingleInvariance, PTL

(* A handle that is no longer registered has no process, and no timer that    *)
(* would start one, even while its stop is in progress.                      *)
THEOREM DroppedHandleIsDead ==
    ASSUME Operators = {Boot}
    PROVE  Spec => []UnregisteredIsDead
<1>1. SingleInv => UnregisteredIsDead
  BY SingleFacts DEF UnregisteredIsDead, HandleOK, Dead, Live
<1> QED BY <1>1, SingleInvariance, PTL

-----------------------------------------------------------------------------
(* What an operation has read stays so until it writes.                      *)

LEMMA ReadyFacts ==
    ASSUME ReadyInv
    PROVE  /\ SingleInv /\ SeenOK /\ WillEnd /\ task[Boot] \in TaskRecord /\ plugin \in Plugins
           /\ task[Boot].pc \in HandlePCs => workers # None
<1>1. BaseInv /\ SingleInv /\ OperatorOK
  BY SingleFacts DEF ReadyInv
<1>2. task[Boot] \in TaskRecord /\ plugin \in Plugins
  BY <1>1, SingleFacts DEF BaseInv, TypeOK, WorkersTypeOK
<1>3. task[Boot].pc \in HandlePCs => workers # None
  BY <1>1, SingleFacts, TaskKinds DEF OperatorOK
<1> QED BY <1>1, <1>2, <1>3 DEF ReadyInv

LEMMA ReadyInit == Init => SeenOK /\ WillEnd
<1> SUFFICES ASSUME Init PROVE SeenOK /\ WillEnd
  OBVIOUS
<1>1. task[Boot].pc = "start"
  BY LifecycleAssumption, TaskKinds DEF Init, Idle
<1> QED BY <1>1 DEF SeenOK, WillEnd, StopPCs

(* The operator did not move, or it ended a start.                           *)
LEMMA ReadyStays ==
    ASSUME ReadyInv, plugin' = plugin, workers' = workers,
           \/ Settles(Boot)
           \/ EndedFor(Boot)
    PROVE  SeenOK' /\ WillEnd'
<1>1. CASE Settles(Boot)
  BY <1>1, ReadyFacts DEF Settles, SeenOK, WillEnd
<1>2. CASE EndedFor(Boot)
  BY <1>2, ReadyFacts DEF EndedFor, SeenOK, WillEnd, StopPCs, HandlePCs
<1> QED BY <1>1, <1>2

LEMMA ReadyStopContinues ==
    ASSUME Operators = {Boot}, ReadyInv, NEW t \in Tasks, StopContinues(t), plugin' = plugin
    PROVE  SeenOK' /\ WillEnd'
<1>0. BaseInv
  BY ReadyFacts, SingleFacts
<1>1. /\ t = Boot /\ workers' = workers /\ task[Boot].pc \in StopPCs
      /\ \E y \in TaskRecord :
            /\ task' = [task EXCEPT ![t] = y]
            /\ y.op = task[t].op /\ y.seen = task[t].seen
            /\ y.pc \in {"stopped", "linger", "term", "kill"}
  BY <1>0, StopContinuesEffect
<1>2. /\ task'[Boot].op = task[Boot].op /\ task'[Boot].seen = task[Boot].seen
      /\ task'[Boot].pc \in {"stopped", "linger", "term", "kill"}
  BY <1>1, ReadyFacts, SingleFacts
<1>3. workers # None /\ SeenOK
  BY <1>1, ReadyFacts DEF HandlePCs
<1> QED BY <1>1, <1>2, <1>3 DEF SeenOK, WillEnd, StopPCs

LEMMA ReadyRowStep ==
    ASSUME UpgradesFail = FALSE, ReadyInv, RowStep(Boot)
    PROVE  SeenOK' /\ WillEnd'
<1>1. /\ SeenOK /\ WillEnd /\ task[Boot] \in TaskRecord /\ plugin \in Plugins
      /\ task \in [Tasks -> TaskRecord] /\ Boot \in Tasks
  BY ReadyFacts, SingleFacts
<1>2. workers' = workers
  BY DEF RowStep, Install, WriteStatus, LoadSingle, Activated, ActivationFailed, Register, Request
<1>3. CASE Install(Boot)
  <2>1. CASE plugin = "uninstalled"
    <3>1. plugin' = "installed" /\ task'[Boot].op = "load" /\ task'[Boot].pc = "read"
      BY <1>1, <1>3, <2>1 DEF Install, At, TaskRecord
    <3> QED BY <3>1 DEF SeenOK, WillEnd, StopPCs
  <2>2. CASE plugin # "uninstalled"
    <3>1. /\ plugin' = plugin /\ task'[Boot] = Idle /\ task[Boot].pc = "read"
          /\ task[Boot].op = "install"
      BY <1>1, <1>3, <2>2 DEF Install, At, Finish
    <3> QED BY <1>1, <1>2, <3>1 DEF SeenOK, WillEnd, StopPCs, Idle
  <2> QED BY <2>1, <2>2
<1>4. CASE WriteStatus(Boot)
  <2> DEFINE op == task[Boot].op
  <2>1. /\ task[Boot].pc = "write" /\ task[Boot].seen = plugin
        /\ op \in {"load", "enable", "disable", "unload", "upgrade", "markError"}
        /\ op = "disable" => plugin = "ready"
        /\ op \in {"load", "enable", "upgrade"} => "ready" \in ValidTransitions[plugin]
    BY <1>1, <1>4 DEF WriteStatus, At, SeenOK
  <2>2. CASE op = "unload" \/ Target(op) \in ValidTransitions[plugin]
    <3>1. /\ plugin' = Target(op)
          /\ IF Target(op) = "ready"
             THEN task' = [task EXCEPT ![Boot] = [Idle EXCEPT !.pc = "load", !.op = "load"]]
             ELSE task' = [task EXCEPT ![Boot] = Idle]
      BY <1>4, <2>1, <2>2 DEF WriteStatus, Finish
    <3>2. Idle.pc = "idle" /\ [Idle EXCEPT !.pc = "load", !.op = "load"].pc = "load"
      BY DEF Idle
    <3>3. \/ plugin' = "ready" /\ task'[Boot].pc = "load"
          \/ plugin' # "ready" /\ task'[Boot].pc = "idle"
      BY <1>1, <3>1, <3>2
    <3> QED BY <3>3 DEF SeenOK, WillEnd, StopPCs
  <2>3. CASE ~(op = "unload" \/ Target(op) \in ValidTransitions[plugin])
    <3>1. plugin' = plugin /\ task'[Boot].pc = "idle"
      BY <1>1, <1>4, <2>1, <2>3 DEF WriteStatus, Finish, Idle
    <3>2. plugin # "ready"
      BY <2>1, <2>3 DEF Target, ValidTransitions
    <3> QED BY <3>1, <3>2 DEF SeenOK, WillEnd, StopPCs
  <2> QED BY <2>2, <2>3
<1>5. CASE LoadSingle(Boot)
  <2>1. /\ plugin' = plugin
        /\ \/ plugin = "ready" /\ task'[Boot].pc = "start"
           \/ plugin # "ready" /\ task'[Boot].pc = "idle"
    BY <1>1, <1>5 DEF LoadSingle, Goto, Finish, Idle, TaskRecord
  <2> QED BY <2>1 DEF SeenOK, WillEnd, StopPCs
<1>6. CASE Activated(Boot) \/ ActivationFailed(Boot) \/ Register(Boot) \/ \E op \in Ops : Request(Boot, op)
  <2>1. plugin' = plugin /\ task[Boot].pc \in {"started", "register", "failed", "idle"}
    BY <1>6 DEF Activated, ActivationFailed, Register, Request, At
  <2>2. \/ task'[Boot].pc \in {"idle", "register"}
        \/ task'[Boot].pc = "read" /\ task'[Boot].op # "none"
    <3>1. \A op : /\ [Idle EXCEPT !.pc = "read", !.op = op].pc = "read"
                  /\ [Idle EXCEPT !.pc = "read", !.op = op].op = op
      BY DEF Idle
    <3>2. Idle.pc = "idle"
      BY DEF Idle
    <3>3. Kinds[Boot] \subseteq Ops \ {"none"}
      BY LifecycleAssumption
    <3>4. CASE \E op \in Ops : Request(Boot, op)
      <4>1. PICK op \in Kinds[Boot] :
                task' = [task EXCEPT ![Boot] = [Idle EXCEPT !.pc = "read", !.op = op]]
        BY <3>4 DEF Request
      <4> QED BY <1>1, <3>1, <3>3, <4>1
    <3>5. CASE Activated(Boot) \/ ActivationFailed(Boot) \/ Register(Boot)
      <4>1. \/ task' = [task EXCEPT ![Boot] = Idle]
            \/ task' = [task EXCEPT ![Boot] = [Idle EXCEPT !.pc = "register", !.op = "load"]]
            \/ task' = [task EXCEPT ![Boot] = [Idle EXCEPT !.pc = "read", !.op = "markError"]]
        BY <3>5 DEF Activated, ActivationFailed, Register, MarkError, Finish
      <4>2. PICK z : z = [Idle EXCEPT !.pc = "read", !.op = "markError"]
        OBVIOUS
      <4>3. z.pc = "read" /\ z.op # "none"
        BY <3>1, <4>2
      <4>4. [Idle EXCEPT !.pc = "register", !.op = "load"].pc = "register"
        BY DEF Idle
      <4> QED BY <1>1, <3>2, <4>1, <4>2, <4>3, <4>4
    <3> QED BY <1>6, <3>4, <3>5
  <2> QED BY <1>1, <1>2, <2>1, <2>2 DEF SeenOK, WillEnd, StopPCs
<1> QED BY <1>3, <1>4, <1>5, <1>6 DEF RowStep

LEMMA ReadyRead ==
    ASSUME ReadyInv, ReadPlugin(Boot) \/ Deactivate(Boot)
    PROVE  SeenOK' /\ WillEnd'
<1>0. BaseInv /\ Boot \in Operators /\ SeenOK /\ WillEnd
  BY ReadyFacts, SingleFacts
<1>1. PICK y \in TaskRecord :
           /\ workers' = workers /\ plugin' = plugin
           /\ task[Boot].pc \in {"read", "deactivate"} /\ task' = [task EXCEPT ![Boot] = y]
           /\ \/ y.pc \in {"idle", "deactivate", "write"}
              \/ workers # None /\ StopEffect(workers, y)
           /\ \/ y.pc = "idle" /\ task[Boot].pc = "read" /\ ~Admissible(task[Boot].op)
              \/ /\ y.pc # "idle" /\ y.op = task[Boot].op
                 /\ \/ /\ task[Boot].pc = "read" /\ y.seen = plugin /\ y.op # "install"
                       /\ Admissible(y.op)
                       /\ y.pc \in {"write", "deactivate"} => y.op # "restart"
                    \/ task[Boot].pc = "deactivate" /\ y.seen = task[Boot].seen
  BY <1>0, ReadEffect
<1>2. task'[Boot] = y /\ task[Boot] \in TaskRecord /\ plugin \in Plugins
  BY <1>1, ReadyFacts, SingleFacts
<1>3. /\ y.pc \in {"idle", "deactivate", "write", "stopped", "shutdown"}
      /\ y.pc \in {"stopped", "shutdown"} => workers # None
  BY <1>1 DEF StopEffect
<1>4. Admissible("markError")
  BY DEF Admissible
<1>5. WillEnd'
  BY <1>0, <1>1, <1>2, <1>3, <1>4 DEF WillEnd
<1>6. SeenOK'
  <2>1. CASE y.pc = "idle"
    BY <1>2, <2>1 DEF SeenOK, StopPCs
  <2>2. CASE y.pc # "idle" /\ task[Boot].pc = "deactivate" /\ y.seen = task[Boot].seen
    BY <1>0, <1>1, <1>2, <1>3, <2>2 DEF SeenOK
  <2>3. CASE /\ y.pc # "idle" /\ task[Boot].pc = "read" /\ y.seen = plugin /\ y.op # "install"
             /\ Admissible(y.op) /\ (y.pc \in {"write", "deactivate"} => y.op # "restart")
    <3>1. y.op \in Ops \ {"none", "install"} /\ y.op = task[Boot].op
      BY <1>0, <1>1, <1>2, <2>3 DEF SeenOK, TaskRecord
    <3>2. y.op \in {"load", "enable", "disable", "unload", "upgrade", "restart", "markError"}
      BY <3>1 DEF Ops
    <3>3. y.op = "disable" => plugin = "ready"
      BY <2>3 DEF Admissible
    <3>4. y.op \in {"load", "enable", "upgrade"} => "ready" \in ValidTransitions[plugin]
      BY <2>3 DEF Admissible, ValidTransitions
    <3>5. task'[Boot].pc # "read"
      BY <1>2, <1>3
    <3> QED BY <1>1, <1>2, <2>3, <3>2, <3>3, <3>4, <3>5 DEF SeenOK
  <2> QED BY <1>1, <2>1, <2>2, <2>3
<1> QED BY <1>5, <1>6

LEMMA ReadyWorkerStopped ==
    ASSUME ReadyInv, WorkerStopped(Boot)
    PROVE  SeenOK' /\ WillEnd'
<1>0. BaseInv /\ Boot \in Operators /\ SeenOK
  BY ReadyFacts, SingleFacts
<1>1. PICK y \in TaskRecord :
        /\ plugin' = plugin /\ task[Boot].pc = "stopped"
        /\ task' = [task EXCEPT ![Boot] = y] /\ y.op = task[Boot].op /\ y.seen = task[Boot].seen
        /\ \/ workers' = workers /\ y.pc \in {"failed", "init"}
           \/ workers' = None /\ y.pc = "write" /\ y.op # "restart"
  BY <1>0, WorkerStoppedEffect
<1>2. task'[Boot] = y /\ workers # None
  BY <1>1, ReadyFacts, SingleFacts DEF HandlePCs
<1> QED BY <1>0, <1>1, <1>2 DEF SeenOK, WillEnd, StopPCs

LEMMA ReadyStartWorker ==
    ASSUME Operators = {Boot}, ReadyInv, StartWorker(Boot)
    PROVE  SeenOK' /\ WillEnd'
<1>0. BaseInv /\ Boot \in Operators
  BY ReadyFacts, SingleFacts
<1>1. PICK y \in TaskRecord :
        /\ plugin' = plugin /\ task[Boot].pc = "start" /\ task' = [task EXCEPT ![Boot] = y]
        /\ \/ /\ workers' = workers
              /\ \/ y.pc = "join" /\ \E t \in Tasks : HoldsStartupLock(t)
                 \/ y.pc = "failed" /\ ~Replaceable(workers)
           \/ workers' \in Handles /\ y.pc \in {"failed", "init"}
  BY <1>0, StartWorkerEffect
<1>2. ~(\E t \in Tasks : HoldsStartupLock(t))
  BY <1>1 DEF HoldsStartupLock
<1>3. task'[Boot] = y /\ workers' # None /\ y.pc \in {"failed", "init"}
  BY <1>1, <1>2, ReadyFacts, SingleFacts, TaskKinds DEF Replaceable
<1> QED BY <1>3 DEF SeenOK, WillEnd, StopPCs

LEMMA ReadyNext ==
    ASSUME Operators = {Boot}, UpgradesFail = FALSE, ReadyInv, Next
    PROVE  ReadyInv'
<1>0. BaseInv /\ Boot \in Operators /\ SingleInv
  BY ReadyFacts, SingleFacts
<1>1. SingleInv'
  BY <1>0, SingleNext
<1>2. CASE Event
  <2>1. Settles(Boot) /\ plugin' = plugin /\ workers' = workers
    BY <1>0, <1>2, EventSettles DEF Event, Exit, Answer, Expire, BackoffFires, Call
  <2> QED BY <1>1, <2>1, ReadyStays DEF ReadyInv
<1>3. CASE \E t \in Tasks : Continuation(t)
  <2>1. PICK t \in Tasks : (StartEnds(t) \/ StopContinues(t)) /\ plugin' = plugin
    BY <1>3 DEF Continuation, StartEnds
  <2>2. StartEnds(t) => EndedFor(Boot) /\ workers' = workers
    BY <1>0, StartEndsEffect
  <2> QED BY <1>1, <2>1, <2>2, ReadyStays, ReadyStopContinues DEF ReadyInv
<1>4. CASE \E o \in Operators : OperatorStep(o) \/ Returned(o) \/ \E op \in Ops : Request(o, op)
  <2>1. OperatorStep(Boot) \/ Returned(Boot) \/ \E op \in Ops : Request(Boot, op)
    BY <1>4
  <2> QED BY <1>1, <2>1, ReadyRowStep, ReadyRead, ReadyWorkerStopped, ReadyStartWorker
          DEF OperatorStep, Returned, RowStep, ReadyInv
<1> QED BY <1>2, <1>3, <1>4 DEF Next

LEMMA ReadyStutter ==
    ASSUME ReadyInv, UNCHANGED vars
    PROVE  ReadyInv'
<1>1. SingleInv'
  BY SingleStutter, ReadyFacts
<1> QED BY <1>1, ReadyFacts DEF vars, workerVars, ReadyInv, SeenOK, WillEnd

(* Once no operation is in progress a ready plugin has a worker registered:  *)
(* every operation that writes ready goes on to start one, and a start that  *)
(* fails before the worker is registered writes error.  The upgrade must not *)
(* throw: after it has stopped the worker it leaves the plugin ready.        *)
THEOREM ReadyPluginHasWorker ==
    ASSUME Operators = {Boot}, UpgradesFail = FALSE
    PROVE  Spec => []ReadyHasWorker
<1>1. Init => ReadyInv
  BY SingleInit, ReadyInit DEF ReadyInv
<1>2. ReadyInv /\ [Next]_vars => ReadyInv'
  BY ReadyNext, ReadyStutter
<1>3. ReadyInv => ReadyHasWorker
  BY SingleFacts, ReadyFacts DEF WillEnd, ReadyHasWorker
<1> QED BY <1>1, <1>2, <1>3, PTL DEF Spec
=============================================================================
