--------------------------- MODULE BudgetsProofs ---------------------------
(***************************************************************************)
(* Proofs about Budgets, for all scopes, runs, tasks and bounds: the types, *)
(* that a crossing is on record and stops the work once nothing is in       *)
(* progress, and that a manual pause stays.                                 *)
(*                                                                          *)
(* The invariant says who is still going to look at a scope whose budget is *)
(* spent.                                                                   *)
(***************************************************************************)
EXTENDS Budgets, TLAPS

(* A task t with record x is due at a scope until it has found or inserted   *)
(* its incident.                                                             *)
Reading(t, x, s) ==
    /\ x.pc = "read"
    /\ t \in Events \/ (x.scope = s /\ Exceeded(x.rows[s]))
Listed(x, s) ==
    /\ x.pc \in {"check", "incident", "insert", "pause", "select", "cancel"}
    /\ s \in x.todo /\ Exceeded(x.rows[s])
Recording(x, s) == x.pc \in {"incident", "insert"} /\ x.scope = s
DueBy(t, x, s)  == Reading(t, x, s) \/ Listed(x, s) \/ Recording(x, s)
Due(t, s)       == DueBy(t, task[t], s)

(* It will cancel a run of the scope until its sweep has come to it.         *)
Sweeping(x, s, r) ==
    \/ x.pc \in {"pause", "select"} /\ x.scope = s
    \/ x.pc = "cancel" /\ r \in x.runs
Stopping(t, s, r) == Due(t, s) \/ Sweeping(task[t], s, r)

(* What a spent budget must stop: a run at work, and one about to be claimed.*)
Live(r) == run[r].status = "running" \/ (run[r].status = "queued" /\ run[r].checked)

Recorded == \A s \in Scopes :
    Over(s) => incident[s].status # None \/ \E t \in Tasks : Due(t, s)
Stopped  == \A s \in Scopes : \A r \in ClaimChecked(s) :
    Over(s) /\ Live(r) => \E t \in Tasks : Stopping(t, s, r)

(* Where a task needs its scope, it has one.                                 *)
Scoped(t, x) ==
    x.pc \in {"incident", "insert", "pause", "select"} \/ (x.pc = "read" /\ t \notin Events) =>
        x.scope \in Scopes

TypeInv == TypeOK /\ \A t \in Tasks : Scoped(t, task[t])

Inv == TypeInv /\ (~unchecked => Recorded /\ Stopped)

-----------------------------------------------------------------------------
(* What a step may do to a scope.                                            *)
Crosses(s)    == Over(s)' => Over(s) \/ \E t \in Tasks : Due(t, s)'
KeepsDue(s)   == \A t \in Tasks :
    Over(s) /\ Due(t, s) => Due(t, s)' \/ incident'[s].status # None
StartsNone(s) == \A r \in ClaimChecked(s) : Over(s) /\ Live(r)' => Live(r)
KeepsSweep(s) == \A r \in ClaimChecked(s) : \A t \in Tasks :
    Over(s) /\ Stopping(t, s, r) /\ Live(r)' => Stopping(t, s, r)'

Kept ==
    /\ unchecked => unchecked'
    /\ unchecked' \/ \A s \in Scopes :
          /\ incident[s].status # None => incident'[s].status # None
          /\ Crosses(s) /\ KeepsDue(s) /\ StartsNone(s) /\ KeepsSweep(s)

LEMMA KeptInv ==
    ASSUME ~unchecked => Recorded /\ Stopped, Kept
    PROVE  (~unchecked => Recorded /\ Stopped)'
<1> SUFFICES ASSUME ~unchecked' PROVE Recorded' /\ Stopped'
    OBVIOUS
<1>1. /\ ~unchecked /\ Recorded /\ Stopped
      /\ \A s \in Scopes :
            /\ incident[s].status # None => incident'[s].status # None
            /\ Crosses(s) /\ KeepsDue(s) /\ StartsNone(s) /\ KeepsSweep(s)
    BY DEF Kept
<1>2. Recorded'
    <2> SUFFICES ASSUME NEW s \in Scopes, Over(s)'
                 PROVE  incident'[s].status # None \/ \E t \in Tasks : Due(t, s)'
        BY DEF Recorded
    <2>1. Over(s) \/ \E t \in Tasks : Due(t, s)'
        BY <1>1 DEF Crosses
    <2>2. CASE Over(s)
        <3>1. incident[s].status # None \/ \E t \in Tasks : Due(t, s)
            BY <1>1, <2>2 DEF Recorded
        <3> QED BY <1>1, <2>2, <3>1 DEF KeepsDue
    <2> QED BY <2>1, <2>2
<1>3. Stopped'
    <2> SUFFICES ASSUME NEW s \in Scopes, NEW r \in ClaimChecked(s), Over(s)', Live(r)'
                 PROVE  \E t \in Tasks : Stopping(t, s, r)'
        BY DEF Stopped
    <2>1. Over(s) \/ \E t \in Tasks : Due(t, s)'
        BY <1>1 DEF Crosses
    <2>2. CASE Over(s)
        <3>1. Live(r)
            BY <1>1, <2>2 DEF StartsNone
        <3>2. PICK t \in Tasks : Stopping(t, s, r)
            BY <1>1, <2>2, <3>1 DEF Stopped
        <3> QED BY <1>1, <2>2, <3>2 DEF KeepsSweep
    <2>3. CASE \E t \in Tasks : Due(t, s)'
        BY <2>3 DEF Stopping
    <2> QED BY <2>1, <2>2, <2>3
<1> QED BY <1>2, <1>3

-----------------------------------------------------------------------------
LEMMA TypeFacts ==
    /\ NoPolicy \in Policy /\ NoRows \in [Scopes -> Policy] /\ NoRun \in Run
    /\ Idle \in TaskRecord /\ Idle.pc = "idle"
    /\ MaxAmount \in Nat /\ MaxSpend \in Nat
<1>1. NoPolicy \in Policy
    BY BudgetsAssumption DEF NoPolicy, Policy
<1>2. NoRows \in [Scopes -> Policy]
    BY <1>1 DEF NoRows
<1>3. Idle \in TaskRecord /\ Idle.pc = "idle"
    BY <1>2 DEF Idle, TaskRecord
<1> QED BY <1>1, <1>2, <1>3, BudgetsAssumption DEF NoRun, Run

LEMMA WorkFacts ==
    ASSUME NEW s \in Scopes
    PROVE  ClaimChecked(s) \subseteq WorkOf[s] /\ WorkOf[s] \subseteq Runs
BY BudgetsAssumption DEF ClaimChecked

LEMMA TaskFacts ==
    ASSUME TypeInv, NEW t \in Tasks
    PROVE  /\ task[t] \in TaskRecord /\ task[t].todo \subseteq Scopes
           /\ task[t].scope \in Scopes \cup {None} /\ task[t].rows \in [Scopes -> Policy]
           /\ task[t].runs \subseteq Runs /\ Scoped(t, task[t])
BY DEF TypeInv, TypeOK, TaskRecord

(* Most steps are of one task, whose record becomes y: it stays due and goes *)
(* on with its sweep, and neither the policies nor the runs are touched.     *)
LEMMA Move ==
    ASSUME TypeInv, NEW t \in Tasks, NEW y \in TaskRecord, Scoped(t, y), task' = [task EXCEPT ![t] = y],
           UNCHANGED <<policy, spent, run>>, unchecked' = unchecked,
           incident' \in [Scopes -> Incident], scope' \in [Scopes -> {"active", "budget", "manual"}],
           \A s \in Scopes : incident[s].status # None => incident'[s].status # None,
           \A s \in Scopes : DueBy(t, task[t], s) /\ Over(s) =>
               DueBy(t, y, s) \/ incident'[s].status # None,
           \A s \in Scopes : \A r \in ClaimChecked(s) :
               Stopping(t, s, r) /\ Over(s) /\ Live(r) => DueBy(t, y, s) \/ Sweeping(y, s, r)
    PROVE  TypeInv' /\ Kept
<1>1. TypeOK' /\ TypeOK
    BY DEF TypeInv, TypeOK
<1>2. /\ \A s \in Scopes : Over(s)' = Over(s)
      /\ \A r \in Runs : Live(r)' = Live(r)
      /\ \A p : Exceeded(p)' = Exceeded(p)
    BY DEF Over, Exceeded, Live
<1>3. task'[t] = y /\ \A u \in Tasks \ {t} : task'[u] = task[u]
    BY <1>1 DEF TypeOK
<1>4. ASSUME NEW u \in Tasks, NEW s \in Scopes
      PROVE  Due(u, s)' = DueBy(u, task'[u], s)
    BY DEF Due, DueBy, Reading, Listed, Recording, Exceeded
<1>5. ASSUME NEW u \in Tasks, NEW s \in Scopes, NEW r \in Runs
      PROVE  Stopping(u, s, r)' = (DueBy(u, task'[u], s) \/ Sweeping(task'[u], s, r))
    BY <1>4 DEF Stopping, Sweeping
<1>6. ASSUME NEW s \in Scopes
      PROVE  Crosses(s) /\ KeepsDue(s) /\ StartsNone(s) /\ KeepsSweep(s)
    <2>1. ClaimChecked(s) \subseteq Runs
        BY WorkFacts
    <2>2. Crosses(s) /\ StartsNone(s)
        BY <1>2, <2>1 DEF Crosses, StartsNone
    <2>3. KeepsDue(s)
        <3> SUFFICES ASSUME NEW u \in Tasks, Over(s), Due(u, s)
                     PROVE  Due(u, s)' \/ incident'[s].status # None
            BY DEF KeepsDue
        <3>1. CASE u = t
            BY <1>3, <1>4, <3>1 DEF Due
        <3>2. CASE u # t
            BY <1>3, <1>4, <3>2 DEF Due
        <3> QED BY <3>1, <3>2
    <2>4. KeepsSweep(s)
        <3> SUFFICES ASSUME NEW r \in ClaimChecked(s), NEW u \in Tasks,
                            Over(s), Stopping(u, s, r), Live(r)'
                     PROVE  Stopping(u, s, r)'
            BY DEF KeepsSweep
        <3>1. r \in Runs /\ Live(r)
            BY <1>2, <2>1
        <3>2. CASE u = t
            <4>1. DueBy(t, y, s) \/ Sweeping(y, s, r)
                BY <3>1, <3>2
            <4>2. DueBy(u, task'[u], s) \/ Sweeping(task'[u], s, r)
                BY <1>3, <3>2, <4>1
            <4> QED BY <1>5, <3>1, <4>2
        <3>3. CASE u # t
            BY <1>3, <1>5, <3>1, <3>3 DEF Stopping, Due
        <3> QED BY <3>2, <3>3
    <2> QED BY <2>2, <2>3, <2>4
<1>7. \A u \in Tasks : Scoped(u, task'[u])
    BY <1>3 DEF TypeInv
<1> QED BY <1>1, <1>6, <1>7 DEF Kept, TypeInv, Scoped

-----------------------------------------------------------------------------
(* One lemma per action.                                                     *)
LEMMA ReadPoliciesStep ==
    ASSUME TypeInv, NEW e \in Events, ReadPolicies(e)
    PROVE  TypeInv' /\ Kept
<1> DEFINE y == [Idle EXCEPT !.pc = "check", !.rows = policy, !.todo = Relevant]
<1>1. e \in Tasks /\ y \in TaskRecord
    BY TypeFacts DEF TypeInv, TypeOK, Tasks, TaskRecord, Relevant
<1>2. y.pc = "check" /\ y.rows = policy /\ y.todo = Relevant /\ Scoped(e, y)
    BY DEF Idle, Scoped
<1>3. task[e].pc = "read"
    BY DEF ReadPolicies, At
<1>4. ASSUME NEW s \in Scopes, Over(s) PROVE DueBy(e, y, s)
    BY <1>2, <1>4 DEF DueBy, Listed, Over, Relevant
<1> HIDE DEF y
<1>5. task' = [task EXCEPT ![e] = y] /\ UNCHANGED <<policy, spent, incident, scope, run, unchecked>>
    BY DEF ReadPolicies, y
<1> QED BY <1>1, <1>2, <1>4, <1>5, Move DEF TypeInv, TypeOK

LEMMA EvaluateStep ==
    ASSUME TypeInv, NEW t \in Tasks, Evaluate(t)
    PROVE  TypeInv' /\ Kept
<1>1. /\ task[t].pc = "check"
      /\ UNCHANGED <<policy, spent, incident, scope, run, unchecked>>
    BY DEF Evaluate, At
<1>2. CASE task[t].todo = {} /\ task' = [task EXCEPT ![t] = Idle]
    <2>1. \A s \in Scopes : ~DueBy(t, task[t], s) /\ \A r : ~Sweeping(task[t], s, r)
        BY <1>1, <1>2 DEF DueBy, Reading, Listed, Recording, Sweeping
    <2>2. Scoped(t, Idle)
        BY TypeFacts DEF Scoped
    <2> QED BY <1>1, <1>2, <2>1, <2>2, TypeFacts, Move DEF TypeInv, TypeOK, Stopping, Due
<1>3. ASSUME NEW s \in task[t].todo,
             task' = [task EXCEPT ![t].todo = @ \ {s}, ![t].rows[s] = NoPolicy,
                         ![t].scope = IF Exceeded(task[t].rows[s]) THEN s ELSE None,
                         ![t].pc = IF Exceeded(task[t].rows[s]) THEN "incident" ELSE @]
      PROVE  TypeInv' /\ Kept
    <2> DEFINE y == [task[t] EXCEPT !.todo = @ \ {s}, !.rows[s] = NoPolicy,
                         !.scope = IF Exceeded(task[t].rows[s]) THEN s ELSE None,
                         !.pc = IF Exceeded(task[t].rows[s]) THEN "incident" ELSE @]
    <2>1. s \in Scopes /\ task[t] \in TaskRecord
        BY TaskFacts
    <2>2. y \in TaskRecord
        BY <2>1, TypeFacts DEF TaskRecord
    <2>3. /\ y.todo = task[t].todo \ {s}
          /\ \A z \in Scopes \ {s} : y.rows[z] = task[t].rows[z]
          /\ y.scope = IF Exceeded(task[t].rows[s]) THEN s ELSE None
          /\ y.pc = IF Exceeded(task[t].rows[s]) THEN "incident" ELSE "check"
        BY <1>1, <2>1 DEF TaskRecord
    <2>4. task' = [task EXCEPT ![t] = y]
        BY <1>3, <2>1 DEF TypeInv, TypeOK
    <2> HIDE DEF y
    <2>5. \A z \in Scopes : DueBy(t, task[t], z) => DueBy(t, y, z)
        BY <1>1, <2>3 DEF DueBy, Reading, Listed, Recording
    <2>6. /\ \A z \in Scopes : \A r : ~Sweeping(task[t], z, r)
          /\ Scoped(t, y)
        BY <1>1, <2>1, <2>3 DEF Sweeping, Scoped
    <2> QED BY <1>1, <2>2, <2>4, <2>5, <2>6, Move DEF TypeInv, TypeOK, Stopping, Due
<1> QED BY <1>2, <1>3 DEF Evaluate

LEMMA LookForIncidentStep ==
    ASSUME TypeInv, NEW t \in Tasks, LookForIncident(t)
    PROVE  TypeInv' /\ Kept
<1> DEFINE found == incident[task[t].scope].status \in {"open", "resolved"}
           y == [task[t] EXCEPT !.pc = IF found THEN "pause" ELSE "insert"]
<1>1. /\ task[t].pc = "incident" /\ task[t] \in TaskRecord
      /\ UNCHANGED <<policy, spent, incident, scope, run, unchecked>>
      /\ task' = [task EXCEPT ![t] = y]
    BY TaskFacts DEF LookForIncident, At, Goto
<1>2. /\ y \in TaskRecord /\ y.scope = task[t].scope /\ y.todo = task[t].todo
      /\ y.rows = task[t].rows /\ Scoped(t, y)
      /\ y.pc = IF found THEN "pause" ELSE "insert"
    BY <1>1, TaskFacts DEF TaskRecord, Scoped
<1> HIDE DEF y
<1>3. \A s \in Scopes : found /\ task[t].scope = s => incident'[s].status # None
    BY <1>1 DEF None
<1> HIDE DEF found
<1>4. \A s \in Scopes : DueBy(t, task[t], s) => DueBy(t, y, s) \/ incident'[s].status # None
    BY <1>1, <1>2, <1>3 DEF DueBy, Reading, Listed, Recording
<1>5. \A s \in Scopes : \A r : Stopping(t, s, r) => DueBy(t, y, s) \/ Sweeping(y, s, r)
    BY <1>1, <1>2 DEF Stopping, Due, DueBy, Reading, Listed, Recording, Sweeping
<1> QED BY <1>1, <1>2, <1>4, <1>5, Move DEF TypeInv, TypeOK

LEMMA PauseScopeStep ==
    ASSUME TypeInv, NEW t \in Tasks, PauseScope(t)
    PROVE  TypeInv' /\ Kept
<1> DEFINE y == [task[t] EXCEPT !.pc = "select"]
<1>1. /\ task[t].pc = "pause" /\ task[t] \in TaskRecord
      /\ UNCHANGED <<policy, spent, incident, run, unchecked>>
      /\ task' = [task EXCEPT ![t] = y]
      /\ scope' \in [Scopes -> {"active", "budget", "manual"}]
    BY TaskFacts DEF PauseScope, At, Goto, Paused, TypeInv, TypeOK
<1>2. /\ y \in TaskRecord /\ y.scope = task[t].scope /\ y.todo = task[t].todo
      /\ y.rows = task[t].rows /\ y.pc = "select" /\ Scoped(t, y)
    BY <1>1, TaskFacts DEF TaskRecord, Scoped
<1> HIDE DEF y
<1>3. \A s \in Scopes : DueBy(t, task[t], s) => DueBy(t, y, s)
    BY <1>1, <1>2 DEF DueBy, Reading, Listed, Recording
<1>4. \A s \in Scopes : \A r : Stopping(t, s, r) => DueBy(t, y, s) \/ Sweeping(y, s, r)
    BY <1>1, <1>2, <1>3 DEF Stopping, Due, Sweeping
<1> QED BY <1>1, <1>2, <1>3, <1>4, Move DEF TypeInv, TypeOK

LEMMA SelectWorkStep ==
    ASSUME TypeInv, NEW t \in Tasks, SelectWork(t)
    PROVE  TypeInv' /\ Kept
<1> DEFINE y == [task[t] EXCEPT !.pc = "cancel", !.runs = Unfinished(task[t].scope)]
<1>1. /\ task[t].pc = "select" /\ task[t] \in TaskRecord
      /\ UNCHANGED <<policy, spent, incident, scope, run, unchecked>>
      /\ task' = [task EXCEPT ![t] = y]
    BY TaskFacts DEF SelectWork, At, TypeInv, TypeOK
<1>2. Unfinished(task[t].scope) \subseteq Runs
    BY <1>1, TaskFacts, BudgetsAssumption DEF Unfinished, Scoped
<1>3. /\ y \in TaskRecord /\ y.scope = task[t].scope /\ y.todo = task[t].todo
      /\ y.rows = task[t].rows /\ y.pc = "cancel" /\ y.runs = Unfinished(task[t].scope)
      /\ Scoped(t, y)
    BY <1>1, <1>2 DEF TaskRecord, Scoped
<1> HIDE DEF y
<1>4. \A s \in Scopes : DueBy(t, task[t], s) => DueBy(t, y, s)
    BY <1>1, <1>3 DEF DueBy, Reading, Listed, Recording
<1>5. \A s \in Scopes : \A r \in ClaimChecked(s) : Live(r) => r \in Unfinished(s)
    BY WorkFacts DEF Live, Unfinished, None
<1>6. \A s \in Scopes : \A r \in ClaimChecked(s) :
          Stopping(t, s, r) /\ Live(r) => DueBy(t, y, s) \/ Sweeping(y, s, r)
    BY <1>1, <1>3, <1>4, <1>5 DEF Stopping, Due, Sweeping
<1> QED BY <1>1, <1>3, <1>4, <1>6, Move DEF TypeInv, TypeOK

LEMMA ObserveStep ==
    ASSUME TypeInv, NEW a \in Admins, Observe(a)
    PROVE  TypeInv' /\ Kept
<1> DEFINE over == Exceeded(task[a].rows[task[a].scope])
           y == [task[a] EXCEPT !.rows = NoRows, !.pc = IF over THEN "incident" ELSE "lift"]
<1>1. /\ a \in Tasks /\ a \notin Events /\ task[a].pc = "read" /\ task[a] \in TaskRecord
      /\ UNCHANGED <<policy, spent, incident, scope, run, unchecked>>
      /\ task' = [task EXCEPT ![a] = y]
    BY TaskFacts, BudgetsAssumption DEF Observe, At, Tasks, TypeInv, TypeOK
<1>2. /\ y \in TaskRecord /\ y.scope = task[a].scope /\ Scoped(a, y)
      /\ y.pc = IF over THEN "incident" ELSE "lift"
    BY <1>1, TaskFacts, TypeFacts DEF TaskRecord, Scoped
<1> HIDE DEF y
<1>3. \A s \in Scopes : DueBy(a, task[a], s) => DueBy(a, y, s)
    BY <1>1, <1>2 DEF DueBy, Reading, Listed, Recording
<1>4. \A s \in Scopes : \A r : Stopping(a, s, r) => DueBy(a, y, s) \/ Sweeping(y, s, r)
    BY <1>1, <1>3 DEF Stopping, Due, Sweeping
<1> QED BY <1>1, <1>2, <1>3, <1>4, Move DEF TypeInv, TypeOK

(* Where a request is not due.                                               *)
Settled == {"idle", "raise", "resume", "lift", "open", "resolve", "mark"}

(* A request that is not due: it is past the spent budget it may have read.  *)
LEMMA Undue ==
    ASSUME TypeInv, NEW a \in Admins, task[a].pc \in Settled,
           NEW y \in TaskRecord, y.pc \in Settled,
           task' = [task EXCEPT ![a] = y],
           UNCHANGED <<policy, spent, run>>, unchecked' = unchecked,
           incident' \in [Scopes -> Incident], scope' \in [Scopes -> {"active", "budget", "manual"}],
           \A s \in Scopes : incident[s].status # None => incident'[s].status # None
    PROVE  TypeInv' /\ Kept
<1>1. a \in Tasks /\ Scoped(a, y)
    BY DEF Tasks, Scoped, Settled
<1>2. \A s \in Scopes : ~DueBy(a, task[a], s) /\ \A r : ~Stopping(a, s, r)
    BY DEF Stopping, Due, DueBy, Reading, Listed, Recording, Sweeping, Settled
<1> QED BY <1>1, <1>2, Move

LEMMA RequestSteps ==
    ASSUME TypeInv, NEW a \in Admins,
           \/ ResumeScope(a) \/ SelectOpen(a) \/ ResolveIncidents(a) \/ MarkApproval(a)
           \/ \E s \in Scopes : \/ DismissIncident(a, s)
                               \/ \E n \in 0 .. MaxAmount : RaiseBudget(a, s, n)
    PROVE  TypeInv' /\ Kept
<1>1. /\ a \in Tasks /\ task[a] \in TaskRecord
      /\ incident \in [Scopes -> Incident] /\ scope \in [Scopes -> {"active", "budget", "manual"}]
    BY TaskFacts DEF Tasks, TypeInv, TypeOK
<1>2. CASE ResumeScope(a)
    <2> DEFINE y == [task[a] EXCEPT !.pc = IF At(a, "lift") THEN "open" ELSE "resolve"]
    <2>1. y \in TaskRecord /\ y.pc \in Settled /\ task[a].pc \in Settled
        BY <1>1, <1>2 DEF TaskRecord, ResumeScope, At, Settled
    <2>2. scope' \in [Scopes -> {"active", "budget", "manual"}]
        BY <1>1, <1>2 DEF ResumeScope, Resumed
    <2> QED BY <1>1, <1>2, <2>1, <2>2, Undue DEF ResumeScope, Goto
<1>7. CASE SelectOpen(a)
    <2> DEFINE y == [task[a] EXCEPT !.pc = "resolve",
                        !.mark = IF incident[task[a].scope].status = "open" THEN "approved" ELSE None]
    <2>1. y \in TaskRecord /\ y.pc \in Settled /\ task[a].pc \in Settled
        BY <1>1, <1>7 DEF TaskRecord, SelectOpen, At, Settled
    <2>2. task' = [task EXCEPT ![a] = y] /\ UNCHANGED <<policy, spent, incident, scope, run, unchecked>>
        BY <1>1, <1>7 DEF SelectOpen
    <2> HIDE DEF y
    <2> QED BY <1>1, <2>1, <2>2, Undue
<1>3. CASE ResolveIncidents(a)
    <2> DEFINE y == [task[a] EXCEPT !.pc = "mark"]
    <2>1. y \in TaskRecord /\ y.pc = "mark" /\ task[a].pc = "resolve"
        BY <1>1, <1>3 DEF TaskRecord, ResolveIncidents, At, Settled
    <2>2. /\ incident' \in [Scopes -> Incident]
          /\ \A s \in Scopes : incident[s].status # None => incident'[s].status # None
        BY <1>1, <1>3 DEF ResolveIncidents, Incident, None
    <2> QED BY <1>1, <1>3, <2>1, <2>2, Undue DEF ResolveIncidents, Goto, Settled
<1>4. CASE MarkApproval(a)
    <2>1. task[a].pc = "mark"
        BY <1>4 DEF MarkApproval, At
    <2>2. task[a].mark \in {None, "approved", "rejected"}
        BY <1>1 DEF TaskRecord
    <2>3. /\ incident' \in [Scopes -> Incident]
          /\ \A s \in Scopes : incident'[s].status = incident[s].status
        BY <1>1, <1>4, <2>2 DEF MarkApproval, Incident
    <2> QED BY <1>1, <1>4, <2>1, <2>3, TypeFacts, Undue DEF MarkApproval, Settled
<1>5. ASSUME NEW s \in Scopes, DismissIncident(a, s) PROVE TypeInv' /\ Kept
    <2> DEFINE y == [Idle EXCEPT !.pc = "mark", !.scope = s, !.mark = "rejected"]
    <2>1. y \in TaskRecord /\ y.pc = "mark" /\ task[a].pc = "idle"
        BY <1>5, TypeFacts DEF TaskRecord, DismissIncident, At, Settled
    <2>2. /\ incident' \in [Scopes -> Incident]
          /\ \A z \in Scopes : incident[z].status # None => incident'[z].status # None
        BY <1>1, <1>5 DEF DismissIncident, Incident, None
    <2> QED BY <1>1, <1>5, <2>1, <2>2, Undue DEF DismissIncident, Settled
<1>6. ASSUME NEW s \in Scopes, NEW n \in 0 .. MaxAmount, RaiseBudget(a, s, n)
      PROVE  TypeInv' /\ Kept
    <2> DEFINE rows == [NoRows EXCEPT ![s] = [amount |-> n, active |-> TRUE]]
               y == [Idle EXCEPT !.pc = "raise", !.scope = s, !.mark = "approved", !.rows = rows]
    <2>1. rows \in [Scopes -> Policy]
        BY TypeFacts DEF Policy
    <2> HIDE DEF rows
    <2>2. y \in TaskRecord /\ y.pc = "raise" /\ task[a].pc = "idle"
        BY <1>6, <2>1, TypeFacts DEF TaskRecord, RaiseBudget, At, Settled
    <2> QED BY <1>1, <1>6, <2>2, Undue DEF RaiseBudget, rows, Settled
<1> QED BY <1>2, <1>3, <1>4, <1>5, <1>6, <1>7

(* A task that does not move stays due, and goes on with its sweep.          *)
LEMMA StaysDue ==
    ASSUME TypeInv, TypeOK', spent' >= spent, NEW u \in Tasks, task'[u] = [task[u] EXCEPT !.mark = task'[u].mark],
           NEW s \in Scopes
    PROVE  /\ Due(u, s) => Due(u, s)'
           /\ \A r : Stopping(u, s, r) => Stopping(u, s, r)'
<1>1. task[u] \in TaskRecord /\ task[u].rows \in [Scopes -> Policy]
    BY TaskFacts
<1>2. /\ task'[u].pc = task[u].pc /\ task'[u].todo = task[u].todo /\ task'[u].scope = task[u].scope
      /\ task'[u].rows = task[u].rows /\ task'[u].runs = task[u].runs
    BY <1>1 DEF TaskRecord
<1>3. Exceeded(task[u].rows[s]) => Exceeded(task[u].rows[s])'
    <2>1. spent \in Nat /\ spent' \in Nat /\ task[u].rows[s].amount \in Nat
        BY <1>1, TypeFacts DEF TypeInv, TypeOK, Policy
    <2> QED BY <1>2, <2>1 DEF Exceeded
<1>4. Due(u, s) => Due(u, s)'
    BY <1>2, <1>3 DEF Due, DueBy, Reading, Listed, Recording
<1> QED BY <1>2, <1>4 DEF Stopping, Sweeping

LEMMA CostEventStep ==
    ASSUME TypeInv, NEW e \in Events, CostEvent(e)
    PROVE  TypeInv' /\ Kept
<1> DEFINE y == [task[e] EXCEPT !.pc = "read"]
<1>1. /\ e \in Tasks /\ task[e].pc = "idle" /\ task[e] \in TaskRecord
      /\ spent \in Nat /\ spent' = spent + 1 /\ spent' \in 0 .. MaxSpend
      /\ UNCHANGED <<policy, incident, scope, run, unchecked>>
      /\ task' = [task EXCEPT ![e] = y]
    BY TaskFacts, TypeFacts DEF CostEvent, At, Goto, Tasks, TypeInv, TypeOK
<1>2. y \in TaskRecord /\ y.pc = "read" /\ Scoped(e, y)
    BY <1>1 DEF TaskRecord, Scoped
<1> HIDE DEF y
<1>3. task'[e] = y /\ \A u \in Tasks \ {e} : task'[u] = task[u]
    BY <1>1 DEF TypeInv, TypeOK
<1>4. TypeOK' /\ TypeInv'
    BY <1>1, <1>2, <1>3 DEF TypeInv, TypeOK, Scoped
<1>5. \A s \in Scopes : Due(e, s)' /\ ~Due(e, s) /\ \A r : ~Stopping(e, s, r)
    BY <1>1, <1>2, <1>3 DEF Stopping, Due, DueBy, Reading, Listed, Recording, Sweeping
<1>6. ASSUME NEW u \in Tasks \ {e} PROVE task'[u] = [task[u] EXCEPT !.mark = task'[u].mark]
    BY <1>3, TaskFacts DEF TaskRecord
<1>7. ASSUME NEW s \in Scopes
      PROVE  Crosses(s) /\ KeepsDue(s) /\ StartsNone(s) /\ KeepsSweep(s)
    <2>1. Crosses(s) /\ StartsNone(s)
        BY <1>1, <1>5 DEF Crosses, StartsNone, Live
    <2>2. ASSUME NEW u \in Tasks
          PROVE  /\ Due(u, s) => Due(u, s)'
                 /\ \A r : Stopping(u, s, r) => Stopping(u, s, r)'
        <3>1. CASE u = e
            BY <1>5, <3>1
        <3>2. CASE u # e
            <4>1. spent' >= spent
                BY <1>1
            <4> QED BY <1>4, <1>6, <3>2, <4>1, StaysDue
        <3> QED BY <3>1, <3>2
    <2> QED BY <2>1, <2>2 DEF KeepsDue, KeepsSweep
<1> QED BY <1>1, <1>4, <1>7 DEF Kept

(* Requests of the board and the orchestrator's steps leave the tasks alone. *)
LEMMA SameTasks ==
    ASSUME TypeInv, incident' \in [Scopes -> Incident],
           scope' \in [Scopes -> {"active", "budget", "manual"}], run' \in [Runs -> Run],
           UNCHANGED <<policy, spent, task, unchecked>>,
           \A s \in Scopes : incident'[s].status = incident[s].status,
           \A s \in Scopes : StartsNone(s)
    PROVE  TypeInv' /\ Kept
<1>1. TypeOK' /\ TypeInv'
    BY DEF TypeInv, TypeOK, Scoped
<1>2. ASSUME NEW u \in Tasks PROVE task'[u] = [task[u] EXCEPT !.mark = task'[u].mark]
    BY TaskFacts DEF TaskRecord
<1>3. ASSUME NEW s \in Scopes PROVE Crosses(s) /\ KeepsDue(s) /\ KeepsSweep(s)
    <2>1. Crosses(s)
        BY DEF Crosses, Over, Exceeded
    <2>2. ASSUME NEW u \in Tasks
          PROVE  /\ Due(u, s) => Due(u, s)'
                 /\ \A r : Stopping(u, s, r) => Stopping(u, s, r)'
        <3>1. spent' >= spent
            BY TypeFacts DEF TypeInv, TypeOK
        <3> QED BY <1>1, <1>2, <3>1, StaysDue
    <2> QED BY <2>1, <2>2 DEF KeepsDue, KeepsSweep
<1> QED BY <1>1, <1>3 DEF Kept

LEMMA BoardSteps ==
    ASSUME TypeInv, NEW s \in Scopes, DecideApproval(s) \/ ManualPause(s) \/ ManualResume(s)
    PROVE  TypeInv' /\ Kept
<1>1. /\ incident \in [Scopes -> Incident] /\ run \in [Runs -> Run]
      /\ scope \in [Scopes -> {"active", "budget", "manual"}]
    BY DEF TypeInv, TypeOK
<1>2. CASE DecideApproval(s)
    <2>1. /\ incident' \in [Scopes -> Incident]
          /\ \A z \in Scopes : incident'[z].status = incident[z].status
        BY <1>1, <1>2 DEF DecideApproval, Incident
    <2> QED BY <1>1, <1>2, <2>1, SameTasks DEF DecideApproval, StartsNone, Live
<1>3. CASE ManualPause(s)
    <2>1. scope' \in [Scopes -> {"active", "budget", "manual"}] /\ run' \in [Runs -> Run]
        BY <1>1, <1>3, TypeFacts DEF ManualPause
    <2>2. ASSUME NEW z \in Scopes PROVE StartsNone(z)
        BY <1>3, WorkFacts DEF ManualPause, StartsNone, Live, NoRun, None
    <2> QED BY <1>1, <1>3, <2>1, <2>2, SameTasks DEF ManualPause
<1>4. CASE ManualResume(s)
    <2>1. scope' \in [Scopes -> {"active", "budget", "manual"}]
        BY <1>1, <1>4 DEF ManualResume
    <2> QED BY <1>1, <1>4, <2>1, SameTasks DEF ManualResume, StartsNone, Live
<1> QED BY <1>2, <1>3, <1>4

(* A run that a spent budget covers does not get past its check.             *)
LEMMA WorkSteps ==
    ASSUME TypeInv, NEW r \in Runs, Work(r)
    PROVE  TypeInv' /\ Kept
<1>1. /\ incident \in [Scopes -> Incident] /\ run \in [Runs -> Run]
      /\ scope \in [Scopes -> {"active", "budget", "manual"}]
      /\ UNCHANGED <<policy, spent, incident, scope, task, unchecked>>
    BY DEF TypeInv, TypeOK, Work, Wakeup, Requeue, InsertRun, CheckRun, ClaimRun, RunEnds
<1>2. run' \in [Runs -> Run]
    <2> DEFINE y == [run[r] EXCEPT !.checked = TRUE]
    <2>1. y \in Run
        BY <1>1 DEF Run
    <2>2. \E z \in Run : run' = [run EXCEPT ![r] = z]
        <3>1. CASE Wakeup(r)
            <4>1. run' = [run EXCEPT ![r] = y]
                BY <3>1 DEF Wakeup
            <4> QED BY <2>1, <4>1
        <3>2. CASE InsertRun(r)
            BY <3>2 DEF InsertRun, Run
        <3>3. CASE CheckRun(r)
            <4>1. run' = [run EXCEPT ![r] = IF \E s \in Scopes : r \in ClaimChecked(s) /\ Closed(s)
                                            THEN NoRun ELSE y]
                BY <3>3 DEF CheckRun
            <4> QED BY <2>1, <4>1, TypeFacts
        <3>4. CASE ClaimRun(r)
            BY <3>4 DEF ClaimRun, Run
        <3>5. CASE RunEnds(r)
            BY <3>5, TypeFacts DEF RunEnds
        <3>6. CASE Requeue(r)
            BY <1>1, <3>6 DEF Requeue, Run
        <3> QED BY <3>1, <3>2, <3>3, <3>4, <3>5, <3>6 DEF Work
    <2> QED BY <1>1, <2>2
<1>3. ASSUME NEW s \in Scopes, NEW q \in ClaimChecked(s), Over(s), Live(q)' PROVE Live(q)
    <2>1. q \in Runs
        BY WorkFacts
    <2>2. \E z \in Scopes : q \in ClaimChecked(z) /\ Closed(z)
        BY <1>3 DEF Closed, Over
    <2>3. CASE q # r
        BY <1>1, <1>3, <2>1, <2>3 DEF Live, Work, Wakeup, Requeue, InsertRun, CheckRun, ClaimRun, RunEnds
    <2>4. CASE q = r
        BY <1>1, <1>3, <2>1, <2>2, <2>4
        DEF Live, Work, Wakeup, Requeue, InsertRun, CheckRun, ClaimRun, RunEnds, Run, NoRun, None
    <2> QED BY <2>3, <2>4
<1> QED BY <1>1, <1>2, <1>3, SameTasks DEF StartsNone

LEMMA UpsertPolicyStep ==
    ASSUME TypeInv, NEW a \in Admins, NEW s \in Scopes, NEW p \in Policy, UpsertPolicy(a, s, p)
    PROVE  TypeInv' /\ Kept
<1> DEFINE rows == [NoRows EXCEPT ![s] = p]
           y == [Idle EXCEPT !.pc = "read", !.scope = s, !.rows = rows]
<1>1. rows \in [Scopes -> Policy] /\ rows[s] = p
    BY TypeFacts
<1> HIDE DEF rows
<1>2. y \in TaskRecord /\ y.pc = "read" /\ y.scope = s /\ y.rows = rows
    BY <1>1, TypeFacts DEF TaskRecord, Idle
<1>3. /\ a \in Tasks /\ a \notin Events /\ task[a].pc = "idle"
      /\ policy' = [policy EXCEPT ![s] = p] /\ policy \in [Scopes -> Policy]
      /\ UNCHANGED <<spent, incident, scope, run, unchecked>>
      /\ task' = [task EXCEPT ![a] = y]
    BY BudgetsAssumption DEF UpsertPolicy, At, Tasks, TypeInv, TypeOK, rows
<1> HIDE DEF y
<1>4. task'[a] = y /\ \A u \in Tasks \ {a} : task'[u] = task[u]
    BY <1>3 DEF TypeInv, TypeOK
<1>5. TypeOK' /\ TypeInv'
    BY <1>2, <1>3, <1>4 DEF TypeInv, TypeOK, Scoped
<1>6. ASSUME NEW z \in Scopes
      PROVE  Crosses(z) /\ KeepsDue(z) /\ StartsNone(z) /\ KeepsSweep(z)
    <2>1. Crosses(z)
        <3>1. CASE z = s
            <4>1. Over(s)' => Exceeded(rows[s])'
                BY <1>1, <1>3 DEF Over, Exceeded
            <4>2. Exceeded(rows[s])' => Due(a, s)'
                BY <1>2, <1>4 DEF Due, DueBy, Reading, Exceeded
            <4> QED BY <1>3, <3>1, <4>1, <4>2 DEF Crosses
        <3>2. CASE z # s
            BY <1>3, <3>2 DEF Crosses, Over, Exceeded
        <3> QED BY <3>1, <3>2
    <2>2. StartsNone(z)
        BY <1>3 DEF StartsNone, Live
    <2>3. ASSUME NEW u \in Tasks
          PROVE  /\ Due(u, z) => Due(u, z)'
                 /\ \A r : Stopping(u, z, r) => Stopping(u, z, r)'
        <3>1. CASE u = a
            BY <1>3, <3>1 DEF Stopping, Due, DueBy, Reading, Listed, Recording, Sweeping
        <3>2. CASE u # a
            <4>1. spent' >= spent
                BY <1>3, TypeFacts DEF TypeInv, TypeOK
            <4>2. task'[u] = [task[u] EXCEPT !.mark = task'[u].mark]
                BY <1>4, <3>2, TaskFacts DEF TaskRecord
            <4> QED BY <1>5, <4>1, <4>2, StaysDue
        <3> QED BY <3>1, <3>2
    <2> QED BY <2>1, <2>2, <2>3 DEF KeepsDue, KeepsSweep
<1> QED BY <1>3, <1>5, <1>6 DEF Kept

LEMMA WriteRaiseStep ==
    ASSUME TypeInv, NEW a \in Admins, WriteRaise(a)
    PROVE  TypeInv' /\ Kept
<1> DEFINE s == task[a].scope
           y == [task[a] EXCEPT !.pc = "resume", !.rows = NoRows]
<1>1. /\ a \in Tasks /\ task[a].pc = "raise" /\ task[a] \in TaskRecord
      /\ policy \in [Scopes -> Policy] /\ policy' = [policy EXCEPT ![s] = task[a].rows[s]]
      /\ unchecked' = (unchecked \/ Exceeded(task[a].rows[s]))
      /\ UNCHANGED <<spent, incident, scope, run>>
      /\ task' = [task EXCEPT ![a] = y]
    BY TaskFacts DEF WriteRaise, At, Tasks, TypeInv, TypeOK
<1>2. y \in TaskRecord /\ y.pc = "resume" /\ policy' \in [Scopes -> Policy]
    <2>1. y \in TaskRecord /\ y.pc = "resume"
        BY <1>1, TypeFacts DEF TaskRecord
    <2>2. s \in Scopes => task[a].rows[s] \in Policy
        BY <1>1, TaskFacts
    <2> QED BY <1>1, <2>1, <2>2
<1> HIDE DEF y
<1>3. task'[a] = y /\ \A u \in Tasks \ {a} : task'[u] = task[u]
    BY <1>1 DEF TypeInv, TypeOK
<1>4. Exceeded(task[a].rows[s]) \in BOOLEAN /\ unchecked' \in BOOLEAN
    BY <1>1 DEF Exceeded
<1>5. TypeOK' /\ TypeInv'
    BY <1>1, <1>2, <1>3, <1>4 DEF TypeInv, TypeOK, Scoped
<1>6. ASSUME NEW z \in Scopes, ~Exceeded(task[a].rows[s])
      PROVE  Crosses(z) /\ KeepsDue(z) /\ StartsNone(z) /\ KeepsSweep(z)
    <2>1. Crosses(z)
        BY <1>1, <1>6 DEF Crosses, Over, Exceeded
    <2>2. StartsNone(z)
        BY <1>1 DEF StartsNone, Live
    <2>3. ASSUME NEW u \in Tasks
          PROVE  /\ Due(u, z) => Due(u, z)'
                 /\ \A r : Stopping(u, z, r) => Stopping(u, z, r)'
        <3>1. CASE u = a
            BY <1>1, <3>1 DEF Stopping, Due, DueBy, Reading, Listed, Recording, Sweeping
        <3>2. CASE u # a
            <4>1. spent' >= spent
                BY <1>1, TypeFacts DEF TypeInv, TypeOK
            <4>2. task'[u] = [task[u] EXCEPT !.mark = task'[u].mark]
                BY <1>3, <3>2, TaskFacts DEF TaskRecord
            <4> QED BY <1>5, <4>1, <4>2, StaysDue
        <3> QED BY <3>1, <3>2
    <2> QED BY <2>1, <2>2, <2>3 DEF KeepsDue, KeepsSweep
<1> QED BY <1>1, <1>5, <1>6 DEF Kept

(* The tasks other than t keep all but their mark.                           *)
LEMMA InsertIncidentStep ==
    ASSUME TypeInv, NEW t \in Tasks, InsertIncident(t)
    PROVE  TypeInv' /\ Kept
<1> DEFINE s == task[t].scope
<1>1. /\ task[t].pc = "insert" /\ task[t] \in TaskRecord /\ s \in Scopes
      /\ incident \in [Scopes -> Incident]
      /\ UNCHANGED <<policy, spent, scope, run>>
    BY TaskFacts DEF InsertIncident, At, TypeInv, TypeOK, Scoped
<1>2. CASE incident[s].status \in {"open", "resolved"}
    <2>1. task' = [task EXCEPT ![t] = Idle] /\ unchecked' = TRUE /\ UNCHANGED incident
        BY <1>2 DEF InsertIncident
    <2>2. TypeOK' /\ TypeInv'
        BY <1>1, <2>1, TypeFacts DEF TypeInv, TypeOK, Scoped
    <2> QED BY <2>1, <2>2 DEF Kept
<1>3. CASE incident[s].status \notin {"open", "resolved"}
    <2>1. /\ incident' = [incident EXCEPT ![s] = [status |-> "open", approval |-> "pending"]]
          /\ task' = [u \in Tasks |->
                IF u = t THEN [task[u] EXCEPT !.pc = "pause"]
                ELSE IF task[u].scope = s THEN [task[u] EXCEPT !.mark = None] ELSE task[u]]
          /\ unchecked' = unchecked
        BY <1>3 DEF InsertIncident
    <2>2. /\ incident' \in [Scopes -> Incident] /\ incident'[s].status # None
          /\ \A z \in Scopes : incident[z].status # None => incident'[z].status # None
        BY <1>1, <2>1 DEF Incident, None
    <2>3. /\ task'[t] \in TaskRecord /\ task'[t].pc = "pause" /\ task'[t].scope = s
          /\ task'[t].todo = task[t].todo /\ task'[t].rows = task[t].rows
        BY <1>1, <2>1 DEF TaskRecord
    <2>4. ASSUME NEW u \in Tasks \ {t}
          PROVE  /\ task'[u] \in TaskRecord /\ Scoped(u, task'[u])
                 /\ task'[u] = [task[u] EXCEPT !.mark = task'[u].mark]
        <3>1. task[u] \in TaskRecord /\ Scoped(u, task[u])
            BY TaskFacts
        <3>2. task'[u] = task[u] \/ task'[u] = [task[u] EXCEPT !.mark = None]
            BY <2>1
        <3> QED BY <3>1, <3>2 DEF TaskRecord, Scoped
    <2>5. task' \in [Tasks -> TaskRecord]
        <3>1. \A u \in Tasks : task'[u] \in TaskRecord
            BY <2>3, <2>4
        <3> QED BY <2>1, <3>1
    <2>6. TypeOK' /\ TypeInv'
        <3>1. TypeOK'
            BY <1>1, <2>1, <2>2, <2>5 DEF TypeInv, TypeOK
        <3>2. \A u \in Tasks : Scoped(u, task'[u])
            BY <1>1, <2>3, <2>4 DEF Scoped
        <3> QED BY <3>1, <3>2 DEF TypeInv, Scoped
    <2>7. ASSUME NEW z \in Scopes
          PROVE  Crosses(z) /\ KeepsDue(z) /\ StartsNone(z) /\ KeepsSweep(z)
        <3>1. Crosses(z) /\ StartsNone(z)
            BY <1>1 DEF Crosses, StartsNone, Over, Exceeded, Live
        <3>2. ASSUME NEW u \in Tasks \ {t}
              PROVE  /\ Due(u, z) => Due(u, z)'
                     /\ \A r : Stopping(u, z, r) => Stopping(u, z, r)'
            <4>1. spent' >= spent
                BY <1>1, TypeFacts DEF TypeInv, TypeOK
            <4> QED BY <2>4, <2>6, <4>1, StaysDue
        <3>3. /\ Due(t, z) => Due(t, z)' \/ z = s
              /\ \A r : Stopping(t, z, r) => Stopping(t, z, r)'
            BY <1>1, <2>3 DEF Stopping, Due, DueBy, Reading, Listed, Recording, Sweeping, Exceeded
        <3> QED BY <2>2, <3>1, <3>2, <3>3 DEF KeepsDue, KeepsSweep
    <2> QED BY <2>1, <2>2, <2>6, <2>7 DEF Kept
<1> QED BY <1>2, <1>3

LEMMA CancelWorkStep ==
    ASSUME TypeInv, NEW t \in Tasks, CancelWork(t)
    PROVE  TypeInv' /\ Kept
<1>1. /\ task[t].pc = "cancel" /\ task[t] \in TaskRecord
      /\ UNCHANGED <<policy, spent, incident, scope, unchecked>>
    BY TaskFacts DEF CancelWork, At
<1>2. CASE task[t].runs = {}
    <2> DEFINE y == [task[t] EXCEPT !.pc = "check", !.scope = None]
    <2>1. task' = [task EXCEPT ![t] = y] /\ run' = run
        BY <1>2, <1>1 DEF CancelWork, TypeInv, TypeOK
    <2>2. /\ y \in TaskRecord /\ y.pc = "check" /\ y.todo = task[t].todo
          /\ y.rows = task[t].rows /\ Scoped(t, y)
        BY <1>1 DEF TaskRecord, Scoped
    <2> HIDE DEF y
    <2>3. \A s \in Scopes : DueBy(t, task[t], s) => DueBy(t, y, s)
        BY <1>1, <2>2 DEF DueBy, Reading, Listed, Recording
    <2>4. \A s \in Scopes : \A r : Stopping(t, s, r) => DueBy(t, y, s)
        BY <1>1, <1>2, <2>3 DEF Stopping, Due, Sweeping
    <2> QED BY <1>1, <2>1, <2>2, <2>3, <2>4, Move DEF TypeInv, TypeOK
<1>3. ASSUME NEW r \in task[t].runs, run' = [run EXCEPT ![r] = NoRun],
             task' = [task EXCEPT ![t].runs = @ \ {r}]
      PROVE  TypeInv' /\ Kept
    <2> DEFINE y == [task[t] EXCEPT !.runs = @ \ {r}]
    <2>1. task' = [task EXCEPT ![t] = y] /\ r \in Runs
        BY <1>3, TaskFacts DEF TypeInv, TypeOK
    <2>2. /\ y \in TaskRecord /\ y.pc = "cancel" /\ y.todo = task[t].todo
          /\ y.rows = task[t].rows /\ Scoped(t, y) /\ y.runs = task[t].runs \ {r}
        BY <1>1 DEF TaskRecord, Scoped
    <2> HIDE DEF y
    <2>3. task'[t] = y /\ \A u \in Tasks \ {t} : task'[u] = task[u]
        BY <2>1 DEF TypeInv, TypeOK
    <2>4. /\ run' \in [Runs -> Run] /\ \A q \in Runs : Live(q)' => Live(q) /\ q # r
        BY <1>3, <2>1, TypeFacts DEF TypeInv, TypeOK, Live, NoRun, None
    <2>5. TypeOK' /\ TypeInv'
        BY <1>1, <2>1, <2>2, <2>3, <2>4 DEF TypeInv, TypeOK, Scoped
    <2>6. ASSUME NEW z \in Scopes
          PROVE  Crosses(z) /\ KeepsDue(z) /\ StartsNone(z) /\ KeepsSweep(z)
        <3>1. ClaimChecked(z) \subseteq Runs
            BY WorkFacts
        <3>2. Crosses(z) /\ StartsNone(z)
            BY <1>1, <2>4, <3>1 DEF Crosses, StartsNone, Over, Exceeded
        <3>3. ASSUME NEW u \in Tasks \ {t}
              PROVE  /\ Due(u, z) => Due(u, z)'
                     /\ \A q : Stopping(u, z, q) => Stopping(u, z, q)'
            <4>1. spent' >= spent
                BY <1>1, TypeFacts DEF TypeInv, TypeOK
            <4>2. task'[u] = [task[u] EXCEPT !.mark = task'[u].mark]
                BY <2>3, TaskFacts DEF TaskRecord
            <4> QED BY <2>5, <4>1, <4>2, StaysDue
        <3>4. /\ Due(t, z) => Due(t, z)'
              /\ \A q : Stopping(t, z, q) /\ q # r => Stopping(t, z, q)'
            BY <1>1, <2>2, <2>3
            DEF Stopping, Due, DueBy, Reading, Listed, Recording, Sweeping, Exceeded
        <3>5. KeepsDue(z)
            BY <3>3, <3>4 DEF KeepsDue
        <3>6. KeepsSweep(z)
            BY <2>4, <3>1, <3>3, <3>4 DEF KeepsSweep
        <3> QED BY <3>2, <3>5, <3>6
    <2> QED BY <1>1, <2>5, <2>6 DEF Kept
<1> QED BY <1>2, <1>3 DEF CancelWork

-----------------------------------------------------------------------------
LEMMA InitInv == Init => Inv
<1> SUFFICES ASSUME Init PROVE Inv
    OBVIOUS
<1>1. TypeOK
    <2>1. [amount |-> 1, active |-> TRUE] \in Policy /\ 0 \in 0 .. MaxSpend
        BY BudgetsAssumption DEF Policy
    <2>2. [status |-> None, approval |-> None] \in Incident
        BY DEF Incident
    <2> QED BY <2>1, <2>2, TypeFacts DEF Init, TypeOK
<1>2. \A t \in Tasks : Scoped(t, task[t])
    BY TypeFacts DEF Init, Scoped
<1>3. \A s \in Scopes : ~Over(s)
    BY DEF Init, Over, Exceeded
<1> QED BY <1>1, <1>2, <1>3 DEF Inv, TypeInv, Recorded, Stopped

LEMMA NextInv == Inv /\ [Next]_vars => Inv'
<1> SUFFICES ASSUME Inv, [Next]_vars PROVE Inv'
    OBVIOUS
<1>1. TypeInv
    BY DEF Inv
<1>2. ASSUME NEW e \in Events, CostEvent(e) \/ ReadPolicies(e) PROVE TypeInv' /\ Kept
    BY <1>1, <1>2, CostEventStep, ReadPoliciesStep
<1>3. ASSUME NEW t \in Tasks, Stop(t) PROVE TypeInv' /\ Kept
    BY <1>1, <1>3, EvaluateStep, LookForIncidentStep, InsertIncidentStep, PauseScopeStep,
       SelectWorkStep, CancelWorkStep DEF Stop
<1>4. ASSUME NEW a \in Admins, Request(a) PROVE TypeInv' /\ Kept
    <2>1. \A n \in 0 .. MaxAmount : \A b \in BOOLEAN :
              [amount |-> n, active |-> b /\ n > 0] \in Policy
        BY DEF Policy
    <2> QED BY <1>1, <1>4, <2>1, ObserveStep, WriteRaiseStep, RequestSteps, UpsertPolicyStep,
               BudgetsAssumption DEF Request
<1>5. ASSUME NEW s \in Scopes, DecideApproval(s) \/ ManualPause(s) \/ ManualResume(s)
      PROVE  TypeInv' /\ Kept
    BY <1>1, <1>5, BoardSteps
<1>6. ASSUME NEW r \in Runs, Work(r) PROVE TypeInv' /\ Kept
    BY <1>1, <1>6, WorkSteps
<1>7. ASSUME UNCHANGED vars PROVE TypeInv' /\ Kept
    <2>1. /\ incident \in [Scopes -> Incident] /\ run \in [Runs -> Run]
          /\ scope \in [Scopes -> {"active", "budget", "manual"}]
        BY <1>1 DEF TypeInv, TypeOK
    <2>2. UNCHANGED <<policy, spent, incident, scope, run, task, unchecked>>
        BY <1>7 DEF vars
    <2>3. \A s \in Scopes : StartsNone(s)
        BY <2>2 DEF StartsNone, Live
    <2> QED BY <1>1, <2>1, <2>2, <2>3, SameTasks
<1>8. TypeInv' /\ Kept
    <2>1. CASE Next
        BY <1>2, <1>3, <1>4, <1>5, <1>6, <2>1, BudgetsAssumption DEF Next
    <2> QED BY <1>7, <2>1
<1> QED BY <1>8, KeptInv DEF Inv

LEMMA Invariance == Spec => []Inv
<1> QED BY InitInv, NextInv, PTL DEF Spec

(* Every value has its type.                                                 *)
THEOREM TypeCorrect == Spec => []TypeOK
<1>1. Inv => TypeOK
    BY DEF Inv, TypeInv
<1> QED BY <1>1, Invariance, PTL

(* createIncidentIfNeeded: once nothing is in progress, a spent budget has   *)
(* an incident, unless an evaluation has thrown or a raise was overtaken.    *)
THEOREM CrossingsAreRecorded == Spec => []CrossingRecorded
<1>1. Inv => CrossingRecorded
    BY DEF Inv, Recorded, CrossingRecorded, Quiet, Due, DueBy, Reading, Listed, Recording
<1> QED BY <1>1, Invariance, PTL

(* cancelBudgetScopeWork against enqueueWakeup and claimQueuedRun: once      *)
(* nothing is in progress, no run whose claim checks a scope works for it    *)
(* after its budget is spent: not for an agent or the company, nor for a      *)
(* project that the run's context names.                                     *)
THEOREM WorkIsFunded == Spec => []FundedWork
<1>1. Inv => FundedWork
    BY DEF Inv, Stopped, FundedWork, Quiet, Live, Stopping, Sweeping, Due, DueBy, Reading,
           Listed, Recording
<1> QED BY <1>1, Invariance, PTL

(* pauseScopeForBudget and resumeScopeFromBudget leave a manual pause of an  *)
(* agent alone.                                                              *)
THEOREM ManualPausesStay == Spec => ManualPauseKept
<1> DEFINE Stays == \A s \in AgentScopes :
        scope[s] = "manual" /\ scope'[s] # "manual" => ManualResume(s)
<1>1. ASSUME TypeOK, [Next]_vars PROVE [Stays]_vars
    <2> SUFFICES ASSUME NEW s \in AgentScopes, scope[s] = "manual", scope'[s] # "manual"
                 PROVE  ManualResume(s)
        OBVIOUS
    <2>1. scope \in [Scopes -> {"active", "budget", "manual"}] /\ s \in Scopes
        BY <1>1 DEF TypeOK, Scopes
    <2>2. ASSUME NEW t \in Tasks, PauseScope(t) PROVE FALSE
        BY <2>1, <2>2 DEF PauseScope, Paused
    <2>3. ASSUME NEW t \in Tasks, ResumeScope(t) PROVE FALSE
        BY <2>1, <2>3 DEF ResumeScope, Resumed
    <2>4. ASSUME NEW z \in Scopes, ManualPause(z) PROVE FALSE
        BY <2>1, <2>4 DEF ManualPause
    <2>5. ASSUME NEW z \in Scopes, ManualResume(z) PROVE ManualResume(s)
        BY <2>1, <2>5 DEF ManualResume
    <2>6. Admins \subseteq Tasks
        BY DEF Tasks
    <2>7. ASSUME NEW t \in Tasks, Stop(t) PROVE FALSE
        BY <2>2, <2>7 DEF Stop, Evaluate, LookForIncident, InsertIncident, SelectWork, CancelWork
    <2>8. ASSUME NEW a \in Admins, Request(a) PROVE FALSE
        BY <2>3, <2>6, <2>8 DEF Request, Observe, WriteRaise, SelectOpen, ResolveIncidents,
           MarkApproval, DismissIncident, RaiseBudget, UpsertPolicy
    <2>9. ASSUME NEW r \in Runs, Work(r) PROVE FALSE
        BY <2>9 DEF Work, Wakeup, Requeue, InsertRun, CheckRun, ClaimRun, RunEnds
    <2>10. ASSUME NEW e \in Events, CostEvent(e) \/ ReadPolicies(e) PROVE FALSE
        BY <2>10 DEF CostEvent, ReadPolicies
    <2>11. ASSUME NEW z \in Addressed, DecideApproval(z) PROVE FALSE
        BY <2>11 DEF DecideApproval
    <2> QED BY <1>1, <2>4, <2>5, <2>7, <2>8, <2>9, <2>10, <2>11 DEF Next, vars
<1> QED BY <1>1, TypeCorrect, PTL DEF Spec, ManualPauseKept

=============================================================================
