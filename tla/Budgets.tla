------------------------------ MODULE Budgets ------------------------------
(***************************************************************************)
(* Budget policies, hard-stop incidents with their approvals, and the       *)
(* pausing of scopes: server/src/services/budgets.ts, with the cost events  *)
(* of costs.ts, the override approvals, and cancelBudgetScopeWork and the   *)
(* invocation checks of heartbeat.ts.                                       *)
(*                                                                          *)
(* A step is what runs up to an await, with the statement awaited; a series *)
(* of reads is one step, and so is an approval with its incident.  One      *)
(* budget window, one policy per scope, hard stops enabled.                 *)
(***************************************************************************)
EXTENDS Naturals, FiniteSets

CONSTANTS
    AgentScopes,  \* agents with a policy
    CompanyScopes, ProjectScopes,  \* the company, and the projects with a policy
    Runs,         \* bound: runs at a time
    IssueRuns,    \* runs whose context names their issue and not its project
    WorkOf,       \* the runs each scope covers
    Events,       \* bound: cost events evaluated at a time
    Admins,       \* bound: budget requests at a time
    Addressed,    \* bound: the scopes they are about
    MaxAmount,    \* bound: the largest budget
    MaxSpend      \* bound: what is spent in the window

Scopes == AgentScopes \cup CompanyScopes \cup ProjectScopes
Tasks  == Events \cup Admins

ASSUME BudgetsAssumption ==
    /\ AgentScopes \cap (CompanyScopes \cup ProjectScopes) = {}
    /\ CompanyScopes \cap ProjectScopes = {} /\ Events \cap Admins = {}
    /\ WorkOf \in [Scopes -> SUBSET Runs] /\ IssueRuns \subseteq Runs
    /\ Addressed \subseteq Scopes
    /\ MaxAmount \in Nat \ {0} /\ MaxSpend \in Nat

VARIABLES
    policy,    \* budget_policies, by scope
    spent,     \* the cost_events of the window, which every scope here shares
    incident,  \* the hard incident of the window, and its approval
    scope,     \* whether the scope is paused, and by whom
    run,       \* heartbeat_runs
    task,      \* the evaluations and requests in progress
    unchecked  \* whether an evaluation has thrown, or a raise set a spent budget

vars == <<policy, spent, incident, scope, run, task, unchecked>>

None == "none"

Policy   == [amount : 0 .. MaxAmount, active : BOOLEAN]
NoPolicy == [amount |-> 0, active |-> FALSE]
Incident == [status : {None, "open", "resolved", "dismissed"},
             approval : {None, "pending", "approved", "rejected"}]
(* checked: the invocation check of a wakeup or a claim has passed.          *)
Run      == [status : {None, "queued", "running"}, checked : BOOLEAN]
NoRun    == [status |-> None, checked |-> FALSE]

(* todo: scopes left to evaluate; rows: the policies as they were read;      *)
(* mark: the decision to write to the approval of the incident; runs: those  *)
(* the sweep has selected.                                                   *)
TaskRecord == [pc : {"idle", "read", "check", "incident", "insert", "pause", "select", "cancel",
                     "raise", "resume", "lift", "open", "resolve", "mark"},
               todo : SUBSET Scopes, scope : Scopes \cup {None}, rows : [Scopes -> Policy],
               mark : {None, "approved", "rejected"}, runs : SUBSET Runs]
NoRows == [s \in Scopes |-> NoPolicy]
Idle   == [pc |-> "idle", todo |-> {}, scope |-> None, rows |-> NoRows, mark |-> None,
           runs |-> {}]

TypeOK ==
    /\ policy \in [Scopes -> Policy]
    /\ spent \in 0 .. MaxSpend
    /\ incident \in [Scopes -> Incident]
    /\ scope \in [Scopes -> {"active", "budget", "manual"}]
    /\ run \in [Runs -> Run]
    /\ task \in [Tasks -> TaskRecord]
    /\ unchecked \in BOOLEAN

Init ==
    /\ policy = [s \in Scopes |-> [amount |-> 1, active |-> TRUE]]
    /\ spent = 0
    /\ incident = [s \in Scopes |-> [status |-> None, approval |-> None]]
    /\ scope = [s \in Scopes |-> "active"]
    /\ run = [r \in Runs |-> NoRun]
    /\ task = [t \in Tasks |-> Idle]
    /\ unchecked = FALSE

At(t, pc)   == task[t].pc = pc
Goto(t, pc) == task' = [task EXCEPT ![t].pc = pc]
Exceeded(p) == p.amount > 0 /\ spent >= p.amount

-----------------------------------------------------------------------------
(* createEvent inserts the cost; evaluateCostEvent reads the active policies *)
(* and takes them one after the other.                                       *)
CostEvent(e) ==
    /\ At(e, "idle") /\ spent < MaxSpend
    /\ spent' = spent + 1
    /\ Goto(e, "read")
    /\ UNCHANGED <<policy, incident, scope, run, unchecked>>

Unpaused == {s \in Scopes : policy[s].active /\ scope[s] = "active"}
Relevant == {s \in Scopes : policy[s].active}

ReadPolicies(e) ==
    /\ At(e, "read")
    /\ task' = [task EXCEPT ![e] = [Idle EXCEPT !.pc = "check", !.rows = policy,
                                        !.todo = Relevant]]
    /\ UNCHANGED <<policy, spent, incident, scope, run, unchecked>>

Evaluate(t) ==
    /\ At(t, "check")
    /\ \/ /\ task[t].todo = {}
          /\ task' = [task EXCEPT ![t] = Idle]
       \/ \E s \in task[t].todo :
             task' = [task EXCEPT ![t].todo = @ \ {s}, ![t].rows[s] = NoPolicy,
                         ![t].scope = IF Exceeded(task[t].rows[s]) THEN s ELSE None,
                         ![t].pc = IF Exceeded(task[t].rows[s]) THEN "incident" ELSE @]
    /\ UNCHANGED <<policy, spent, incident, scope, run, unchecked>>

(* createIncidentIfNeeded: a resolved incident of the window counts as one.  *)
LookForIncident(t) ==
    LET found == incident[task[t].scope].status \in {"open", "resolved"} IN
    /\ At(t, "incident")
    /\ Goto(t, IF found THEN "pause" ELSE "insert")
    /\ UNCHANGED <<policy, spent, incident, scope, run, unchecked>>

(* The unique index refuses a second incident: the evaluation or the request *)
(* throws.  A decision on its way to the approval of a dismissed incident no *)
(* longer concerns the incident of the scope.                                *)
InsertIncident(t) ==
    LET s == task[t].scope IN
    /\ At(t, "insert")
    /\ IF incident[s].status \in {"open", "resolved"}
       THEN /\ task' = [task EXCEPT ![t] = Idle]
            /\ unchecked' = TRUE /\ UNCHANGED incident
       ELSE /\ incident' = [incident EXCEPT ![s] = [status |-> "open", approval |-> "pending"]]
            /\ task' = [u \in Tasks |->
                  IF u = t THEN [task[u] EXCEPT !.pc = "pause"]
                  ELSE IF task[u].scope = s THEN [task[u] EXCEPT !.mark = None] ELSE task[u]]
            /\ UNCHANGED unchecked
    /\ UNCHANGED <<policy, spent, scope, run>>

(* pauseScopeForBudget: an agent only if it is not paused already.           *)
PausedAnyway(s) == "budget"
Paused(s) == IF s \in AgentScopes /\ scope[s] = "manual" THEN scope[s] ELSE "budget"

PauseScope(t) ==
    LET s == task[t].scope IN
    /\ At(t, "pause")
    /\ scope' = [scope EXCEPT ![s] = Paused(s)]
    /\ Goto(t, "select")
    /\ UNCHANGED <<policy, spent, incident, run, unchecked>>

(* cancelBudgetScopeWork: select the runs, then cancel them one by one.      *)
RunningOnly(s) == {r \in WorkOf[s] : run[r].status = "running"}
Unfinished(s)  == {r \in WorkOf[s] : run[r].status # None}

SelectWork(t) ==
    /\ At(t, "select")
    /\ task' = [task EXCEPT ![t].pc = "cancel", ![t].runs = Unfinished(task[t].scope)]
    /\ UNCHANGED <<policy, spent, incident, scope, run, unchecked>>

CancelWork(t) ==
    /\ At(t, "cancel")
    /\ IF task[t].runs = {}
       THEN task' = [task EXCEPT ![t].pc = "check", ![t].scope = None] /\ UNCHANGED run
       ELSE \E r \in task[t].runs :
              /\ run' = [run EXCEPT ![r] = NoRun]
              /\ task' = [task EXCEPT ![t].runs = @ \ {r}]
    /\ UNCHANGED <<policy, spent, incident, scope, unchecked>>

-----------------------------------------------------------------------------
(* upsertPolicy: write the row; then, with what is spent now, free the scope *)
(* or stop it.  The row's is_active does not matter here.                    *)
UpsertPolicy(a, s, p) ==
    /\ At(a, "idle")
    /\ policy' = [policy EXCEPT ![s] = p]
    /\ task' = [task EXCEPT ![a] = [Idle EXCEPT !.pc = "read", !.scope = s,
                                        !.rows = [NoRows EXCEPT ![s] = p]]]
    /\ UNCHANGED <<spent, incident, scope, run, unchecked>>

Observe(a) ==
    /\ At(a, "read")
    /\ task' = [task EXCEPT ![a].rows = NoRows,
                   ![a].pc = IF Exceeded(task[a].rows[task[a].scope]) THEN "incident" ELSE "lift"]
    /\ UNCHANGED <<policy, spent, incident, scope, run, unchecked>>

(* resumeScopeFromBudget, in either request.                                 *)
Resumed(s) == IF scope[s] = "budget" THEN "active" ELSE scope[s]

ResumeScope(a) ==
    LET s == task[a].scope IN
    /\ At(a, "lift") \/ At(a, "resume")
    /\ scope' = [scope EXCEPT ![s] = Resumed(s)]
    /\ Goto(a, IF At(a, "lift") THEN "open" ELSE "resolve")
    /\ UNCHANGED <<policy, spent, incident, run, unchecked>>

(* resolveOpenIncidentsForPolicy selects the open incident, for its approval, *)
(* and resolves what is open then.                                           *)
SelectOpen(a) ==
    /\ At(a, "open")
    /\ task' = [task EXCEPT ![a].pc = "resolve",
                   ![a].mark = IF incident[task[a].scope].status = "open" THEN "approved" ELSE None]
    /\ UNCHANGED <<policy, spent, incident, scope, run, unchecked>>

ResolveIncidents(a) ==
    LET s == task[a].scope IN
    /\ At(a, "resolve")
    /\ IF incident[s].status = "open"
       THEN incident' = [incident EXCEPT ![s].status = "resolved"]
       ELSE UNCHANGED incident
    /\ Goto(a, "mark")
    /\ UNCHANGED <<policy, spent, scope, run, unchecked>>

MarkApproval(a) ==
    LET s == task[a].scope IN
    /\ At(a, "mark")
    /\ IF task[a].mark # None /\ incident[s].status # None
       THEN incident' = [incident EXCEPT ![s].approval = task[a].mark]
       ELSE UNCHANGED incident
    /\ task' = [task EXCEPT ![a] = Idle]
    /\ UNCHANGED <<policy, spent, scope, run, unchecked>>

(* resolveIncident, on an incident in whatever status it is: raise the       *)
(* budget above what is spent at the time it looks, or dismiss it.           *)
RaiseBudget(a, s, amount) ==
    /\ At(a, "idle") /\ incident[s].status # None /\ amount > spent
    /\ task' = [task EXCEPT ![a] = [Idle EXCEPT !.pc = "raise", !.scope = s, !.mark = "approved",
                       !.rows = [NoRows EXCEPT ![s] = [amount |-> amount, active |-> TRUE]]]]
    /\ UNCHANGED <<policy, spent, incident, scope, run, unchecked>>

WriteRaise(a) ==
    LET s == task[a].scope IN
    /\ At(a, "raise")
    /\ policy' = [policy EXCEPT ![s] = task[a].rows[s]]
    /\ unchecked' = (unchecked \/ Exceeded(task[a].rows[s]))
    /\ task' = [task EXCEPT ![a].pc = "resume", ![a].rows = NoRows]
    /\ UNCHANGED <<spent, incident, scope, run>>

DismissIncident(a, s) ==
    /\ At(a, "idle") /\ incident[s].status # None
    /\ incident' = [incident EXCEPT ![s].status = "dismissed"]
    /\ task' = [task EXCEPT ![a] = [Idle EXCEPT !.pc = "mark", !.scope = s, !.mark = "rejected"]]
    /\ UNCHANGED <<policy, spent, scope, run, unchecked>>

(* The approvals route decides the approval alone.                           *)
DecideApproval(s) ==
    /\ incident[s].approval = "pending"
    /\ \E d \in {"approved", "rejected"} :
           incident' = [incident EXCEPT ![s].approval = d]
    /\ UNCHANGED <<policy, spent, scope, run, task, unchecked>>

(* The board pauses or resumes an agent or the company, never a project; the *)
(* pause of an agent ends its runs.                                          *)
ManualPause(s) ==
    /\ s \notin ProjectScopes /\ scope[s] # "manual"
    /\ scope' = [scope EXCEPT ![s] = "manual"]
    /\ run' = [r \in Runs |-> IF s \in AgentScopes /\ r \in WorkOf[s] THEN NoRun ELSE run[r]]
    /\ UNCHANGED <<policy, spent, incident, task, unchecked>>

ManualResume(s) ==
    /\ s \notin ProjectScopes /\ scope[s] # "active"
    /\ scope' = [scope EXCEPT ![s] = "active"]
    /\ UNCHANGED <<policy, spent, incident, run, task, unchecked>>

-----------------------------------------------------------------------------
(* getInvocationBlock and the agent's own status: what keeps work out.        *)
Closed(s) == scope[s] # "active" \/ (policy[s].active /\ Exceeded(policy[s]))

(* The runs of a scope whose claim checks it: claimQueuedRun passes on only    *)
(* the project that the run's context names.                                 *)
ClaimChecked(s) == IF s \in ProjectScopes THEN WorkOf[s] \ IssueRuns ELSE WorkOf[s]

(* enqueueWakeup looks the project of an issue up, checks, then inserts; a     *)
(* retry or a promotion inserts without a check; claimQueuedRun checks, and    *)
(* cancels or claims the run if it is still queued.                           *)
Wakeup(r) ==
    /\ run[r] = NoRun /\ \A s \in Scopes : r \in WorkOf[s] => ~Closed(s)
    /\ run' = [run EXCEPT ![r].checked = TRUE]
    /\ UNCHANGED <<policy, spent, incident, scope, task, unchecked>>

Requeue(r) ==
    /\ run[r] = NoRun
    /\ run' = [run EXCEPT ![r].status = "queued"]
    /\ UNCHANGED <<policy, spent, incident, scope, task, unchecked>>

InsertRun(r) ==
    /\ run[r].status = None /\ run[r].checked
    /\ run' = [run EXCEPT ![r] = [status |-> "queued", checked |-> FALSE]]
    /\ UNCHANGED <<policy, spent, incident, scope, task, unchecked>>

CheckRun(r) ==
    /\ run[r].status = "queued" /\ ~run[r].checked
    /\ run' = [run EXCEPT ![r] = IF \E s \in Scopes : r \in ClaimChecked(s) /\ Closed(s)
                                THEN NoRun ELSE [@ EXCEPT !.checked = TRUE]]
    /\ UNCHANGED <<policy, spent, incident, scope, task, unchecked>>

ClaimRun(r) ==
    /\ run[r].status = "queued" /\ run[r].checked
    /\ run' = [run EXCEPT ![r] = [status |-> "running", checked |-> FALSE]]
    /\ UNCHANGED <<policy, spent, incident, scope, task, unchecked>>

RunEnds(r) ==
    /\ run[r].status = "running"
    /\ run' = [run EXCEPT ![r] = NoRun]
    /\ UNCHANGED <<policy, spent, incident, scope, task, unchecked>>

-----------------------------------------------------------------------------
Stop(t) ==
    \/ Evaluate(t) \/ LookForIncident(t) \/ InsertIncident(t)
    \/ PauseScope(t) \/ SelectWork(t) \/ CancelWork(t)

Request(a) ==
    \/ Observe(a) \/ WriteRaise(a) \/ ResumeScope(a) \/ SelectOpen(a) \/ ResolveIncidents(a)
    \/ MarkApproval(a)
    \/ \E s \in Addressed :
          \/ DismissIncident(a, s)
          \/ \E n \in 0 .. MaxAmount :
                \/ RaiseBudget(a, s, n)
                \/ \E b \in BOOLEAN : UpsertPolicy(a, s, [amount |-> n, active |-> b /\ n > 0])

Work(r) == Wakeup(r) \/ Requeue(r) \/ InsertRun(r) \/ CheckRun(r) \/ ClaimRun(r) \/ RunEnds(r)

Next ==
    \/ \E e \in Events : CostEvent(e) \/ ReadPolicies(e)
    \/ \E t \in Tasks : Stop(t)
    \/ \E a \in Admins : Request(a)
    \/ \E s \in Addressed : DecideApproval(s)
    \/ \E s \in Scopes : ManualPause(s) \/ ManualResume(s)
    \/ \E r \in Runs : Work(r)

Spec == Init /\ [][Next]_vars

-----------------------------------------------------------------------------
Quiet == \A t \in Tasks : task[t].pc = "idle"
Over(s) == policy[s].active /\ Exceeded(policy[s])

(* Once no evaluation or request is in progress, no run works for a scope    *)
(* whose active budget is spent: a wakeup or a claim that checked before     *)
(* does not slip past the sweep.  Exempt is what nothing has checked: an     *)
(* evaluation that threw, a raise that was spent while it was written; and,   *)
(* for a project, the runs whose claim does not know it.                     *)
FundedWork == Quiet /\ ~unchecked =>
    \A s \in Scopes : Over(s) => \A r \in ClaimChecked(s) : run[r].status # "running"

(* Whichever of a cost event and a new budget comes last sees the other: a   *)
(* crossing is on record once nothing is in progress.                        *)
CrossingRecorded == Quiet /\ ~unchecked =>
    \A s \in Scopes : Over(s) => incident[s].status # None

(* A budget never lifts a manual pause of an agent, nor takes it over.       *)
ManualPauseKept == [][\A s \in AgentScopes :
    scope[s] = "manual" /\ scope'[s] # "manual" => ManualResume(s)]_vars

(* TLC refutes these (README): the same of all runs; a pause has an open     *)
(* incident to resolve it by; its approval is undecided while it is open; a   *)
(* scope within its budget is not paused for it; the second also for a single *)
(* request at a time.                                                        *)
AllWorkFunded == Quiet /\ ~unchecked =>
    \A s \in Scopes : Over(s) => \A r \in WorkOf[s] : run[r].status # "running"
PauseHasIncident == Quiet => \A s \in Scopes :
    scope[s] = "budget" => incident[s].status \in {"open", "dismissed"}
OpenIsUndecided == Quiet => \A s \in Scopes :
    incident[s].status = "open" => incident[s].approval = "pending"
PauseIsDue == Quiet => \A s \in Scopes :
    scope[s] = "budget" /\ incident[s].status # "dismissed" => Exceeded(policy[s])
=============================================================================
