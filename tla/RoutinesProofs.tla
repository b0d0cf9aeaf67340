--------------------------- MODULE RoutinesProofs ---------------------------
(***************************************************************************)
(* Proofs about Routines, for all ticks, callers, runs, issues, policies    *)
(* and bounds: the types, one run per idempotency key, one fresh issue, and *)
(* that a coalesced run points at one that created its issue.               *)
(*                                                                          *)
(* The invariant has three layers: what a dispatch holds (its rows and the  *)
(* lock), the keys on record, and what issues are linked to.                *)
(***************************************************************************)
EXTENDS Routines, FiniteSetTheorems, TLAPS

(* From the lock to the commit.                                              *)
Holding  == {"look", "create", "wake", "start", "commit", "fail"}
Locked   == {"create", "wake"}
Issueing == {"wake", "start", "commit"}
NoIssueYet == {"idle", "claim", "begin", "lock", "look", "create"}

(* What a task knows in each place.                                          *)
Sound(x) ==
    /\ x.pc = "claim" => x.claimed \in 1 .. MaxTime + 1
    /\ x.pc \in Holding \cup {"lock"} => x.run \in x.todo
    /\ x.pc \in NoIssueYet => x.issue = None
    /\ x.pc \in Issueing => x.issue \in Issues

(* The rows a task is to insert are its own; the holder of the lock is one.  *)
Owned(t)    == \A r \in task[t].todo : run[r] = NoRun /\ r \notin crashed
Disjoint    == \A t, u \in Tasks : t # u => task[t].todo \cap task[u].todo = {}
Synced(x)   ==
    /\ x.pc = "read" => x.issue \in Issues
    /\ x.pc = "write" => x.status \in {"completed", "failed"}
LockHeld(t) == task[t].pc \in Holding => holder = t
DispatchInv ==
    /\ TypeOK /\ Disjoint
    /\ \A t \in Tasks : Sound(task[t]) /\ Owned(t) /\ LockHeld(t)
    /\ \A u \in Updaters : Synced(update[u])

(* The holder's key is on no run.                                            *)
KeyIsFree(t) == task[t].pc \in Holding => \A r \in Runs : ~SameKey(t, r)
KeyInv == OncePerKey /\ \A t \in Tasks : KeyIsFree(t)

(* The issue of a dispatch is the one it has created.                        *)
Linked(t) == task[t].issue # None =>
    /\ issue[task[t].issue].status # None
    /\ issue[task[t].issue].origin = task[t].run
    /\ issue[task[t].issue].policy = task[t].policy

(* An issue has the run that created it: lost, on record, or in progress.    *)
OnRecord(r, i) == run[r].status \in {"issue_created", "completed", "failed"} /\ run[r].issue = i
Created(i) == issue[i].status # None =>
    /\ issue[i].origin \in Runs
    /\ \/ issue[i].origin \in crashed \/ OnRecord(issue[i].origin, i)
       \/ \E t \in Tasks : task[t].issue = i /\ task[t].run = issue[i].origin
Coalesced(r) == run[r].status \in {"coalesced", "skipped"} =>
    run[r].into \in Runs /\ (run[r].into \in crashed \/ OnRecord(run[r].into, run[r].issue))

(* A fresh issue is live, so that the holder of the lock has looked for it.  *)
Fresh(i) == Open(i) /\ issue[i].first /\ issue[i].policy # "always_enqueue"
FirstIsLive(i) == issue[i].first => Open(i) /\ issue[i].hb # None
NoneFresh(t) ==
    task[t].pc \in Locked /\ task[t].policy # "always_enqueue" => \A i \in Issues : ~Fresh(i)
LinkInv ==
    /\ \A t \in Tasks : Linked(t)
    /\ \A i \in Issues : Created(i)
    /\ \A r \in Runs : Coalesced(r)
FreshInv ==
    /\ \A t \in Tasks : NoneFresh(t)
    /\ \A i \in Issues : FirstIsLive(i)
    /\ \A i, j \in Issues : Fresh(i) /\ Fresh(j) => i = j
IssueInv == LinkInv /\ FreshInv

(* The types of all but the tasks.                                           *)
StoreOK ==
    /\ now \in 0 .. MaxTime
    /\ routine \in [status : Statuses, policy : Policies, catchUp : CatchUpPolicies]
    /\ trigger \in [enabled : BOOLEAN, next : 0 .. MaxTime + 1, claimed : 0 .. MaxTime]
    /\ run \in [Runs -> RunRecord]
    /\ issue \in [Issues -> IssueRecord]
    /\ holder \in Tasks \cup {None}
    /\ update \in [Updaters -> UpdateRecord]
    /\ crashed \subseteq Runs

Inv == DispatchInv /\ KeyInv /\ IssueInv

-----------------------------------------------------------------------------
(* The first layer.                                                          *)
LEMMA Constants ==
    /\ MaxTime \in Nat /\ MaxCatchUp \in Nat \ {0} /\ None \notin Tasks
    /\ None \notin Runs /\ None \notin Issues
    /\ Ticks \subseteq Tasks /\ Callers \subseteq Tasks
BY RoutinesAssumption DEF Tasks

LEMMA Records ==
    /\ Idle \in TaskRecord /\ Idle.pc = "idle" /\ Idle.todo = {} /\ Idle.issue = None
    /\ NoRun \in RunRecord /\ NoRun.status = None
    /\ NoIssue \in IssueRecord /\ NoIssue.status = None /\ ~NoIssue.first /\ NoIssue.hb = None
    /\ NoUpdate \in UpdateRecord /\ NoUpdate.pc = "idle"
    /\ Updated \in UpdateRecord /\ Updated.pc = "done"
BY Constants DEF Idle, TaskRecord, NoRun, RunRecord, NoIssue, IssueRecord, NoUpdate, UpdateRecord,
   Updated

LEMMA TaskFacts ==
    ASSUME DispatchInv, NEW t \in Tasks
    PROVE  /\ task[t] \in TaskRecord /\ task[t].todo \subseteq Runs
           /\ task[t].next \in 0 .. MaxTime + 1
           /\ task[t].run \in Runs \cup {None} /\ task[t].issue \in Issues \cup {None}
           /\ task[t].policy \in Policies \cup {None} /\ task[t].key \in Keys \cup {None}
           /\ task[t].scheduled \in BOOLEAN /\ task[t].source \in Sources \cup {"schedule", None}
           /\ Sound(task[t]) /\ Owned(t) /\ LockHeld(t)
BY DEF DispatchInv, TypeOK, TaskRecord

LEMMA StoreFacts == ASSUME DispatchInv PROVE StoreOK
BY DEF DispatchInv, TypeOK, StoreOK

(* A step of one task: its record becomes y, it takes rows that nobody has,  *)
(* and writes rows that it gives up.                                         *)
LEMMA MoveDispatch ==
    ASSUME DispatchInv, StoreOK', NEW t \in Tasks, NEW y \in TaskRecord,
           task' = [task EXCEPT ![t] = y], UNCHANGED <<now, update, crashed>>,
           Sound(y), y.todo \subseteq task[t].todo \cup Untaken,
           \A r \in Runs : run'[r] = run[r] \/ r \in task[t].todo \ y.todo,
           y.pc \in Holding => holder' = t,
           holder' = holder \/ holder \in {None, t}
    PROVE  DispatchInv'
<1>1. task'[t] = y /\ \A u \in Tasks \ {t} : task'[u] = task[u]
    BY DEF DispatchInv, TypeOK
<1>2. TypeOK'
    BY DEF DispatchInv, TypeOK, StoreOK
<1>3. \A u \in Tasks : Sound(task[u])'
    BY <1>1, TaskFacts DEF Sound
<1>4. \A u \in Tasks : LockHeld(u)'
    BY <1>1, TaskFacts, Constants DEF LockHeld
<1>5. \A u \in Tasks \ {t} : task[u].todo \cap Untaken = {}
    BY DEF Untaken
<1>6. y.todo \subseteq Runs /\ \A u \in Tasks : task[u].todo \subseteq Runs
    BY TaskFacts DEF TaskRecord
<1>7. Disjoint'
    BY <1>1, <1>5 DEF Disjoint, DispatchInv
<1>8. ASSUME NEW u \in Tasks PROVE Owned(u)'
    <2>1. CASE u = t
        <3>1. \A r \in y.todo : run[r] = NoRun /\ r \notin crashed
            BY TaskFacts DEF Owned, Untaken
        <3> QED BY <1>1, <1>6, <2>1, <3>1 DEF Owned
    <2>2. CASE u # t
        <3>1. task[u].todo \cap task[t].todo = {}
            BY <2>2 DEF DispatchInv, Disjoint
        <3> QED BY <1>1, <1>6, <2>2, <3>1, TaskFacts DEF Owned
    <2> QED BY <2>1, <2>2
<1>9. \A u \in Updaters : Synced(update[u])'
    BY DEF DispatchInv, Synced
<1> QED BY <1>2, <1>3, <1>4, <1>7, <1>8, <1>9 DEF DispatchInv

LEMMA BatchFacts ==
    ASSUME NEW rows, NEW n, NEW rs \in Batches(rows, n)
    PROVE  rs \subseteq rows
BY DEF Batches

LEMMA TickSelectDispatch ==
    ASSUME DispatchInv, NEW k \in Ticks, TickSelect(k)
    PROVE  DispatchInv'
<1> DEFINE rs == CHOOSE rs \in Batches(Untaken, RunCount) : TRUE
           y == [Idle EXCEPT !.pc = "claim", !.next = trigger.next, !.claimed = ClaimedNext,
                    !.policy = routine.policy, !.todo = rs, !.source = "schedule",
                    !.scheduled = TRUE]
<1>1. rs \in Batches(Untaken, RunCount)
    BY DEF TickSelect
<1> HIDE DEF rs
<1>2. rs \subseteq Untaken /\ Untaken \subseteq Runs
    BY <1>1, BatchFacts DEF Untaken
<1>3. StoreOK /\ StoreOK' /\ trigger.next <= now
    BY StoreFacts DEF StoreOK, TickSelect
<1>4. ClaimedNext \in 1 .. MaxTime + 1
    <2>1. /\ now \in 0 .. MaxTime /\ MaxTime \in Nat /\ MaxCatchUp \in Nat \ {0}
          /\ trigger.next \in 0 .. MaxTime + 1
        BY <1>3, Constants DEF StoreOK
    <2>2. Missed \in Nat \ {0} /\ Missed = now + 1 - trigger.next
        BY <1>3, <2>1 DEF Missed
    <2>3. RunCount \in 1 .. Missed
        BY <2>1, <2>2 DEF RunCount
    <2> QED BY <2>1, <2>2, <2>3 DEF ClaimedNext, NextTick
<1>5. ClaimedNext \in 0 .. MaxTime + 1
    BY <1>4, Constants
<1>6. /\ y \in TaskRecord /\ y.pc = "claim" /\ y.claimed = ClaimedNext /\ y.todo = rs
      /\ y.issue = None
    BY <1>2, <1>3, <1>5, Records DEF StoreOK, TaskRecord, Idle
<1>7. task' = [task EXCEPT ![k] = y] /\ UNCHANGED <<now, run, holder, update, crashed>>
    BY DEF TickSelect, rs
<1> HIDE DEF y
<1>8. Sound(y) /\ y.pc \notin Holding
    BY <1>4, <1>6 DEF Sound, Holding, Issueing
<1> QED BY <1>2, <1>3, <1>6, <1>7, <1>8, Constants, MoveDispatch

LEMMA TickClaimDispatch ==
    ASSUME DispatchInv, NEW k \in Ticks, TickClaim(k)
    PROVE  DispatchInv'
<1>1. /\ k \in Tasks /\ task[k].pc = "claim" /\ task[k] \in TaskRecord /\ task[k].issue = None
      /\ task[k].claimed \in 1 .. MaxTime + 1 /\ StoreOK
      /\ UNCHANGED <<now, routine, run, issue, holder, update, crashed>>
    BY Constants, TaskFacts, StoreFacts DEF TickClaim, At, Sound, NoIssueYet
<1>2. CASE task' = [task EXCEPT ![k] = Idle] /\ UNCHANGED trigger
    <2>1. Sound(Idle) /\ Idle.pc \notin Holding
        BY Records DEF Sound, Holding, Issueing
    <2>2. StoreOK'
        BY <1>1, <1>2 DEF StoreOK
    <2> QED BY <1>1, <1>2, <2>1, <2>2, Records, MoveDispatch
<1>3. ASSUME task' = [task EXCEPT ![k].pc = "begin", ![k].next = 0, ![k].claimed = 0],
             trigger' = [trigger EXCEPT !.next = task[k].claimed, !.claimed = task[k].claimed - 1]
      PROVE  DispatchInv'
    <2> DEFINE y == [task[k] EXCEPT !.pc = "begin", !.next = 0, !.claimed = 0]
    <2>1. 0 \in 0 .. MaxTime + 1
        BY Constants
    <2>2. y \in TaskRecord /\ y.pc = "begin" /\ y.todo = task[k].todo /\ y.issue = None
        BY <1>1, <2>1 DEF TaskRecord
    <2>3. task' = [task EXCEPT ![k] = y]
        BY <1>1, <1>3 DEF DispatchInv, TypeOK
    <2> HIDE DEF y
    <2>4. trigger' \in [enabled : BOOLEAN, next : 0 .. MaxTime + 1, claimed : 0 .. MaxTime]
        <3>1. task[k].claimed \in 0 .. MaxTime + 1 /\ task[k].claimed - 1 \in 0 .. MaxTime
            BY <1>1, Constants
        <3> QED BY <1>1, <1>3, <3>1 DEF StoreOK
    <2>5. StoreOK'
        BY <1>1, <2>4 DEF StoreOK
    <2>6. Sound(y) /\ y.pc \notin Holding
        BY <2>2 DEF Sound, Holding, Issueing
    <2> QED BY <1>1, <2>2, <2>3, <2>5, <2>6, MoveDispatch
<1> QED BY <1>2, <1>3 DEF TickClaim

LEMMA RequestDispatch ==
    ASSUME DispatchInv, NEW c \in Callers, NEW key \in Keys \cup {None},
           NEW source \in Sources, NEW scheduled \in BOOLEAN, Request(c, key, source, scheduled)
    PROVE  DispatchInv'
<1> DEFINE r == CHOOSE r \in Untaken : TRUE
           y == [Idle EXCEPT !.pc = "begin", !.key = key, !.todo = {r}, !.policy = routine.policy,
                             !.source = source, !.scheduled = scheduled]
<1>1. r \in Untaken /\ Untaken \subseteq Runs
    BY DEF Request, Untaken
<1>2. task' = [task EXCEPT ![c] = y] /\ UNCHANGED <<now, run, holder, update, crashed>>
    BY DEF Request
<1> HIDE DEF r
<1>3. StoreOK /\ StoreOK'
    BY StoreFacts DEF StoreOK, Request
<1>4. y \in TaskRecord /\ y.pc = "begin" /\ y.todo = {r} /\ y.issue = None
    BY <1>1, <1>3, Records DEF StoreOK, TaskRecord, Idle
<1> HIDE DEF y
<1>5. Sound(y) /\ y.pc \notin Holding
    BY <1>4 DEF Sound, Holding, Issueing
<1> QED BY <1>1, <1>2, <1>3, <1>4, <1>5, Constants, MoveDispatch

LEMMA BeginDispatch ==
    ASSUME DispatchInv, NEW t \in Tasks, Begin(t)
    PROVE  DispatchInv'
<1> DEFINE r == CHOOSE r \in task[t].todo : TRUE
           y == [task[t] EXCEPT !.run = r, !.pc = "lock"]
<1>1. r \in task[t].todo
    BY DEF Begin
<1> HIDE DEF r
<1>2. /\ task[t] \in TaskRecord /\ task[t].todo \subseteq Runs /\ task[t].issue = None /\ StoreOK
    BY TaskFacts, StoreFacts DEF Begin, At, Sound, NoIssueYet
<1>3. y \in TaskRecord /\ y.pc = "lock" /\ y.run = r /\ y.todo = task[t].todo /\ y.issue = None
    BY <1>1, <1>2 DEF TaskRecord
<1>4. task' = [task EXCEPT ![t] = y] /\ UNCHANGED <<now, run, holder, update, crashed>> /\ StoreOK'
    BY <1>2 DEF Begin, StoreOK, r, DispatchInv, TypeOK
<1> HIDE DEF y
<1>5. Sound(y) /\ y.pc \notin Holding
    BY <1>1, <1>3 DEF Sound, Holding, Issueing
<1> QED BY <1>2, <1>3, <1>4, <1>5, MoveDispatch

(* The end of a transaction.                                                 *)
LEMMA EndedFacts ==
    ASSUME DispatchInv, NEW t \in Tasks
    PROVE  \E y \in TaskRecord :
              /\ Ended(t) = [task EXCEPT ![t] = y]
              /\ y.todo = task[t].todo \ {task[t].run} /\ y.pc \in {"idle", "begin"}
              /\ y.issue = None /\ Sound(y)
<1> DEFINE rest == task[t].todo \ {task[t].run}
           y == [task[t] EXCEPT !.todo = rest, !.pc = "begin", !.run = None, !.issue = None,
                                !.next = 0]
<1>1. task[t] \in TaskRecord /\ rest \in SUBSET Runs /\ 0 \in 0 .. MaxTime + 1
    BY TaskFacts, Constants
<1>2. CASE rest = {}
    <2>1. Ended(t) = [task EXCEPT ![t] = Idle] /\ Idle.todo = rest
        BY <1>2, Records DEF Ended
    <2>2. Sound(Idle)
        BY Records DEF Sound, Holding, Issueing
    <2> QED BY <2>1, <2>2, Records
<1>3. CASE rest # {}
    <2>1. Ended(t) = [task EXCEPT ![t] = y]
        BY <1>3 DEF Ended
    <2>2. y \in TaskRecord /\ y.pc = "begin" /\ y.todo = rest /\ y.issue = None
        BY <1>1 DEF TaskRecord
    <2> HIDE DEF y
    <2>3. Sound(y)
        BY <2>2 DEF Sound, Holding, Issueing
    <2> QED BY <2>1, <2>2, <2>3
<1> QED BY <1>2, <1>3

LEMMA LockDispatch ==
    ASSUME DispatchInv, NEW t \in Tasks, Lock(t)
    PROVE  DispatchInv'
<1>1. /\ task[t].pc = "lock" /\ task[t] \in TaskRecord /\ task[t].run \in task[t].todo
      /\ task[t].issue = None /\ holder = None /\ StoreOK
      /\ UNCHANGED <<now, run, update, crashed>>
    BY TaskFacts, StoreFacts DEF Lock, Lockable, At, Sound, NoIssueYet
<1>2. CASE task' = Ended(t) /\ UNCHANGED holder
    <2>1. StoreOK'
        BY <1>1, <1>2 DEF StoreOK, Lock
    <2> QED BY <1>1, <1>2, <2>1, EndedFacts, MoveDispatch DEF Holding
<1>3. ASSUME holder' = t,
             task' = [task EXCEPT ![t].pc = "look",
                         ![t].next = IF task[t].scheduled THEN NextTick(now) ELSE 0]
      PROVE  DispatchInv'
    <2> DEFINE n == IF task[t].scheduled THEN NextTick(now) ELSE 0
               y == [task[t] EXCEPT !.pc = "look", !.next = n]
    <2>1. n \in 0 .. MaxTime + 1
        BY <1>1, Constants DEF NextTick, StoreOK
    <2> HIDE DEF n
    <2>2. /\ y \in TaskRecord /\ y.pc = "look" /\ y.run = task[t].run /\ y.todo = task[t].todo
          /\ y.issue = None
        BY <1>1, <2>1 DEF TaskRecord
    <2>3. task' = [task EXCEPT ![t] = y]
        BY <1>1, <1>3 DEF DispatchInv, TypeOK, n
    <2> HIDE DEF y
    <2>4. StoreOK'
        BY <1>1, <1>3 DEF StoreOK, Lock
    <2>5. Sound(y)
        BY <1>1, <2>2 DEF Sound, Issueing
    <2> QED BY <1>1, <1>3, <2>2, <2>3, <2>4, <2>5, MoveDispatch
<1> QED BY <1>2, <1>3 DEF Lock

(* Between the lock and the commit.                                          *)
LEMMA GotoDispatch ==
    ASSUME DispatchInv, NEW t \in Tasks, task[t].pc \in Holding, NEW pc \in Holding,
           NEW i \in Issues \cup {None}, task' = [task EXCEPT ![t].issue = i, ![t].pc = pc],
           pc \in NoIssueYet => i = None, pc \in Issueing => i \in Issues,
           issue' \in [Issues -> IssueRecord],
           UNCHANGED <<now, routine, trigger, run, holder, update, crashed>>
    PROVE  DispatchInv'
<1> DEFINE y == [task[t] EXCEPT !.issue = i, !.pc = pc]
<1>1. task[t] \in TaskRecord /\ task[t].run \in task[t].todo /\ holder = t /\ StoreOK
    BY TaskFacts, StoreFacts DEF Sound, LockHeld
<1>2. pc \in {"look", "create", "wake", "start", "commit", "fail"}
    BY DEF Holding
<1>3. /\ y \in TaskRecord /\ y.pc = pc /\ y.run = task[t].run /\ y.todo = task[t].todo
      /\ y.issue = i
    BY <1>1, <1>2 DEF TaskRecord
<1>4. task' = [task EXCEPT ![t] = y]
    BY <1>1 DEF DispatchInv, TypeOK
<1> HIDE DEF y
<1>5. StoreOK'
    BY <1>1 DEF StoreOK
<1>6. Sound(y)
    BY <1>1, <1>2, <1>3 DEF Sound
<1> QED BY <1>1, <1>3, <1>4, <1>5, <1>6, MoveDispatch

LEMMA CommitDispatch ==
    ASSUME DispatchInv, NEW t \in Tasks, task[t].pc \in Holding,
           NEW status \in {"issue_created", "coalesced", "skipped", "failed"},
           NEW i \in Issues \cup {None}, NEW into \in Runs \cup {None},
           Commit(t, status, i, into), issue' \in [Issues -> IssueRecord]
    PROVE  DispatchInv'
<1> DEFINE row == [status |-> status, key |-> task[t].key, issue |-> i, into |-> into,
                   source |-> task[t].source, scheduled |-> task[t].scheduled]
<1>1. /\ task[t] \in TaskRecord /\ task[t].run \in task[t].todo /\ task[t].run \in Runs
      /\ holder = t /\ StoreOK /\ task[t].next \in 0 .. MaxTime + 1
    BY TaskFacts, StoreFacts DEF Sound, LockHeld
<1>2. row \in RunRecord
    BY <1>1 DEF TaskRecord, RunRecord
<1>3. /\ run' = [run EXCEPT ![task[t].run] = row] /\ holder' = None /\ task' = Ended(t)
      /\ trigger' = IF task[t].scheduled THEN [trigger EXCEPT !.next = task[t].next] ELSE trigger
      /\ UNCHANGED <<now, routine, update, crashed>>
    BY DEF Commit
<1> HIDE DEF row
<1>4. trigger' \in [enabled : BOOLEAN, next : 0 .. MaxTime + 1, claimed : 0 .. MaxTime]
    BY <1>1, <1>3 DEF StoreOK
<1>5. StoreOK'
    BY <1>1, <1>2, <1>3, <1>4 DEF StoreOK
<1>6. \A r \in Runs : r # task[t].run => run'[r] = run[r]
    BY <1>1, <1>3 DEF StoreOK
<1> QED BY <1>1, <1>3, <1>5, <1>6, EndedFacts, MoveDispatch DEF Holding

LEMMA ClaimedType ==
    ASSUME DispatchInv, NEW i \in Issues
    PROVE  /\ Claimed(i) \in [Issues -> IssueRecord]
           /\ \A first \in BOOLEAN : Woken(i, first) \in [Issues -> IssueRecord]
<1>1. issue \in [Issues -> IssueRecord] /\ issue[i] \in IssueRecord
    BY StoreFacts DEF StoreOK
<1>2. MayBind(i) \in BOOLEAN
    BY DEF MayBind
<1> HIDE DEF MayBind
<1>3. Claimed(i) \in [Issues -> IssueRecord]
    <2> DEFINE z == [issue[i] EXCEPT !.hb = "running",
                                     !.bound = issue[i].status # None /\ MayBind(i)]
    <2>1. z \in IssueRecord
        BY <1>1 DEF IssueRecord
    <2>2. Claimed(i) = [issue EXCEPT ![i] = z]
        BY <1>1 DEF Claimed
    <2> QED BY <1>1, <2>1, <2>2
<1>4. ASSUME NEW first \in BOOLEAN PROVE Woken(i, first) \in [Issues -> IssueRecord]
    <2> DEFINE z == [issue[i] EXCEPT !.hb = "queued", !.first = first]
               w == [issue[i] EXCEPT !.bound = @ \/ MayBind(i)]
    <2>1. z \in IssueRecord /\ w \in IssueRecord
        BY <1>1 DEF IssueRecord
    <2>2. \/ Woken(i, first) = issue \/ Woken(i, first) = [issue EXCEPT ![i] = z]
          \/ Woken(i, first) = [issue EXCEPT ![i] = w]
        BY <1>1 DEF Woken
    <2> QED BY <1>1, <2>1, <2>2
<1> QED BY <1>3, <1>4

LEMMA GotoSame ==
    ASSUME DispatchInv, NEW t \in Tasks, NEW pc, task' = [task EXCEPT ![t].pc = pc]
    PROVE  task' = [task EXCEPT ![t].issue = task[t].issue, ![t].pc = pc]
<1>1. task[t] \in TaskRecord
    BY TaskFacts
<1>2. [task[t] EXCEPT !.issue = task[t].issue, !.pc = pc] = [task[t] EXCEPT !.pc = pc]
    BY <1>1 DEF TaskRecord
<1>3. [task EXCEPT ![t].issue = task[t].issue, ![t].pc = pc]
          = [task EXCEPT ![t] = [task[t] EXCEPT !.issue = task[t].issue, !.pc = pc]]
    BY DEF DispatchInv, TypeOK
<1> QED BY <1>2, <1>3

LEMMA LookForLiveDispatch ==
    ASSUME DispatchInv, NEW t \in Tasks, LookForLive(t)
    PROVE  DispatchInv'
<1>1. task[t].pc = "look" /\ task[t].issue = None /\ issue \in [Issues -> IssueRecord]
    BY TaskFacts, StoreFacts DEF LookForLive, At, Sound, NoIssueYet, StoreOK
<1>2. CASE /\ \E i \in LiveIssues :
                 Commit(t, IF task[t].policy = "skip_if_active" THEN "skipped" ELSE "coalesced",
                        i, issue[i].origin)
           /\ UNCHANGED issue
    <2>1. PICK i \in LiveIssues :
              Commit(t, IF task[t].policy = "skip_if_active" THEN "skipped" ELSE "coalesced",
                     i, issue[i].origin)
        BY <1>2
    <2>2. i \in Issues /\ issue[i].origin \in Runs \cup {None}
        BY <1>1 DEF LiveIssues, IssueRecord
    <2> QED BY <1>1, <1>2, <2>1, <2>2, CommitDispatch DEF Holding
<1>3. CASE /\ task' = [task EXCEPT ![t].pc = "create"]
           /\ UNCHANGED <<now, routine, trigger, run, issue, holder, update, crashed>>
    BY <1>1, <1>3, GotoSame, GotoDispatch DEF Holding, NoIssueYet, Issueing
<1> QED BY <1>2, <1>3 DEF LookForLive

LEMMA CreateIssueDispatch ==
    ASSUME DispatchInv, NEW t \in Tasks, CreateIssue(t)
    PROVE  DispatchInv'
<1>1. /\ task[t].pc = "create" /\ task[t].issue = None /\ issue \in [Issues -> IssueRecord]
      /\ task[t].run \in Runs \cup {None} /\ task[t].policy \in Policies \cup {None}
      /\ UNCHANGED <<now, routine, trigger, run, holder, update, crashed>>
    BY TaskFacts, StoreFacts DEF CreateIssue, At, Sound, NoIssueYet, StoreOK
<1>2. ASSUME NEW i \in Issues,
             issue' = [issue EXCEPT ![i] = [NoIssue EXCEPT !.status = "open",
                            !.origin = task[t].run, !.policy = task[t].policy]],
             task' = [task EXCEPT ![t].issue = i, ![t].pc = "wake"]
      PROVE  DispatchInv'
    <2>1. [NoIssue EXCEPT !.status = "open", !.origin = task[t].run, !.policy = task[t].policy]
              \in IssueRecord
        BY <1>1, Records DEF IssueRecord
    <2>2. issue' \in [Issues -> IssueRecord]
        BY <1>1, <1>2, <2>1
    <2> QED BY <1>1, <1>2, <2>2, GotoDispatch DEF Holding, NoIssueYet, Issueing
<1>3. CASE task' = [task EXCEPT ![t].pc = "fail"] /\ UNCHANGED issue
    BY <1>1, <1>3, GotoSame, GotoDispatch DEF Holding, NoIssueYet, Issueing
<1> QED BY <1>2, <1>3 DEF CreateIssue

LEMMA WakeDispatch ==
    ASSUME DispatchInv, NEW t \in Tasks, Wake(t) \/ Start(t)
    PROVE  DispatchInv'
<1>1. /\ task[t].pc \in {"wake", "start"} /\ task[t].issue \in Issues
      /\ issue \in [Issues -> IssueRecord]
      /\ UNCHANGED <<now, routine, trigger, run, holder, update, crashed>>
    BY TaskFacts, StoreFacts DEF Wake, Start, At, Sound, Issueing, StoreOK
<1>2. Open(task[t].issue) \in BOOLEAN
    BY DEF Open
<1>3. issue' \in [Issues -> IssueRecord]
    BY <1>1, <1>2, ClaimedType DEF Wake, Start
<1>4. PICK pc \in {"start", "commit", "fail"} : task' = [task EXCEPT ![t].pc = pc]
    BY DEF Wake, Start
<1> QED BY <1>1, <1>3, <1>4, GotoSame, GotoDispatch DEF Holding, NoIssueYet, Issueing

LEMMA CommitsDispatch ==
    ASSUME DispatchInv, NEW t \in Tasks, CommitCreated(t) \/ CommitFailed(t)
    PROVE  DispatchInv'
<1>1. /\ task[t].pc \in Holding /\ task[t].issue \in Issues \cup {None} /\ None \in Runs \cup {None}
      /\ issue \in [Issues -> IssueRecord]
    BY TaskFacts, StoreFacts DEF CommitCreated, CommitFailed, At, Holding, StoreOK
<1>2. CASE CommitCreated(t)
    BY <1>1, <1>2, CommitDispatch DEF CommitCreated
<1>3. CASE CommitFailed(t)
    <2> DEFINE i == task[t].issue
               z == [NoIssue EXCEPT !.hb = issue[i].hb]
    <2>1. issue' = issue \/ (i \in Issues /\ issue' = [issue EXCEPT ![i] = z])
        BY <1>1, <1>3 DEF CommitFailed
    <2>2. i \in Issues => z \in IssueRecord
        BY <1>1, Records DEF IssueRecord
    <2>3. issue' \in [Issues -> IssueRecord]
        BY <1>1, <2>1, <2>2
    <2>4. Commit(t, "failed", None, None)
        BY <1>3 DEF CommitFailed
    <2> QED BY <1>1, <2>3, <2>4, CommitDispatch
<1> QED BY <1>2, <1>3

(* Steps that leave the tasks alone, and add to no run.                      *)
LEMMA OthersDispatch ==
    ASSUME DispatchInv, StoreOK', UNCHANGED <<holder, task, crashed>>, now' >= now,
           \A r \in Runs : run[r].status = None => run'[r] = run[r],
           \A u \in Updaters : Synced(update[u])'
    PROVE  DispatchInv'
<1>1. TypeOK' /\ Disjoint'
    BY DEF DispatchInv, TypeOK, StoreOK, Disjoint
<1>2. \A t \in Tasks : Owned(t)' /\ LockHeld(t)'
    BY TaskFacts, Records DEF Owned, LockHeld
<1>3. ASSUME NEW t \in Tasks PROVE Sound(task[t])'
    <2>1. now \in Nat /\ now' \in Nat /\ task[t].next \in Nat
        BY TaskFacts, StoreFacts, Constants DEF StoreOK
    <2> QED BY <2>1, TaskFacts DEF Sound
<1> QED BY <1>1, <1>2, <1>3 DEF DispatchInv

LEMMA IssueTypes ==
    ASSUME DispatchInv, NEW i \in Issues,
           \/ HeartbeatStarts(i) \/ HeartbeatEnds(i) \/ CommentWakes(i)
           \/ \E u \in Updaters : \/ \E status \in Edits : UpdateIssue(u, i, status)
                                \/ \E hidden \in Hiding : HideIssue(u, i, hidden)
    PROVE  issue' \in [Issues -> IssueRecord]
<1>1. issue \in [Issues -> IssueRecord] /\ issue[i] \in IssueRecord
    BY StoreFacts DEF StoreOK
<1>2. CASE HeartbeatStarts(i) \/ CommentWakes(i)
    BY <1>2, ClaimedType DEF HeartbeatStarts, CommentWakes
<1>3. CASE HeartbeatEnds(i)
    <2> DEFINE z == [issue[i] EXCEPT !.hb = None, !.bound = FALSE, !.first = FALSE]
    <2>1. z \in IssueRecord /\ issue' = [issue EXCEPT ![i] = z]
        BY <1>1, <1>3 DEF IssueRecord, HeartbeatEnds
    <2> QED BY <1>1, <2>1
<1>4. ASSUME NEW u \in Updaters, NEW status \in Edits, UpdateIssue(u, i, status)
      PROVE  issue' \in [Issues -> IssueRecord]
    <2> DEFINE first == issue[i].first /\ status \in {"open", "blocked"}
               z == [issue[i] EXCEPT !.status = status, !.bound = FALSE, !.first = first]
    <2>1. first \in BOOLEAN /\ status \in {"open", "blocked", "done", "cancelled"}
        BY RoutinesAssumption
    <2>2. issue' = [issue EXCEPT ![i] = z]
        BY <1>1, <1>4 DEF UpdateIssue
    <2> HIDE DEF first
    <2>3. z \in IssueRecord
        BY <1>1, <2>1 DEF IssueRecord
    <2> QED BY <1>1, <2>2, <2>3
<1>5. ASSUME NEW u \in Updaters, NEW hidden \in Hiding, HideIssue(u, i, hidden)
      PROVE  issue' \in [Issues -> IssueRecord]
    <2> DEFINE first == issue[i].first /\ ~hidden
               z == [issue[i] EXCEPT !.hidden = hidden, !.first = first]
    <2>1. first \in BOOLEAN /\ hidden \in BOOLEAN
        BY RoutinesAssumption
    <2>2. issue' = [issue EXCEPT ![i] = z]
        BY <1>1, <1>5 DEF HideIssue
    <2> HIDE DEF first
    <2>3. z \in IssueRecord
        BY <1>1, <2>1 DEF IssueRecord
    <2> QED BY <1>1, <2>2, <2>3
<1> QED BY <1>2, <1>3, <1>4, <1>5

LEMMA SyncDispatch ==
    ASSUME DispatchInv, NEW u \in Updaters,
           \/ Sync(u)
           \/ \E i \in Issues : \/ \E status \in Edits : UpdateIssue(u, i, status)
                             \/ \E hidden \in Hiding : HideIssue(u, i, hidden)
    PROVE  DispatchInv'
<1>1. /\ StoreOK /\ update \in [Updaters -> UpdateRecord] /\ update[u] \in UpdateRecord
      /\ \A v \in Updaters : Synced(update[v])
    BY StoreFacts DEF StoreOK, DispatchInv
<1>2. ASSUME NEW z \in UpdateRecord, Synced(z), update' = [update EXCEPT ![u] = z]
      PROVE  /\ update' \in [Updaters -> UpdateRecord]
             /\ \A v \in Updaters : Synced(update[v])'
    BY <1>1, <1>2 DEF Synced
<1>3. now' >= now /\ Synced(Updated)
    <2>1. now' = now
        BY DEF Sync, SyncReads, SyncWrites, UpdateIssue, HideIssue
    <2>2. Synced(Updated)
        BY Records DEF Synced
    <2> QED BY <1>1, <2>1, <2>2, Constants DEF StoreOK
<1>4. CASE SyncReads(u)
    <2> DEFINE v == Verdict(update[u].issue)
               z == [update[u] EXCEPT !.pc = "write", !.status = v,
                                      !.run = issue[update[u].issue].origin]
    <2>1. v \in {None, "completed", "failed"}
        BY DEF Verdict
    <2> HIDE DEF v
    <2>2. update[u].issue \in Issues
        BY <1>1, <1>4 DEF SyncReads, Synced
    <2>3. issue[update[u].issue].origin \in Runs \cup {None}
        BY <1>1, <2>2 DEF StoreOK, IssueRecord
    <2>4. z \in UpdateRecord /\ z.pc = "write" /\ z.status = v
        BY <1>1, <2>1, <2>3 DEF UpdateRecord
    <2>5. update' = [update EXCEPT ![u] = IF v = None THEN Updated ELSE z]
        BY <1>1, <1>4 DEF SyncReads, v
    <2> HIDE DEF z
    <2>6. v # None => Synced(z)
        BY <2>1, <2>4 DEF Synced
    <2>7. update' \in [Updaters -> UpdateRecord] /\ \A w \in Updaters : Synced(update[w])'
        BY <1>2, <1>3, <2>4, <2>5, <2>6, Records
    <2>8. StoreOK'
        BY <1>1, <1>4, <2>7 DEF StoreOK, SyncReads
    <2> QED BY <1>3, <1>4, <2>7, <2>8, OthersDispatch DEF SyncReads
<1>5. CASE SyncWrites(u)
    <2> DEFINE r == update[u].run
               z == [run[r] EXCEPT !.status = update[u].status]
    <2>1. update[u].status \in {"completed", "failed"}
        BY <1>1, <1>5 DEF SyncWrites, Synced
    <2>2. run' = run \/ (run[r].status # None /\ run' = [run EXCEPT ![r] = z])
        BY <1>1, <1>5 DEF SyncWrites, StoreOK
    <2>3. r \in Runs => z \in RunRecord
        BY <1>1, <2>1 DEF StoreOK, RunRecord
    <2> HIDE DEF z
    <2>4. run' \in [Runs -> RunRecord] /\ \A q \in Runs : run[q].status = None => run'[q] = run[q]
        BY <1>1, <2>2, <2>3 DEF StoreOK
    <2>5. update' \in [Updaters -> UpdateRecord] /\ \A w \in Updaters : Synced(update[w])'
        BY <1>2, <1>3, <1>5, Records DEF SyncWrites
    <2>6. StoreOK'
        BY <1>1, <1>5, <2>4, <2>5 DEF StoreOK, SyncWrites
    <2> QED BY <1>3, <1>5, <2>4, <2>5, <2>6, OthersDispatch DEF SyncWrites
<1>6. ASSUME NEW i \in Issues,
             \/ \E status \in Edits : UpdateIssue(u, i, status)
             \/ \E hidden \in Hiding : HideIssue(u, i, hidden)
      PROVE  DispatchInv'
    <2> DEFINE z == [NoUpdate EXCEPT !.pc = "read", !.issue = i]
    <2>1. z \in UpdateRecord /\ z.pc = "read" /\ z.issue = i
        BY Records DEF UpdateRecord, NoUpdate
    <2> HIDE DEF z
    <2>2. Synced(z)
        BY <2>1 DEF Synced
    <2>3. update' = [update EXCEPT ![u] = z]
        BY <1>6 DEF UpdateIssue, HideIssue, z
    <2>4. update' \in [Updaters -> UpdateRecord] /\ \A w \in Updaters : Synced(update[w])'
        BY <1>2, <2>1, <2>2, <2>3
    <2>5. issue' \in [Issues -> IssueRecord]
        BY <1>6, IssueTypes
    <2>6. StoreOK'
        BY <1>1, <1>6, <2>4, <2>5 DEF StoreOK, UpdateIssue, HideIssue
    <2> QED BY <1>3, <1>6, <2>4, <2>6, OthersDispatch DEF UpdateIssue, HideIssue
<1> QED BY <1>4, <1>5, <1>6 DEF Sync

LEMMA EnvironmentDispatch ==
    ASSUME DispatchInv, Environment
    PROVE  DispatchInv'
<1>1. /\ StoreOK /\ \A u \in Updaters : Synced(update[u])
      /\ now \in Nat /\ MaxTime \in Nat
    BY StoreFacts, Constants DEF StoreOK, DispatchInv
<1>2. CASE TimePasses
    <2>1. StoreOK' /\ now' >= now
        BY <1>1, <1>2 DEF TimePasses, StoreOK
    <2> QED BY <1>1, <1>2, <2>1, OthersDispatch DEF TimePasses
<1>3. ASSUME NEW i \in Issues, HeartbeatStarts(i) \/ HeartbeatEnds(i) \/ CommentWakes(i)
      PROVE  DispatchInv'
    <2>1. UNCHANGED <<now, routine, trigger, run, holder, task, update, crashed>>
        BY <1>3 DEF HeartbeatStarts, HeartbeatEnds, CommentWakes
    <2>2. StoreOK' /\ now' >= now
        BY <1>1, <1>3, <2>1, IssueTypes DEF StoreOK
    <2> QED BY <1>1, <2>1, <2>2, OthersDispatch
<1>4. ASSUME NEW status \in Statuses, NEW policy \in Policies, UpdateRoutine(status, policy)
      PROVE  DispatchInv'
    <2>1. routine' \in [status : Statuses, policy : Policies, catchUp : CatchUpPolicies]
        BY <1>1, <1>4 DEF StoreOK, UpdateRoutine
    <2>2. StoreOK' /\ now' >= now
        BY <1>1, <1>4, <2>1 DEF StoreOK, UpdateRoutine
    <2> QED BY <1>1, <1>4, <2>2, OthersDispatch DEF UpdateRoutine
<1>5. ASSUME NEW enabled \in Enabling, UpdateTrigger(enabled)
      PROVE  DispatchInv'
    <2>1. enabled \in BOOLEAN /\ NextTick(now) \in 0 .. MaxTime + 1
        BY <1>1, RoutinesAssumption DEF StoreOK, NextTick
    <2>2. trigger' \in [enabled : BOOLEAN, next : 0 .. MaxTime + 1, claimed : 0 .. MaxTime]
        BY <1>1, <1>5, <2>1 DEF StoreOK, UpdateTrigger
    <2>3. StoreOK' /\ now' >= now
        BY <1>1, <1>5, <2>2 DEF StoreOK, UpdateTrigger
    <2> QED BY <1>1, <1>5, <2>3, OthersDispatch DEF UpdateTrigger
<1>6. CASE Restart
    <2>1. \A t \in Tasks : task[t].issue # None => task[t].run \in Runs
        <3>1. ASSUME NEW t \in Tasks, task[t].issue # None
              PROVE  task[t].run \in Runs
            <4>1. task[t].pc \in Holding
                BY <3>1, TaskFacts DEF Sound, NoIssueYet, Holding, TaskRecord
            <4> QED BY <4>1, TaskFacts DEF Sound
        <3> QED BY <3>1
    <2>2. crashed' \subseteq Runs /\ \A t \in Tasks : task'[t] = Idle
        BY <1>1, <1>6, <2>1 DEF Restart, StoreOK
    <2>3. TypeOK'
        BY <1>1, <1>6, <2>2, Records DEF Restart, StoreOK, TypeOK
    <2>4. \A u \in Updaters : Synced(update[u])'
        BY <1>6, Records DEF Restart, Synced
    <2>5. \A t \in Tasks : Sound(task[t])' /\ Owned(t)' /\ LockHeld(t)'
        BY <2>2, Records DEF Sound, Owned, LockHeld, Holding, Issueing
    <2>6. Disjoint'
        BY <2>2, Records DEF Disjoint
    <2> QED BY <2>3, <2>4, <2>5, <2>6 DEF DispatchInv
<1> QED BY <1>2, <1>3, <1>4, <1>5, <1>6 DEF Environment

LEMMA DispatchStep ==
    ASSUME DispatchInv, [Next]_vars
    PROVE  DispatchInv'
<1>1. ASSUME NEW t \in Tasks, Dispatch(t) PROVE DispatchInv'
    BY <1>1, BeginDispatch, LockDispatch, LookForLiveDispatch, CreateIssueDispatch, WakeDispatch,
       CommitsDispatch DEF Dispatch, Statement
<1>2. ASSUME NEW k \in Ticks, Tick(k) PROVE DispatchInv'
    BY <1>2, TickSelectDispatch, TickClaimDispatch DEF Tick
<1>3. ASSUME NEW c \in Callers, NEW key \in Keys \cup {None}, NEW source \in Sources,
             NEW scheduled \in Attributed, Request(c, key, source, scheduled)
      PROVE  DispatchInv'
    <2>1. scheduled \in BOOLEAN
        BY RoutinesAssumption
    <2> QED BY <1>3, <2>1, RequestDispatch
<1>4. ASSUME NEW u \in Updaters,
             \/ Sync(u)
             \/ \E i \in Issues : \/ \E status \in Edits : UpdateIssue(u, i, status)
                               \/ \E hidden \in Hiding : HideIssue(u, i, hidden)
      PROVE  DispatchInv'
    BY <1>4, SyncDispatch
<1>5. CASE Environment
    BY <1>5, EnvironmentDispatch
<1>6. CASE UNCHANGED vars
    <2>1. StoreOK' /\ now' >= now /\ UNCHANGED <<holder, task, crashed, run, update>>
        BY <1>6, StoreFacts, Constants DEF StoreOK, vars
    <2>2. \A u \in Updaters : Synced(update[u])'
        BY <2>1 DEF DispatchInv, Synced
    <2> QED BY <2>1, <2>2, OthersDispatch
<1> QED BY <1>1, <1>2, <1>3, <1>4, <1>5, <1>6 DEF Next

-----------------------------------------------------------------------------
(* The second layer.                                                         *)
Keyed(r) == run[r].status # None
KeysKept == \A r \in Runs :
    /\ (run'[r].status # None) = Keyed(r)
    /\ run'[r].key = run[r].key /\ run'[r].scheduled = run[r].scheduled
    /\ run'[r].source = run[r].source

(* A step that adds to no run, and gives the lock to nobody.                 *)
LEMMA CalmKeys ==
    ASSUME KeyInv, KeysKept,
           \A t \in Tasks : task'[t].pc \in Holding =>
               /\ task[t].pc \in Holding
               /\ task'[t].key = task[t].key /\ task'[t].scheduled = task[t].scheduled
               /\ task'[t].source = task[t].source
    PROVE  KeyInv'
<1>1. OncePerKey'
    BY DEF KeyInv, OncePerKey, KeysKept, Keyed
<1>2. \A t \in Tasks : KeyIsFree(t)'
    BY DEF KeyInv, KeyIsFree, SameKey, KeysKept, Keyed
<1> QED BY <1>1, <1>2 DEF KeyInv

LEMMA LockKeys ==
    ASSUME DispatchInv, KeyInv, NEW t \in Tasks, Lock(t)
    PROVE  KeyInv'
<1>1. KeysKept
    BY DEF Lock, KeysKept, Keyed
<1>2. CASE \E r \in Runs : SameKey(t, r)
    <2>1. PICK y \in TaskRecord : task' = [task EXCEPT ![t] = y] /\ y.pc \in {"idle", "begin"}
        BY <1>2, EndedFacts DEF Lock
    <2> QED BY <1>1, <2>1, CalmKeys DEF Holding, DispatchInv, TypeOK
<1>3. CASE ~ \E r \in Runs : SameKey(t, r)
    <2>1. /\ task'[t].key = task[t].key /\ task'[t].scheduled = task[t].scheduled
          /\ task'[t].source = task[t].source
          /\ \A u \in Tasks \ {t} : task'[u] = task[u]
          /\ UNCHANGED run
        BY <1>3, TaskFacts DEF Lock, DispatchInv, TypeOK, TaskRecord
    <2>2. OncePerKey'
        BY <2>1 DEF KeyInv, OncePerKey
    <2>3. \A u \in Tasks : KeyIsFree(u)'
        BY <1>3, <2>1 DEF KeyInv, KeyIsFree, SameKey
    <2> QED BY <2>2, <2>3 DEF KeyInv
<1> QED BY <1>2, <1>3

LEMMA CommitKeys ==
    ASSUME DispatchInv, KeyInv, NEW t \in Tasks, task[t].pc \in Holding,
           NEW status, NEW i, NEW into,
           Commit(t, status, i, into), status # None
    PROVE  KeyInv'
<1> DEFINE q == task[t].run
<1>1. /\ holder = t /\ q \in Runs /\ run \in [Runs -> RunRecord] /\ run[q].status = None
    BY TaskFacts, StoreFacts, Records DEF LockHeld, Sound, Owned, StoreOK
<1>2. /\ run'[q].key = task[t].key /\ run'[q].scheduled = task[t].scheduled
      /\ run'[q].source = task[t].source
      /\ \A r \in Runs \ {q} : run'[r] = run[r]
    BY <1>1 DEF Commit
<1>3. \A u \in Tasks : task'[u].pc \notin Holding
    <2>1. PICK y \in TaskRecord : task' = [task EXCEPT ![t] = y] /\ y.pc \in {"idle", "begin"}
        BY EndedFacts DEF Commit
    <2>2. \A u \in Tasks \ {t} : task[u].pc \notin Holding
        BY <1>1, TaskFacts DEF LockHeld
    <2> QED BY <2>1, <2>2 DEF DispatchInv, TypeOK, Holding
<1>4. \A r \in Runs : ~SameKey(t, r)
    BY DEF KeyInv, KeyIsFree
<1>5. OncePerKey'
    <2> SUFFICES ASSUME NEW r \in Runs, NEW s \in Runs, r # s,
                        run'[r].status # None, run'[s].status # None, run'[r].key # None,
                        run'[r].key = run'[s].key, run'[r].source = run'[s].source,
                        run'[r].scheduled = run'[s].scheduled
                 PROVE  FALSE
        BY DEF OncePerKey
    <2>1. r # q /\ s # q => FALSE
        BY <1>2 DEF KeyInv, OncePerKey
    <2>2. r = q \/ s = q => FALSE
        BY <1>2, <1>4 DEF SameKey
    <2> QED BY <2>1, <2>2
<1> QED BY <1>3, <1>5 DEF KeyInv, KeyIsFree

(* What is about to be dispatched holds nothing yet.                         *)
LEMMA StartKeys ==
    ASSUME DispatchInv, NEW t \in Tasks,
           \/ TickSelect(t) \/ TickClaim(t)
           \/ \E key \in Keys \cup {None}, source \in Sources, scheduled \in Attributed :
                 Request(t, key, source, scheduled)
    PROVE  task'[t].pc \notin Holding /\ \A u \in Tasks \ {t} : task'[u] = task[u]
<1>1. /\ task \in [Tasks -> TaskRecord] /\ task[t] \in TaskRecord
      /\ DOMAIN Idle = DOMAIN task[t]
    BY DEF DispatchInv, TypeOK, TaskRecord, Idle
<1>2. CASE TickSelect(t)
    <2> DEFINE rs == CHOOSE rs \in Batches(Untaken, RunCount) : TRUE
               y == [Idle EXCEPT !.pc = "claim", !.next = trigger.next, !.claimed = ClaimedNext,
                        !.policy = routine.policy, !.todo = rs, !.source = "schedule",
                        !.scheduled = TRUE]
    <2>1. task' = [task EXCEPT ![t] = y]
        BY <1>2 DEF TickSelect
    <2> HIDE DEF rs
    <2>2. y.pc = "claim"
        BY DEF Idle
    <2> HIDE DEF y
    <2> QED BY <1>1, <2>1, <2>2 DEF Holding
<1>3. CASE TickClaim(t)
    <2>1. CASE task' = [task EXCEPT ![t] = Idle]
        BY <1>1, <2>1, Records DEF Holding
    <2>2. ASSUME task' = [task EXCEPT ![t].pc = "begin", ![t].next = 0, ![t].claimed = 0]
          PROVE  task'[t].pc \notin Holding /\ \A u \in Tasks \ {t} : task'[u] = task[u]
        <3> DEFINE y == [task[t] EXCEPT !.pc = "begin", !.next = 0, !.claimed = 0]
        <3>1. task' = [task EXCEPT ![t] = y] /\ y.pc = "begin"
            BY <1>1, <2>2 DEF TaskRecord
        <3> HIDE DEF y
        <3> QED BY <1>1, <3>1 DEF Holding
    <2> QED BY <1>3, <2>1, <2>2 DEF TickClaim
<1>4. ASSUME NEW key \in Keys \cup {None}, NEW source \in Sources, NEW scheduled \in Attributed,
             Request(t, key, source, scheduled)
      PROVE  task'[t].pc \notin Holding /\ \A u \in Tasks \ {t} : task'[u] = task[u]
    <2> DEFINE r == CHOOSE r \in Untaken : TRUE
               y == [Idle EXCEPT !.pc = "begin", !.key = key, !.todo = {r},
                                 !.policy = routine.policy, !.source = source,
                                 !.scheduled = scheduled]
    <2>1. task' = [task EXCEPT ![t] = y]
        BY <1>4 DEF Request
    <2> HIDE DEF r
    <2>2. y.pc = "begin"
        BY DEF Idle
    <2> HIDE DEF y
    <2> QED BY <1>1, <2>1, <2>2 DEF Holding
<1> QED BY <1>2, <1>3, <1>4

(* And its start changes no run.                                             *)
LEMMA KeysFollow ==
    ASSUME KeyInv, NEW t \in Tasks, UNCHANGED run, task'[t].pc \notin Holding,
           \A u \in Tasks \ {t} : task'[u] = task[u]
    PROVE  KeyInv'
BY CalmKeys DEF KeysKept, Keyed

LEMMA KeyStep ==
    ASSUME DispatchInv, KeyInv, [Next]_vars
    PROVE  KeyInv'
<1>1. ASSUME UNCHANGED <<run, task>> PROVE KeyInv'
    BY <1>1, CalmKeys DEF KeysKept, Keyed
<1>2. ASSUME NEW t \in Tasks, Lock(t) PROVE KeyInv'
    BY <1>2, LockKeys
<1>3. ASSUME NEW t \in Tasks, CommitCreated(t) \/ CommitFailed(t) PROVE KeyInv'
    BY <1>3, CommitKeys DEF CommitCreated, CommitFailed, At, Holding, None
<1>4. ASSUME NEW t \in Tasks, LookForLive(t) PROVE KeyInv'
    <2>1. task[t].pc = "look"
        BY <1>4 DEF LookForLive, At
    <2>2. CASE task' = [task EXCEPT ![t].pc = "create"] /\ UNCHANGED run
        BY <2>1, <2>2, TaskFacts, CalmKeys
        DEF KeysKept, Keyed, DispatchInv, TypeOK, TaskRecord, Holding
    <2>3. ASSUME NEW i \in LiveIssues,
                 Commit(t, IF task[t].policy = "skip_if_active" THEN "skipped" ELSE "coalesced",
                        i, issue[i].origin)
          PROVE  KeyInv'
        BY <2>1, <2>3, CommitKeys DEF Holding, None
    <2> QED BY <1>4, <2>2, <2>3 DEF LookForLive
<1>5. ASSUME NEW t \in Tasks, Begin(t) \/ CreateIssue(t) \/ Wake(t) \/ Start(t) PROVE KeyInv'
    <2>1. /\ task'[t].pc \in Holding => task[t].pc \in Holding
          /\ task'[t].key = task[t].key /\ task'[t].scheduled = task[t].scheduled
          /\ task'[t].source = task[t].source
          /\ \A u \in Tasks \ {t} : task'[u] = task[u]
        <3>1. task \in [Tasks -> TaskRecord] /\ task[t] \in TaskRecord
            BY DEF DispatchInv, TypeOK
        <3>2. CASE Begin(t)
            BY <3>1, <3>2 DEF Begin, Holding, TaskRecord
        <3>3. CASE CreateIssue(t)
            <4>1. task[t].pc \in Holding
                BY <3>3 DEF CreateIssue, At, Holding
            <4>2. CASE task' = [task EXCEPT ![t].pc = "fail"]
                BY <3>1, <4>1, <4>2 DEF TaskRecord
            <4>3. ASSUME NEW i \in Issues, task' = [task EXCEPT ![t].issue = i, ![t].pc = "wake"]
                  PROVE  /\ task'[t].key = task[t].key /\ task'[t].scheduled = task[t].scheduled
                         /\ task'[t].source = task[t].source
                         /\ \A u \in Tasks \ {t} : task'[u] = task[u]
                BY <3>1, <4>3 DEF TaskRecord
            <4> QED BY <3>3, <4>1, <4>2, <4>3 DEF CreateIssue
        <3>4. CASE Wake(t) \/ Start(t)
            BY <3>1, <3>4 DEF Wake, Start, At, Holding, TaskRecord
        <3> QED BY <1>5, <3>2, <3>3, <3>4
    <2>2. KeysKept
        BY <1>5 DEF KeysKept, Keyed, Begin, CreateIssue, Wake, Start
    <2> QED BY <2>1, <2>2, CalmKeys
<1>6. ASSUME NEW k \in Ticks, Tick(k) PROVE KeyInv'
    BY <1>6, StartKeys, Constants, KeysFollow DEF Tick, TickSelect, TickClaim
<1>7. ASSUME NEW c \in Callers, NEW key \in Keys \cup {None}, NEW source \in Sources,
             NEW scheduled \in Attributed, Request(c, key, source, scheduled)
      PROVE  KeyInv'
    BY <1>7, StartKeys, Constants, KeysFollow DEF Request
<1>8. ASSUME NEW u \in Updaters, Sync(u) PROVE KeyInv'
    <2>1. KeysKept /\ UNCHANGED task
        <3>1. CASE SyncReads(u)
            BY <3>1 DEF SyncReads, KeysKept, Keyed
        <3>2. CASE SyncWrites(u)
            <4>1. update[u].status # None
                BY <3>2 DEF SyncWrites, DispatchInv, Synced, None
            <4>2. run \in [Runs -> RunRecord]
                BY StoreFacts DEF StoreOK
            <4> QED BY <3>2, <4>1, <4>2 DEF SyncWrites, KeysKept, Keyed, RunRecord
        <3> QED BY <1>8, <3>1, <3>2 DEF Sync
    <2> QED BY <2>1, CalmKeys
<1>9. ASSUME Environment PROVE KeyInv'
    <2>1. CASE Restart
        BY <2>1, Records, CalmKeys DEF Restart, KeysKept, Keyed, Holding
    <2>2. CASE UNCHANGED <<run, task>>
        BY <1>1, <2>2
    <2> QED BY <1>9, <2>1, <2>2 DEF Environment, TimePasses, HeartbeatStarts, HeartbeatEnds,
               CommentWakes, UpdateRoutine, UpdateTrigger
<1>10. ASSUME NEW u \in Updaters, NEW i \in Issues,
              \/ \E status \in Edits : UpdateIssue(u, i, status)
              \/ \E hidden \in Hiding : HideIssue(u, i, hidden)
       PROVE  KeyInv'
    BY <1>1, <1>10 DEF UpdateIssue, HideIssue
<1>11. ASSUME UNCHANGED vars PROVE KeyInv'
    BY <1>1, <1>11 DEF vars
<1> QED BY <1>2, <1>3, <1>4, <1>5, <1>6, <1>7, <1>8, <1>9, <1>10, <1>11
        DEF Next, Dispatch, Statement

-----------------------------------------------------------------------------
(* The third layer.                                                          *)
Same(i) ==
    /\ (issue'[i].status = None) = (issue[i].status = None)
    /\ issue'[i].origin = issue[i].origin /\ issue'[i].policy = issue[i].policy
Calm(i) == Same(i) /\ (Fresh(i)' => Fresh(i)) /\ FirstIsLive(i)'

(* Only the holder of the lock has an issue.                                 *)
LEMMA LinkFacts ==
    ASSUME DispatchInv, NEW t \in Tasks
    PROVE  /\ task[t].issue # None => task[t].pc \in Holding /\ task[t].issue \in Issues
           /\ task[t].pc \in Holding => holder = t /\ task[t].run \in Runs
           /\ task[t].pc \in Holding => \A u \in Tasks \ {t} : task[u].pc \notin Holding
           /\ task[t].pc \in Holding => \A u \in Tasks \ {t} : task[u].issue = None
           /\ task[t].pc \in Locked => task[t].pc \in Holding
<1>1. \A u \in Tasks :
          /\ task[u].issue # None => task[u].pc \in Holding /\ task[u].issue \in Issues
          /\ task[u].pc \in Holding => holder = u /\ task[u].run \in Runs
    BY TaskFacts DEF Sound, NoIssueYet, Holding, LockHeld, TaskRecord
<1> QED BY <1>1 DEF Locked, Holding

(* Claims, ends and comments leave an issue where it is.                     *)
LEMMA ClaimedFacts ==
    ASSUME DispatchInv, IssueInv, NEW i \in Issues
    PROVE  /\ issue' = Claimed(i) /\ issue[i].hb = "queued" => \A j \in Issues : Calm(j)
           /\ \A first \in BOOLEAN : issue' = Woken(i, first) =>
                 /\ \A j \in Issues : Same(j) /\ (j # i => issue'[j] = issue[j])
                 /\ (first => Open(i)) => \A j \in Issues : FirstIsLive(j)'
                 /\ issue[i].hb # None \/ ~first => \A j \in Issues : Calm(j)
<1>1. /\ issue \in [Issues -> IssueRecord] /\ issue[i] \in IssueRecord
      /\ \A j \in Issues : FirstIsLive(j)
    BY StoreFacts DEF StoreOK, IssueInv, FreshInv
<1>2. \A j \in Issues : issue'[j] = issue[j] => Calm(j)
    BY <1>1 DEF Calm, Same, Fresh, FirstIsLive, Open
<1>3. ASSUME issue' = Claimed(i), issue[i].hb = "queued"
      PROVE  \A j \in Issues : Calm(j)
    <2> DEFINE b == issue[i].status # None /\ MayBind(i)
               z == [issue[i] EXCEPT !.hb = "running", !.bound = b]
    <2>1. issue' = [issue EXCEPT ![i] = z]
        BY <1>1, <1>3 DEF Claimed
    <2> HIDE DEF b
    <2>2. /\ z.status = issue[i].status /\ z.origin = issue[i].origin /\ z.policy = issue[i].policy
          /\ z.first = issue[i].first /\ z.hb = "running" /\ z.hidden = issue[i].hidden
        BY <1>1 DEF IssueRecord
    <2> HIDE DEF z
    <2>3. issue'[i] = z /\ \A j \in Issues \ {i} : issue'[j] = issue[j]
        BY <1>1, <2>1
    <2>4. Calm(i)
        BY <1>1, <2>2, <2>3 DEF Calm, Same, Fresh, FirstIsLive, Open, None
    <2> QED BY <1>2, <2>3, <2>4
<1>4. ASSUME NEW first \in BOOLEAN, issue' = Woken(i, first)
      PROVE  /\ \A j \in Issues : Same(j) /\ (j # i => issue'[j] = issue[j])
             /\ (first => Open(i)) => \A j \in Issues : FirstIsLive(j)'
             /\ issue[i].hb # None \/ ~first => \A j \in Issues : Calm(j)
    <2> DEFINE b == issue[i].bound \/ MayBind(i)
               z == [issue[i] EXCEPT !.hb = "queued", !.first = first]
               w == [issue[i] EXCEPT !.bound = b]
    <2>1. CASE issue' = issue
        BY <1>2, <2>1 DEF Calm
    <2>2. CASE issue[i].hb = None /\ issue' = [issue EXCEPT ![i] = z]
        <3>1. /\ z.status = issue[i].status /\ z.origin = issue[i].origin
              /\ z.policy = issue[i].policy /\ z.first = first /\ z.hb = "queued"
              /\ z.hidden = issue[i].hidden
            BY <1>1 DEF IssueRecord
        <3> HIDE DEF z
        <3>2. issue'[i] = z /\ \A j \in Issues \ {i} : issue'[j] = issue[j]
            BY <1>1, <2>2
        <3>3. Same(i) /\ ((first => Open(i)) => FirstIsLive(i)') /\ (~first => Calm(i))
            BY <3>1, <3>2 DEF Same, Calm, Fresh, FirstIsLive, Open, None
        <3> QED BY <1>2, <2>2, <3>2, <3>3 DEF Calm
    <2>3. CASE issue' = [issue EXCEPT ![i] = w]
        <3> HIDE DEF b
        <3>1. /\ w.status = issue[i].status /\ w.origin = issue[i].origin
              /\ w.policy = issue[i].policy /\ w.first = issue[i].first /\ w.hb = issue[i].hb
              /\ w.hidden = issue[i].hidden
            BY <1>1 DEF IssueRecord
        <3> HIDE DEF w
        <3>2. issue'[i] = w /\ \A j \in Issues \ {i} : issue'[j] = issue[j]
            BY <1>1, <2>3
        <3>3. Calm(i)
            BY <1>1, <3>1, <3>2 DEF Calm, Same, Fresh, FirstIsLive, Open
        <3> QED BY <1>2, <3>2, <3>3 DEF Calm
    <2> QED BY <1>1, <1>4, <2>1, <2>2, <2>3 DEF Woken
<1> QED BY <1>3, <1>4

LEMMA EnvironmentIssues ==
    ASSUME DispatchInv, IssueInv, NEW i \in Issues,
           \/ HeartbeatStarts(i) \/ HeartbeatEnds(i) \/ CommentWakes(i)
           \/ \E u \in Updaters : \/ \E status \in Edits : UpdateIssue(u, i, status)
                                \/ \E hidden \in Hiding : HideIssue(u, i, hidden)
    PROVE  \A j \in Issues : Calm(j)
<1>1. /\ issue \in [Issues -> IssueRecord] /\ issue[i] \in IssueRecord
      /\ \A j \in Issues : FirstIsLive(j)
    BY StoreFacts DEF StoreOK, IssueInv, FreshInv
<1>2. \A j \in Issues : issue'[j] = issue[j] => Calm(j)
    BY <1>1 DEF Calm, Same, Fresh, FirstIsLive, Open
<1>3. CASE HeartbeatStarts(i) \/ CommentWakes(i)
    BY <1>3, ClaimedFacts DEF HeartbeatStarts, CommentWakes
<1>4. CASE HeartbeatEnds(i)
    <2> DEFINE z == [issue[i] EXCEPT !.hb = None, !.bound = FALSE, !.first = FALSE]
    <2>1. /\ z.status = issue[i].status /\ z.origin = issue[i].origin /\ z.policy = issue[i].policy
          /\ z.first = FALSE
        BY <1>1 DEF IssueRecord
    <2>2. issue' = [issue EXCEPT ![i] = z]
        BY <1>1, <1>4 DEF HeartbeatEnds
    <2> HIDE DEF z
    <2>3. issue'[i] = z /\ \A j \in Issues \ {i} : issue'[j] = issue[j]
        BY <1>1, <2>2
    <2>4. Calm(i)
        BY <2>1, <2>3 DEF Calm, Same, Fresh, FirstIsLive, Open
    <2> QED BY <1>2, <2>3, <2>4
<1>5. ASSUME NEW u \in Updaters, NEW status \in Edits, UpdateIssue(u, i, status)
      PROVE  \A j \in Issues : Calm(j)
    <2> DEFINE first == issue[i].first /\ status \in {"open", "blocked"}
               z == [issue[i] EXCEPT !.status = status, !.bound = FALSE, !.first = first]
    <2>1. status # None /\ issue[i].status # None
        BY <1>5, RoutinesAssumption DEF UpdateIssue, None
    <2>2. issue' = [issue EXCEPT ![i] = z]
        BY <1>1, <1>5 DEF UpdateIssue
    <2>3. first \in BOOLEAN /\ (first => issue[i].first /\ status \in {"open", "blocked"})
        BY <1>1 DEF IssueRecord
    <2> HIDE DEF first
    <2>4. /\ z.status = status /\ z.origin = issue[i].origin /\ z.policy = issue[i].policy
          /\ z.first = first /\ z.hb = issue[i].hb /\ z.hidden = issue[i].hidden
        BY <1>1 DEF IssueRecord
    <2> HIDE DEF z
    <2>5. issue'[i] = z /\ \A j \in Issues \ {i} : issue'[j] = issue[j]
        BY <1>1, <2>2
    <2>6. Calm(i)
        BY <1>1, <2>1, <2>3, <2>4, <2>5 DEF Calm, Same, Fresh, FirstIsLive, Open
    <2> QED BY <1>2, <2>5, <2>6
<1>6. ASSUME NEW u \in Updaters, NEW hidden \in Hiding, HideIssue(u, i, hidden)
      PROVE  \A j \in Issues : Calm(j)
    <2> DEFINE first == issue[i].first /\ ~hidden
               z == [issue[i] EXCEPT !.hidden = hidden, !.first = first]
    <2>1. issue' = [issue EXCEPT ![i] = z]
        BY <1>1, <1>6 DEF HideIssue
    <2>2. first \in BOOLEAN /\ (first => issue[i].first /\ ~hidden)
        BY <1>1 DEF IssueRecord
    <2> HIDE DEF first
    <2>3. /\ z.status = issue[i].status /\ z.origin = issue[i].origin /\ z.policy = issue[i].policy
          /\ z.first = first /\ z.hb = issue[i].hb /\ z.hidden = hidden
        BY <1>1 DEF IssueRecord
    <2> HIDE DEF z
    <2>4. issue'[i] = z /\ \A j \in Issues \ {i} : issue'[j] = issue[j]
        BY <1>1, <2>1
    <2>5. Calm(i)
        BY <1>1, <2>2, <2>3, <2>4 DEF Calm, Same, Fresh, FirstIsLive, Open
    <2> QED BY <1>2, <2>4, <2>5
<1> QED BY <1>3, <1>4, <1>5, <1>6

(* Steps that leave the tasks alone.                                         *)
LEMMA CalmIssues ==
    ASSUME IssueInv, UNCHANGED <<task, crashed>>, \A j \in Issues : Calm(j),
           \A r \in Runs :
              /\ run'[r].issue = run[r].issue /\ run'[r].into = run[r].into
              /\ run'[r].status \in {"coalesced", "skipped"} => run'[r].status = run[r].status
              /\ run[r].status \in {"issue_created", "completed", "failed"}
                    => run'[r].status \in {"issue_created", "completed", "failed"},
           \A t \in Tasks : task[t].issue \in Issues \cup {None}
    PROVE  IssueInv'
<1>1. ASSUME NEW t \in Tasks PROVE Linked(t)' /\ NoneFresh(t)'
    BY DEF IssueInv, LinkInv, FreshInv, Linked, NoneFresh, Calm, Same
<1>2. ASSUME NEW i \in Issues PROVE Created(i)' /\ FirstIsLive(i)'
    BY DEF IssueInv, LinkInv, Created, OnRecord, Calm, Same
<1>3. ASSUME NEW r \in Runs PROVE Coalesced(r)'
    BY DEF IssueInv, LinkInv, Coalesced, OnRecord
<1>4. \A i, j \in Issues : Fresh(i)' /\ Fresh(j)' => i = j
    BY DEF IssueInv, FreshInv, Calm
<1> QED BY <1>1, <1>2, <1>3, <1>4 DEF IssueInv, LinkInv, FreshInv

(* A task goes on with the issue it has; its first wakeup may make it fresh. *)
LEMMA MoveIssues ==
    ASSUME DispatchInv, IssueInv, UNCHANGED <<run, crashed>>, NEW t \in Tasks, NEW y,
           task' = [task EXCEPT ![t] = y], y.issue = task[t].issue,
           y.issue # None => y.run = task[t].run /\ y.policy = task[t].policy,
           \A j \in Issues : Same(j) /\ FirstIsLive(j)',
           \A j \in Issues : Fresh(j)' =>
              Fresh(j) \/ (j = task[t].issue /\ \A k \in Issues : ~Fresh(k)),
           y.pc \in Locked /\ y.policy # "always_enqueue" => \A j \in Issues : ~Fresh(j)'
    PROVE  IssueInv'
<1>1. /\ task'[t] = y /\ \A u \in Tasks \ {t} : task'[u] = task[u]
      /\ \A u \in Tasks : task[u].issue \in Issues \cup {None}
    BY TaskFacts DEF DispatchInv, TypeOK
<1>2. ASSUME NEW u \in Tasks PROVE Linked(u)'
    BY <1>1, TaskFacts DEF IssueInv, LinkInv, Linked, Same
<1>3. ASSUME NEW u \in Tasks PROVE NoneFresh(u)'
    <2>1. CASE u = t
        BY <1>1, <2>1 DEF NoneFresh
    <2>2. CASE u # t /\ task[u].pc \in Locked
        <3>1. task[t].issue = None
            BY <2>2, LinkFacts
        <3>2. \A j \in Issues : Fresh(j)' => Fresh(j)
            BY <3>1, Constants
        <3> QED BY <1>1, <2>2, <3>2 DEF NoneFresh, IssueInv, FreshInv
    <2> QED BY <1>1, <2>1, <2>2 DEF NoneFresh
<1>4. ASSUME NEW i \in Issues PROVE Created(i)'
    <2>1. \A u \in Tasks : task'[u].issue = task[u].issue
        BY <1>1
    <2>2. \A u \in Tasks : task[u].issue = i => task'[u].run = task[u].run
        BY <1>1, Constants
    <2> QED BY <2>1, <2>2 DEF IssueInv, LinkInv, Created, OnRecord, Same
<1>5. ASSUME NEW r \in Runs PROVE Coalesced(r)'
    BY DEF IssueInv, LinkInv, Coalesced, OnRecord
<1>6. \A i, j \in Issues : Fresh(i)' /\ Fresh(j)' => i = j
    BY DEF IssueInv, FreshInv
<1> QED BY <1>2, <1>3, <1>4, <1>5, <1>6 DEF IssueInv, LinkInv, FreshInv

LEMMA CommitIssues ==
    ASSUME DispatchInv, IssueInv, NEW t \in Tasks, task[t].pc \in Holding,
           NEW status, NEW i, NEW into,
           Commit(t, status, i, into), status # None,
           \A j \in Issues : issue'[j] = issue[j] \/ (j = task[t].issue /\ issue'[j].status = None
                                                      /\ issue'[j].first = FALSE),
           task[t].issue # None =>
              issue'[task[t].issue].status = None \/ (status = "issue_created" /\ i = task[t].issue),
           status \in {"coalesced", "skipped"} =>
              into \in Runs /\ (into \in crashed \/ OnRecord(into, i))
    PROVE  IssueInv'
<1> DEFINE q == task[t].run
           Lasting == {"issue_created", "completed", "failed"}
<1>1. /\ q \in Runs /\ run \in [Runs -> RunRecord] /\ run[q].status = None /\ crashed' = crashed
      /\ \A u \in Tasks \ {t} : task[u].issue = None /\ task[u].pc \notin Holding
    BY TaskFacts, StoreFacts, Records, LinkFacts DEF Sound, Owned, StoreOK, Commit
<1>2. /\ run'[q].status = status /\ run'[q].issue = i /\ run'[q].into = into
      /\ \A r \in Runs \ {q} : run'[r] = run[r]
    BY <1>1 DEF Commit
<1>3. \A u \in Tasks : task'[u].issue = None /\ task'[u].pc \notin Locked
    <2>1. PICK y \in TaskRecord : /\ task' = [task EXCEPT ![t] = y]
                                  /\ y.pc \in {"idle", "begin"} /\ y.issue = None
        BY EndedFacts DEF Commit
    <2> QED BY <1>1, <2>1 DEF DispatchInv, TypeOK, Holding, Locked
<1>4. \A r \in Runs, j \in Issues \cup {i} : OnRecord(r, j) => OnRecord(r, j)' /\ r # q
    BY <1>1, <1>2, Constants DEF OnRecord, None
<1>5. ASSUME NEW j \in Issues PROVE Created(j)'
    <2> SUFFICES ASSUME issue'[j].status # None
                 PROVE  /\ issue'[j].origin \in Runs
                        /\ issue'[j].origin \in crashed \/ OnRecord(issue[j].origin, j)'
        BY <1>1 DEF Created
    <2>1. issue'[j] = issue[j]
        OBVIOUS
    <2>2. CASE issue[j].origin \in crashed \/ OnRecord(issue[j].origin, j)
        BY <1>4, <2>1, <2>2 DEF IssueInv, LinkInv, Created, OnRecord
    <2>3. ASSUME NEW u \in Tasks, task[u].issue = j, task[u].run = issue[j].origin
          PROVE  issue'[j].origin \in Runs /\ OnRecord(issue[j].origin, j)'
        <3>1. u = t
            BY <1>1, <2>3, Constants
        <3>2. status = "issue_created" /\ i = j
            BY <2>3, <3>1, Constants
        <3> QED BY <1>1, <1>2, <2>1, <2>3, <3>1, <3>2 DEF OnRecord
    <2> QED BY <2>1, <2>2, <2>3 DEF IssueInv, LinkInv, Created
<1>6. ASSUME NEW r \in Runs PROVE Coalesced(r)'
    <2>1. CASE r = q
        BY <1>1, <1>2, <1>4, <2>1 DEF Coalesced, OnRecord
    <2>2. CASE r # q
        <3>1. run'[r] = run[r]
            BY <1>2, <2>2
        <3>2. ASSUME run[r].status \in {"coalesced", "skipped"}, OnRecord(run[r].into, run[r].issue),
                     run[r].into \in Runs
              PROVE  OnRecord(run[r].into, run[r].issue)'
            <4>1. run[r].into # q
                BY <1>1, <3>2 DEF OnRecord, None
            <4> QED BY <1>2, <3>1, <3>2, <4>1 DEF OnRecord
        <3> QED BY <1>1, <3>1, <3>2 DEF IssueInv, LinkInv, Coalesced
    <2> QED BY <2>1, <2>2
<1>7. \A j \in Issues : (Fresh(j)' => Fresh(j)) /\ FirstIsLive(j)'
    BY DEF Fresh, Open, FirstIsLive, IssueInv, FreshInv, None
<1>8. \A u \in Tasks : Linked(u)' /\ NoneFresh(u)'
    BY <1>3 DEF Linked, NoneFresh
<1> QED BY <1>5, <1>6, <1>7, <1>8 DEF IssueInv, LinkInv, FreshInv

LEMMA KeptIssues ==
    ASSUME DispatchInv, IssueInv, UNCHANGED issue
    PROVE  /\ \A j \in Issues : Calm(j)
           /\ \A t \in Tasks : task[t].issue \in Issues \cup {None}
BY TaskFacts DEF Calm, Same, Fresh, FirstIsLive, Open, IssueInv, FreshInv

(* A task that starts, or ends without a commit, has no issue.               *)
LEMMA StartIssues ==
    ASSUME DispatchInv, IssueInv, UNCHANGED <<run, issue, crashed>>, NEW t \in Tasks, NEW y,
           task' = [task EXCEPT ![t] = y], y.issue = None, task[t].issue = None, y.pc \notin Locked
    PROVE  IssueInv'
<1>1. \A j \in Issues : Calm(j)
    BY KeptIssues
<1> QED BY <1>1, MoveIssues DEF Calm

LEMMA TickIssues ==
    ASSUME DispatchInv, IssueInv, NEW t \in Tasks,
           \/ TickSelect(t) \/ TickClaim(t)
           \/ \E key \in Keys \cup {None}, source \in Sources, scheduled \in Attributed :
                 Request(t, key, source, scheduled)
    PROVE  IssueInv'
<1>1. /\ task[t] \in TaskRecord /\ task \in [Tasks -> TaskRecord] /\ task[t].issue = None
      /\ UNCHANGED <<run, issue, crashed>>
    BY TaskFacts DEF TickSelect, TickClaim, Request, At, Sound, NoIssueYet, DispatchInv, TypeOK
<1>2. PICK y : task' = [task EXCEPT ![t] = y] /\ y.issue = None
    <2>1. CASE TickSelect(t)
        <3> DEFINE rs == CHOOSE rs \in Batches(Untaken, RunCount) : TRUE
                   y == [Idle EXCEPT !.pc = "claim", !.next = trigger.next,
                            !.claimed = ClaimedNext, !.policy = routine.policy, !.todo = rs,
                            !.source = "schedule", !.scheduled = TRUE]
        <3>1. task' = [task EXCEPT ![t] = y]
            BY <2>1 DEF TickSelect
        <3> HIDE DEF rs
        <3>2. y.issue = None
            BY DEF Idle
        <3> QED BY <3>1, <3>2
    <2>2. CASE TickClaim(t)
        <3>1. CASE task' = [task EXCEPT ![t] = Idle]
            BY <3>1, Records
        <3>2. ASSUME task' = [task EXCEPT ![t].pc = "begin", ![t].next = 0, ![t].claimed = 0]
              PROVE  \E y : task' = [task EXCEPT ![t] = y] /\ y.issue = None
            <4> DEFINE y == [task[t] EXCEPT !.pc = "begin", !.next = 0, !.claimed = 0]
            <4>1. task' = [task EXCEPT ![t] = y] /\ y.issue = None
                BY <1>1, <3>2 DEF TaskRecord
            <4> HIDE DEF y
            <4> QED BY <4>1
        <3> QED BY <2>2, <3>1, <3>2 DEF TickClaim
    <2>3. ASSUME NEW key \in Keys \cup {None}, NEW source \in Sources,
                 NEW scheduled \in Attributed, Request(t, key, source, scheduled)
          PROVE  \E y : task' = [task EXCEPT ![t] = y] /\ y.issue = None
        <3> DEFINE r == CHOOSE r \in Untaken : TRUE
                   y == [Idle EXCEPT !.pc = "begin", !.key = key, !.todo = {r},
                                     !.policy = routine.policy, !.source = source,
                                     !.scheduled = scheduled]
        <3>1. task' = [task EXCEPT ![t] = y]
            BY <2>3 DEF Request
        <3> HIDE DEF r
        <3>2. y.issue = None
            BY DEF Idle
        <3> QED BY <3>1, <3>2
    <2> QED BY <2>1, <2>2, <2>3
<1>3. y.pc \notin Locked
    <2>1. task'[t].pc \notin Holding
        BY StartKeys
    <2> QED BY <1>1, <1>2, <2>1 DEF Holding, Locked
<1> QED BY <1>1, <1>2, <1>3, StartIssues

LEMMA BeginIssues ==
    ASSUME DispatchInv, IssueInv, NEW t \in Tasks, Begin(t) \/ Lock(t)
    PROVE  IssueInv'
<1>1. /\ task[t] \in TaskRecord /\ task \in [Tasks -> TaskRecord] /\ task[t].issue = None
      /\ UNCHANGED <<run, issue, crashed>>
    BY TaskFacts DEF Begin, Lock, At, Sound, NoIssueYet, DispatchInv, TypeOK
<1>2. CASE Begin(t)
    <2> DEFINE r == CHOOSE r \in task[t].todo : TRUE
               y == [task[t] EXCEPT !.run = r, !.pc = "lock"]
    <2>1. task' = [task EXCEPT ![t] = y]
        BY <1>1, <1>2 DEF Begin
    <2> HIDE DEF r
    <2>2. y.issue = None /\ y.pc \notin Locked
        BY <1>1 DEF TaskRecord, Locked
    <2> HIDE DEF y
    <2> QED BY <1>1, <2>1, <2>2, StartIssues
<1>3. CASE Lock(t) /\ task' = Ended(t)
    BY <1>1, <1>3, EndedFacts, StartIssues DEF Locked
<1>4. CASE Lock(t) /\ task' # Ended(t)
    <2> DEFINE n == IF task[t].scheduled THEN NextTick(now) ELSE 0
               y == [task[t] EXCEPT !.pc = "look", !.next = n]
    <2>1. task' = [task EXCEPT ![t] = y]
        BY <1>1, <1>4 DEF Lock
    <2> HIDE DEF n
    <2>2. y.issue = None /\ y.pc \notin Locked
        BY <1>1 DEF TaskRecord, Locked
    <2> HIDE DEF y
    <2> QED BY <1>1, <2>1, <2>2, StartIssues
<1> QED BY <1>2, <1>3, <1>4

LEMMA LookIssues ==
    ASSUME DispatchInv, IssueInv, NEW t \in Tasks, LookForLive(t)
    PROVE  IssueInv'
<1>1. /\ task[t].pc = "look" /\ task[t].issue = None /\ issue \in [Issues -> IssueRecord]
      /\ task[t] \in TaskRecord /\ task \in [Tasks -> TaskRecord]
      /\ \A j \in Issues : Calm(j)
    BY TaskFacts, StoreFacts, KeptIssues
    DEF LookForLive, Commit, At, Sound, NoIssueYet, StoreOK, DispatchInv, TypeOK
<1>2. ASSUME NEW i \in LiveIssues,
             Commit(t, IF task[t].policy = "skip_if_active" THEN "skipped" ELSE "coalesced",
                    i, issue[i].origin),
             UNCHANGED issue
      PROVE  IssueInv'
    <2>1. i \in Issues /\ issue[i].status # None
        BY DEF LiveIssues, Open, None
    <2>2. \A u \in Tasks : task[u].issue # i
        BY <1>1, <2>1, LinkFacts, Constants DEF Holding
    <2>3. issue[i].origin \in Runs /\ (issue[i].origin \in crashed \/ OnRecord(issue[i].origin, i))
        BY <2>1, <2>2 DEF IssueInv, LinkInv, Created
    <2> QED BY <1>1, <1>2, <2>3, CommitIssues DEF Holding, None
<1>3. ASSUME task' = [task EXCEPT ![t].pc = "create"], UNCHANGED <<run, issue, crashed>>,
             ~(LiveIssues # {} /\ task[t].policy # "always_enqueue")
      PROVE  IssueInv'
    <2> DEFINE y == [task[t] EXCEPT !.pc = "create"]
    <2>1. /\ task' = [task EXCEPT ![t] = y] /\ y.issue = None /\ y.run = task[t].run
          /\ y.policy = task[t].policy
        BY <1>1, <1>3 DEF TaskRecord
    <2> HIDE DEF y
    <2>2. \A j \in Issues : Fresh(j) => j \in LiveIssues
        BY DEF LiveIssues, Fresh, FirstIsLive, IssueInv, FreshInv
    <2>3. y.policy # "always_enqueue" => \A j \in Issues : ~Fresh(j)'
        BY <1>1, <1>3, <2>1, <2>2 DEF Calm
    <2> QED BY <1>1, <1>3, <2>1, <2>3, MoveIssues DEF Calm
<1> QED BY <1>2, <1>3 DEF LookForLive

LEMMA CreateIssues ==
    ASSUME DispatchInv, IssueInv, NEW t \in Tasks, CreateIssue(t)
    PROVE  IssueInv'
<1>1. /\ task[t].pc = "create" /\ task[t].issue = None /\ issue \in [Issues -> IssueRecord]
      /\ task[t].pc \in Holding /\ task[t].pc \in Locked
      /\ task[t] \in TaskRecord /\ task \in [Tasks -> TaskRecord]
      /\ UNCHANGED <<run, crashed>>
    BY TaskFacts, StoreFacts
    DEF CreateIssue, At, Sound, NoIssueYet, StoreOK, DispatchInv, TypeOK, Holding, Locked
<1>2. ASSUME NEW i \in Issues, issue[i] = NoIssue,
             issue' = [issue EXCEPT ![i] = [NoIssue EXCEPT !.status = "open",
                            !.origin = task[t].run, !.policy = task[t].policy]],
             task' = [task EXCEPT ![t].issue = i, ![t].pc = "wake"]
      PROVE  IssueInv'
    <2> DEFINE z == [NoIssue EXCEPT !.status = "open", !.origin = task[t].run,
                                    !.policy = task[t].policy]
               y == [task[t] EXCEPT !.issue = i, !.pc = "wake"]
    <2>1. z.status = "open" /\ z.origin = task[t].run /\ z.policy = task[t].policy /\ ~z.first
        BY DEF NoIssue
    <2>2. /\ y.issue = i /\ y.pc = "wake" /\ y.run = task[t].run /\ y.policy = task[t].policy
          /\ task' = [task EXCEPT ![t] = y]
        BY <1>1, <1>2 DEF TaskRecord
    <2>3. issue' = [issue EXCEPT ![i] = z]
        BY <1>2
    <2> HIDE DEF z, y
    <2>4. issue'[i] = z /\ \A j \in Issues \ {i} : issue'[j] = issue[j]
        BY <1>1, <2>3
    <2>5. task'[t] = y /\ \A u \in Tasks \ {t} : task'[u] = task[u] /\ task[u].issue = None
        BY <1>1, <2>2, LinkFacts
    <2>6. task[t].run \in Runs /\ \A u \in Tasks \ {t} : task[u].pc \notin Locked
        BY <1>1, LinkFacts
    <2>7. \A j \in Issues : Fresh(j)' => Fresh(j)
        BY <2>1, <2>4 DEF Fresh, Open
    <2>8. ASSUME NEW u \in Tasks PROVE Linked(u)' /\ NoneFresh(u)'
        BY <1>1, <2>1, <2>2, <2>4, <2>5, <2>6, <2>7 DEF Linked, NoneFresh, None, IssueInv, FreshInv
    <2>9. ASSUME NEW j \in Issues PROVE Created(j)' /\ FirstIsLive(j)'
        <3>1. CASE j = i
            BY <2>1, <2>2, <2>4, <2>5, <2>6, <3>1 DEF Created, FirstIsLive
        <3>2. CASE j # i
            BY <1>1, <2>4, <2>5, <3>2, Constants
            DEF Created, OnRecord, FirstIsLive, Open, IssueInv, LinkInv, FreshInv
        <3> QED BY <3>1, <3>2
    <2>10. \A r \in Runs : Coalesced(r)'
        BY <1>1 DEF Coalesced, OnRecord, IssueInv, LinkInv
    <2>11. \A j, k \in Issues : Fresh(j)' /\ Fresh(k)' => j = k
        BY <2>7 DEF IssueInv, FreshInv
    <2> QED BY <2>8, <2>9, <2>10, <2>11 DEF IssueInv, LinkInv, FreshInv
<1>3. CASE task' = [task EXCEPT ![t].pc = "fail"] /\ UNCHANGED issue
    <2> DEFINE y == [task[t] EXCEPT !.pc = "fail"]
    <2>1. task' = [task EXCEPT ![t] = y] /\ y.issue = None /\ y.pc \notin Locked
        BY <1>1, <1>3 DEF TaskRecord, Locked
    <2> HIDE DEF y
    <2> QED BY <1>1, <1>3, <2>1, StartIssues
<1> QED BY <1>2, <1>3 DEF CreateIssue

LEMMA WakeIssues ==
    ASSUME DispatchInv, IssueInv, NEW t \in Tasks, Wake(t) \/ Start(t)
    PROVE  IssueInv'
<1> PICK i \in Issues : i = task[t].issue
    BY TaskFacts DEF Wake, Start, At, Sound, Issueing
<1>1. /\ task[t].pc \in {"wake", "start"} /\ i = task[t].issue /\ i # None /\ Linked(t)
      /\ task[t] \in TaskRecord /\ task \in [Tasks -> TaskRecord]
      /\ UNCHANGED <<run, crashed>> /\ Open(i) \in BOOLEAN
    BY TaskFacts, Constants
    DEF Wake, Start, At, DispatchInv, TypeOK, IssueInv, LinkInv, Open
<1>2. PICK pc \in {"start", "commit", "fail"} : task' = [task EXCEPT ![t].pc = pc]
    BY DEF Wake, Start
<1> DEFINE y == [task[t] EXCEPT !.pc = pc]
<1>3. /\ task' = [task EXCEPT ![t] = y] /\ y.issue = i /\ y.run = task[t].run
      /\ y.policy = task[t].policy /\ y.pc \notin Locked
    BY <1>1, <1>2 DEF TaskRecord, Locked
<1> HIDE DEF y
<1>4. CASE \A j \in Issues : Calm(j)
    BY <1>1, <1>3, <1>4, MoveIssues DEF Calm
<1>5. CASE Wake(t) /\ issue' = Woken(i, Open(i)) /\ issue[i].hb = None
    <2>1. \A j \in Issues : Same(j) /\ FirstIsLive(j)' /\ (j # i => issue'[j] = issue[j])
        BY <1>1, <1>5, ClaimedFacts
    <2>2. \A j \in Issues \ {i} : Fresh(j)' => Fresh(j)
        BY <2>1 DEF Fresh, Open
    <2>3. Fresh(i)' => \A k \in Issues : ~Fresh(k)
        <3>1. task[t].pc \in Locked
            BY <1>5 DEF Wake, At, Locked
        <3>2. Fresh(i)' => task[t].policy # "always_enqueue"
            BY <1>1, <2>1 DEF Fresh, Same, Linked
        <3> QED BY <3>1, <3>2 DEF IssueInv, FreshInv, NoneFresh
    <2> QED BY <1>1, <1>3, <2>1, <2>2, <2>3, MoveIssues
<1>6. CASE UNCHANGED issue
    BY <1>4, <1>6, KeptIssues
<1>7. CASE Wake(t) /\ issue' = Woken(i, Open(i)) /\ issue[i].hb # None
    BY <1>1, <1>4, <1>7, ClaimedFacts
<1>8. CASE Start(t) /\ issue[i].hb = "queued" /\ issue' = Claimed(i)
    BY <1>1, <1>4, <1>8, ClaimedFacts
<1> QED BY <1>5, <1>6, <1>7, <1>8 DEF Wake, Start

LEMMA CommitsIssues ==
    ASSUME DispatchInv, IssueInv, NEW t \in Tasks, CommitCreated(t) \/ CommitFailed(t)
    PROVE  IssueInv'
<1>1. /\ task[t].pc \in Holding /\ task[t].issue \in Issues \cup {None}
      /\ issue \in [Issues -> IssueRecord]
    BY TaskFacts, StoreFacts DEF CommitCreated, CommitFailed, At, Holding, StoreOK
<1>2. CASE CommitCreated(t)
    <2>1. Commit(t, "issue_created", task[t].issue, None) /\ UNCHANGED issue
        BY <1>2 DEF CommitCreated
    <2> QED BY <1>1, <2>1, CommitIssues DEF None
<1>3. CASE CommitFailed(t)
    <2> DEFINE i == task[t].issue
               z == [NoIssue EXCEPT !.hb = issue[i].hb]
    <2>1. z.status = None /\ z.first = FALSE
        BY DEF NoIssue
    <2>2. /\ i = None => issue' = issue
          /\ i # None => issue' = [issue EXCEPT ![i] = z]
        BY <1>3 DEF CommitFailed
    <2> HIDE DEF z
    <2>3. \A j \in Issues : issue'[j] = issue[j] \/ (j = i /\ issue'[j].status = None
                                                      /\ issue'[j].first = FALSE)
        BY <1>1, <2>1, <2>2
    <2>4. i # None => issue'[i].status = None
        BY <1>1, <2>1, <2>2
    <2>5. Commit(t, "failed", None, None)
        BY <1>3 DEF CommitFailed
    <2> QED BY <1>1, <2>3, <2>4, <2>5, CommitIssues DEF None
<1> QED BY <1>2, <1>3

LEMMA RestartIssues ==
    ASSUME DispatchInv, IssueInv, Restart
    PROVE  IssueInv'
<1>1. /\ \A t \in Tasks : task'[t] = Idle
      /\ crashed \subseteq crashed' /\ UNCHANGED <<run, issue>>
      /\ \A t \in Tasks : task[t].issue # None => task[t].run \in crashed'
    BY DEF Restart
<1>2. \A t \in Tasks : Linked(t)' /\ NoneFresh(t)'
    BY <1>1, Records DEF Linked, NoneFresh, Locked
<1>3. \A i \in Issues : Created(i)' /\ FirstIsLive(i)' /\ (Fresh(i)' => Fresh(i))
    BY <1>1, Constants
    DEF Created, OnRecord, FirstIsLive, Fresh, Open, IssueInv, LinkInv, FreshInv
<1>4. \A r \in Runs : Coalesced(r)'
    BY <1>1 DEF Coalesced, OnRecord, IssueInv, LinkInv
<1> QED BY <1>2, <1>3, <1>4 DEF IssueInv, LinkInv, FreshInv

LEMMA SyncIssues ==
    ASSUME DispatchInv, IssueInv, NEW u \in Updaters, SyncWrites(u)
    PROVE  IssueInv'
<1> DEFINE r == update[u].run
<1>1. /\ update[u].status \in {"completed", "failed"} /\ run \in [Runs -> RunRecord]
      /\ UNCHANGED <<task, crashed, issue>>
      /\ \A t \in Tasks : task[t].issue \in Issues \cup {None}
    BY StoreFacts, TaskFacts DEF SyncWrites, DispatchInv, Synced, StoreOK
<1>2. \A j \in Issues : Calm(j)
    BY <1>1, KeptIssues
<1>3. ASSUME NEW q \in Runs
      PROVE  /\ run'[q].issue = run[q].issue /\ run'[q].into = run[q].into
             /\ run'[q].status \in {"coalesced", "skipped"} => run'[q].status = run[q].status
             /\ run[q].status \in {"issue_created", "completed", "failed"}
                   => run'[q].status \in {"issue_created", "completed", "failed"}
    <2> DEFINE z == [run[r] EXCEPT !.status = update[u].status]
    <2>1. run' = run \/ run' = [run EXCEPT ![r] = z]
        BY DEF SyncWrites
    <2>2. r \in Runs => z.issue = run[r].issue /\ z.into = run[r].into /\ z.status = update[u].status
        BY <1>1 DEF RunRecord
    <2> HIDE DEF z
    <2> QED BY <1>1, <2>1, <2>2
<1> QED BY <1>1, <1>2, <1>3, CalmIssues

LEMMA IssueStep ==
    ASSUME DispatchInv, IssueInv, [Next]_vars
    PROVE  IssueInv'
<1>1. ASSUME UNCHANGED <<run, task, crashed>>, \A j \in Issues : Calm(j) PROVE IssueInv'
    BY <1>1, CalmIssues, TaskFacts
<1>2. ASSUME UNCHANGED <<run, task, crashed, issue>> PROVE IssueInv'
    BY <1>1, <1>2, KeptIssues
<1>3. ASSUME NEW t \in Tasks, Dispatch(t) PROVE IssueInv'
    BY <1>3, BeginIssues, LookIssues, CreateIssues, WakeIssues, CommitsIssues
       DEF Dispatch, Statement
<1>4. ASSUME NEW k \in Ticks, Tick(k) PROVE IssueInv'
    BY <1>4, TickIssues, Constants DEF Tick
<1>5. ASSUME NEW c \in Callers, NEW key \in Keys \cup {None}, NEW source \in Sources,
             NEW scheduled \in Attributed, Request(c, key, source, scheduled)
      PROVE  IssueInv'
    BY <1>5, TickIssues, Constants
<1>6. ASSUME NEW u \in Updaters, NEW i \in Issues,
             \/ \E status \in Edits : UpdateIssue(u, i, status)
             \/ \E hidden \in Hiding : HideIssue(u, i, hidden)
      PROVE  IssueInv'
    <2>1. UNCHANGED <<run, task, crashed>>
        BY <1>6 DEF UpdateIssue, HideIssue
    <2> QED BY <1>1, <1>6, <2>1, EnvironmentIssues
<1>7. ASSUME NEW u \in Updaters, Sync(u) PROVE IssueInv'
    <2>1. CASE SyncReads(u)
        BY <1>2, <2>1 DEF SyncReads
    <2> QED BY <1>7, <2>1, SyncIssues DEF Sync
<1>8. CASE Environment
    <2>1. ASSUME NEW i \in Issues, HeartbeatStarts(i) \/ HeartbeatEnds(i) \/ CommentWakes(i)
          PROVE  IssueInv'
        <3>1. UNCHANGED <<run, task, crashed>>
            BY <2>1 DEF HeartbeatStarts, HeartbeatEnds, CommentWakes
        <3> QED BY <1>1, <2>1, <3>1, EnvironmentIssues
    <2>2. CASE UNCHANGED <<run, task, crashed, issue>>
        BY <1>2, <2>2
    <2> QED BY <1>8, <2>1, <2>2, RestartIssues
            DEF Environment, TimePasses, UpdateRoutine, UpdateTrigger
<1>9. CASE UNCHANGED vars
    BY <1>2, <1>9 DEF vars
<1> QED BY <1>3, <1>4, <1>5, <1>6, <1>7, <1>8, <1>9 DEF Next

-----------------------------------------------------------------------------
LEMMA InitInv == Init => Inv
<1> SUFFICES ASSUME Init PROVE Inv
    OBVIOUS
<1>1. /\ \A t \in Tasks : task[t] = Idle
      /\ \A u \in Updaters : update[u] = NoUpdate
      /\ \A r \in Runs : run[r] = NoRun
      /\ \A i \in Issues : issue[i] = NoIssue
    BY DEF Init
<1>2. TypeOK
    <2>1. 0 \in 0 .. MaxTime /\ 1 \in 0 .. MaxTime + 1
        BY Constants
    <2>2. \A x \in {"active"} : x \in Statuses
        BY RoutinesAssumption
    <2>3. routine \in [status : Statuses, policy : Policies, catchUp : CatchUpPolicies]
        BY <2>2 DEF Init
    <2> QED BY <2>1, <2>3, Records DEF Init, TypeOK
<1>3. DispatchInv
    BY <1>1, <1>2, Records
    DEF DispatchInv, Disjoint, Sound, Owned, LockHeld, Synced, Holding, Issueing
<1>4. KeyInv
    BY <1>1, Records DEF KeyInv, OncePerKey, KeyIsFree, Holding
<1>5. IssueInv
    BY <1>1, Records, Constants
    DEF IssueInv, LinkInv, FreshInv, Linked, Created, Coalesced, NoneFresh, FirstIsLive, Fresh,
        Open, Locked, None
<1> QED BY <1>3, <1>4, <1>5 DEF Inv

LEMMA Invariance == Spec => []Inv
<1>1. Inv /\ [Next]_vars => Inv'
    BY DispatchStep, KeyStep, IssueStep DEF Inv
<1> QED BY <1>1, InitInv, PTL DEF Spec

(* The rows, the lock, and every tick, request and issue update in progress  *)
(* stay of their types.                                                      *)
THEOREM TypeCorrect == Spec => []TypeOK
<1>1. Inv => TypeOK
    BY DEF Inv, DispatchInv
<1> QED BY <1>1, Invariance, PTL

(* A request that is sent twice with its idempotency key leaves one run,     *)
(* however the two dispatches overlap, and over restarts: the run of the key *)
(* is looked for, and committed, under the row lock of the routine.          *)
THEOREM OneRunPerKey == Spec => []OncePerKey
<1>1. Inv => OncePerKey
    BY DEF Inv, KeyInv
<1> QED BY <1>1, Invariance, PTL

(* Under a policy other than always_enqueue, no two open issues of the       *)
(* routine have the runs that their dispatches have queued for them.         *)
THEOREM OneIssueIsFresh == Spec => []OneFreshIssue
<1>1. Inv => OneFreshIssue
    <2> SUFFICES ASSUME Inv PROVE OneFreshIssue
        OBVIOUS
    <2> DEFINE F == {i \in Issues : Fresh(i)}
    <2>1. \A i, j \in F : i = j
        BY DEF Inv, IssueInv, FreshInv
    <2>2. Cardinality(F) <= 1
        <3>1. CASE F = {}
            BY <3>1, FS_EmptySet
        <3>2. ASSUME NEW i \in F PROVE Cardinality(F) <= 1
            <4>1. F = {i}
                BY <2>1
            <4>2. Cardinality({i}) = 1
                BY FS_Singleton
            <4> QED BY <4>1, <4>2
        <3> QED BY <3>1, <3>2
    <2> QED BY <2>2 DEF OneFreshIssue, Fresh
<1> QED BY <1>1, Invariance, PTL

(* The run that a coalesced or skipped run points at has created the issue   *)
(* that both are linked to, unless a restart has lost it.                    *)
THEOREM CoalescedRunsExist == Spec => []CoalescedIntoCreated
<1>1. Inv => CoalescedIntoCreated
    BY DEF Inv, IssueInv, LinkInv, Coalesced, OnRecord, CoalescedIntoCreated
<1> QED BY <1>1, Invariance, PTL

=============================================================================
