--------------------------- MODULE WorkspaceProofs ---------------------------
(***************************************************************************)
(* Proofs about WorkspaceRuntime, for all runs, archive requests, services, *)
(* configurations and bounds: the types, that reuse keys lead to live       *)
(* services, that leased services are spared, and that leases end with       *)
(* their runs.                                                              *)
(***************************************************************************)
EXTENDS WorkspaceRuntime, TLAPS

(* What a task knows in each place, and, for a run, its list of leases.      *)
Sound(x) == x.pc \in {"starting", "acquiring", "releasing", "stopping"} => x.id \in Ids
Phase(x, ls) ==
    /\ x.pc \in {"idle", "ensure", "starting", "acquiring", "using"} => x.ids = {}
    /\ x.pc \in {"idle", "release", "releasing", "stopping"} => ls = {}

(* A record whose process is starting is not live, and nobody else's.        *)
Starting(t) == task[t].pc = "starting" =>
    ~record[task[t].id].live /\ \A u \in Tasks \ {t} : task[u].id # task[t].id

(* A timer is set while nobody has leased the service.                       *)
Timed(z) == z.idleTimer => z.live /\ z.leasedBy = {}

(* A run that has leased a service has it on a list, or is about to.         *)
HeldBy(x, ls, i) == i \in ls \cup x.ids \/ (x.pc = "acquiring" /\ x.id = i)
Held(r, i)       == r \in record[i].leasedBy => HeldBy(task[r], leases[r], i)

Inv ==
    /\ TypeOK /\ KeyIsLive
    /\ \A t \in Tasks : Sound(task[t])
    /\ \A r \in Runs : Phase(task[r], leases[r])
    /\ \A t \in Tasks : Starting(t)
    /\ \A x \in Ids : Timed(record[x])
    /\ failures = 0 => \A x \in Ids, r \in Runs : Held(r, x)

-----------------------------------------------------------------------------
StoreOK ==
    /\ record \in [Ids -> ServiceRecord]
    /\ reuse \in [Services -> Ids \cup {None}]
    /\ leases \in [Runs -> SUBSET Ids]
    /\ reconciles \in BOOLEAN
    /\ failures \in 0 .. MaxFailures

(* What may stop a leased service.                                           *)
Exempt(x) ==
    \/ ~record[x].live \/ record[x].leasedBy = {}
    \/ ChildExits(x) \/ (\E a \in Archivers : ArchiveStops(a, x)) \/ Restart
Spared == \A x \in Ids : Exempt(x) \/ record'[x].live

(* A step of t leaves a record as live as it was, with t's lease at most one *)
(* more; or takes it away together with its key.                             *)
Kept(x, t) ==
    /\ record'[x].live = record[x].live /\ record'[x].config = record[x].config
    /\ record'[x].leasedBy \subseteq record[x].leasedBy \cup {t}
    /\ Timed(record'[x])
Dead(x) ==
    /\ ~record'[x].live /\ record'[x].leasedBy = {} /\ ~record'[x].idleTimer
    /\ \A s \in Services : reuse'[s] # None => reuse'[s] # x
    /\ Exempt(x)
KeysCalm    == \A s \in Services : reuse'[s] \in {reuse[s], None}
FailsCalm   == failures' = 0 => failures = 0
RecordsCalm(t) == KeysCalm /\ FailsCalm /\ \A x \in Ids : Kept(x, t) \/ Dead(x)

LEMMA Records ==
    /\ Idle \in TaskRecord /\ Idle.pc = "idle" /\ Idle.ids = {} /\ Idle.id = None
    /\ NoRecord \in ServiceRecord /\ ~NoRecord.live /\ NoRecord.leasedBy = {}
    /\ ~NoRecord.idleTimer
BY DEF Idle, TaskRecord, NoRecord, ServiceRecord, None

LEMMA StoreFacts ==
    ASSUME Inv
    PROVE  /\ StoreOK /\ MaxFailures \in Nat /\ failures \in Nat
           /\ \A x \in Ids : record[x] \in ServiceRecord
           /\ \A x \in Ids : Timed(record[x])
           /\ \A r \in Runs : leases[r] \subseteq Ids
BY WorkspaceAssumption DEF Inv, TypeOK, StoreOK

LEMMA TaskFacts ==
    ASSUME Inv, NEW t \in Tasks
    PROVE  /\ task \in [Tasks -> TaskRecord] /\ task[t] \in TaskRecord /\ Sound(task[t])
           /\ task[t].ids \subseteq Ids /\ task[t].id \in Ids \cup {None}
           /\ t \in Runs => Phase(task[t], leases[t])
BY DEF Inv, TypeOK, TaskRecord

LEMMA RunIsTask == Runs \subseteq Tasks /\ Archivers \subseteq Tasks
BY DEF Tasks

LEMMA CalmRecords ==
    ASSUME Inv, NEW t, RecordsCalm(t)
    PROVE  /\ KeyIsLive' /\ (\A x \in Ids : Timed(record[x])') /\ Spared
           /\ \A x \in Ids : record'[x].leasedBy \subseteq record[x].leasedBy \cup {t}
<1>1. KeyIsLive'
    <2>1. ASSUME NEW s \in Services, NEW x \in Ids, reuse'[s] = x, x # None
          PROVE  record'[x].live /\ Names(x, s)'
        <3>1. reuse[s] = x
            BY <2>1 DEF RecordsCalm, KeysCalm
        <3>2. Kept(x, t)
            BY <2>1 DEF RecordsCalm, Dead
        <3> QED BY <2>1, <3>1, <3>2 DEF Inv, KeyIsLive, Names, Kept
    <2>2. \A s \in Services : reuse'[s] \in Ids \cup {None}
        BY StoreFacts DEF RecordsCalm, KeysCalm, StoreOK
    <2> QED BY <2>1, <2>2 DEF KeyIsLive, Names
<1>2. \A x \in Ids : Timed(record[x])'
    BY DEF RecordsCalm, Kept, Dead, Timed
<1>3. Spared
    BY DEF RecordsCalm, Kept, Dead, Spared, Exempt
<1>4. \A x \in Ids : record'[x].leasedBy \subseteq record[x].leasedBy \cup {t}
    BY DEF RecordsCalm, Kept, Dead
<1> QED BY <1>1, <1>2, <1>3, <1>4

(* A step of one task; it refers to what it did, to what is live, or to what *)
(* nobody referred to.                                                       *)
Named(t, y) ==
    /\ y.id \in {task[t].id, None} \/ (y.id \in Ids /\ record[y.id].live) \/ y.id \in Free
    /\ y.pc = "starting" => y.id \in Free /\ ~record'[y.id].live

LEMMA MoveInv ==
    ASSUME Inv, StoreOK', NEW t \in Tasks, NEW y \in TaskRecord, task' = [task EXCEPT ![t] = y],
           Sound(y), t \in Runs => Phase(y, leases'[t]),
           \A r \in Runs \ {t} : leases'[r] = leases[r],
           Named(t, y), \A x \in Ids : record'[x].live => record[x].live \/ x = task[t].id,
           KeyIsLive', \A x \in Ids : Timed(record[x])', FailsCalm,
           \A x \in Ids : record'[x].leasedBy \subseteq record[x].leasedBy \cup {t},
           failures' = 0 /\ t \in Runs => \A x \in Ids :
               t \in record'[x].leasedBy => HeldBy(y, leases'[t], x)
    PROVE  Inv'
<1>1. /\ task' \in [Tasks -> TaskRecord] /\ task'[t] = y
      /\ \A u \in Tasks \ {t} : task'[u] = task[u]
    BY TaskFacts
<1>2. TypeOK' /\ \A u \in Tasks : Sound(task[u])'
    BY <1>1, TaskFacts DEF TypeOK, StoreOK, Sound
<1>3. ASSUME NEW r \in Runs PROVE Phase(task'[r], leases'[r])
    <2>1. r \in Tasks
        BY RunIsTask
    <2> QED BY <1>1, <2>1, TaskFacts DEF Phase
<1>4. ASSUME failures' = 0, NEW x \in Ids, NEW r \in Runs PROVE Held(r, x)'
    <2>1. CASE r = t
        BY <1>1, <1>4, <2>1 DEF Held, HeldBy
    <2>2. CASE r # t
        <3>1. task'[r] = task[r] /\ leases'[r] = leases[r] /\ Held(r, x)
            BY <1>1, <1>4, <2>2, RunIsTask DEF FailsCalm, Inv
        <3> QED BY <2>2, <3>1 DEF Held, HeldBy
    <2> QED BY <2>1, <2>2
<1>5. ASSUME NEW u \in Tasks, task'[u].pc = "starting"
      PROVE  ~record'[task'[u].id].live /\ \A v \in Tasks \ {u} : task'[v].id # task'[u].id
    <2>1. CASE u = t
        <3>1. y.id \in Free /\ ~record'[y.id].live
            BY <1>1, <1>5, <2>1 DEF Named
        <3>2. \A v \in Tasks : task[v].id # y.id
            BY <3>1 DEF Free, Referred
        <3> QED BY <1>1, <2>1, <3>1, <3>2
    <2>2. CASE u # t
        <3>1. /\ task'[u] = task[u] /\ task[u].id \in Ids /\ ~record[task[u].id].live
              /\ \A v \in Tasks \ {u} : task[v].id # task[u].id
            BY <1>1, <1>5, <2>2, TaskFacts DEF Sound, Inv, Starting
        <3>2. y.id # task[u].id
            BY <2>2, <3>1, WorkspaceAssumption DEF Named, Free, Referred
        <3>3. ~record'[task[u].id].live
            BY <2>2, <3>1
        <3> QED BY <1>1, <2>2, <3>1, <3>2, <3>3
    <2> QED BY <2>1, <2>2
<1> QED BY <1>2, <1>3, <1>4, <1>5 DEF Inv, Phase, Starting

LEMMA CalmMove ==
    ASSUME Inv, StoreOK', NEW t \in Tasks, NEW y \in TaskRecord, task' = [task EXCEPT ![t] = y],
           Sound(y), t \in Runs => Phase(y, leases'[t]),
           \A r \in Runs \ {t} : leases'[r] = leases[r], Named(t, y), RecordsCalm(t),
           failures' = 0 /\ t \in Runs => \A x \in Ids :
               t \in record'[x].leasedBy => HeldBy(y, leases'[t], x)
    PROVE  Inv' /\ Spared
<1>1. \A x \in Ids : record'[x].live => record[x].live
    BY DEF RecordsCalm, Kept, Dead
<1> QED BY <1>1, CalmRecords, MoveInv DEF RecordsCalm

(* Steps of nobody.                                                          *)
LEMMA CalmRest ==
    ASSUME Inv, StoreOK', UNCHANGED <<task, leases>>, KeysCalm, FailsCalm,
           \A x \in Ids : Dead(x) \/ (Kept(x, None) /\ record'[x].leasedBy = record[x].leasedBy)
    PROVE  Inv' /\ Spared
<1>1. RecordsCalm(None)
    BY DEF RecordsCalm
<1>2. \A x \in Ids : record'[x].leasedBy \subseteq record[x].leasedBy
    BY DEF Dead
<1>3. TypeOK' /\ (\A t \in Tasks : Sound(task[t])') /\ \A r \in Runs : Phase(task[r], leases[r])'
    BY DEF Inv, TypeOK, StoreOK, Sound, Phase
<1>4. failures' = 0 => \A x \in Ids, r \in Runs : Held(r, x)'
    BY <1>2 DEF FailsCalm, Inv, Held, HeldBy
<1>5. \A t \in Tasks : Starting(t)'
    <2>1. \A x \in Ids : record'[x].live => record[x].live
        BY DEF Kept, Dead
    <2>2. \A t \in Tasks : task[t].pc = "starting" => task[t].id \in Ids
        BY TaskFacts DEF Sound
    <2> QED BY <2>1, <2>2 DEF Inv, Starting
<1> QED BY <1>1, <1>3, <1>4, <1>5, CalmRecords DEF Inv

-----------------------------------------------------------------------------
(* The steps of a run.                                                       *)
LEMMA KeptSame ==
    ASSUME Inv, NEW x \in Ids, NEW t, record'[x] = record[x]
    PROVE  Kept(x, t)
BY StoreFacts DEF Kept, Timed

LEMMA WroteFacts ==
    ASSUME Inv, NEW x, NEW running \in BOOLEAN, NEW t
    PROVE  /\ Wrote(x, running) \in [Ids -> ServiceRecord]
           /\ record' = Wrote(x, running) => \A i \in Ids :
                  Kept(i, t) /\ record'[i].leasedBy = record[i].leasedBy
<1> DEFINE z == [record[x] EXCEPT !.running = running]
<1>1. Wrote(x, running) = [record EXCEPT ![x] = z] /\ record \in [Ids -> ServiceRecord]
    BY StoreFacts DEF Wrote, StoreOK
<1>2. x \in Ids => /\ z \in ServiceRecord /\ z.live = record[x].live /\ z.config = record[x].config
                   /\ z.leasedBy = record[x].leasedBy /\ z.idleTimer = record[x].idleTimer
    BY <1>1 DEF ServiceRecord
<1> HIDE DEF z
<1> QED BY <1>1, <1>2, StoreFacts DEF Kept, Timed

LEMMA MarkedFacts ==
    ASSUME Inv, NEW t
    PROVE  /\ Marked \in [Ids -> ServiceRecord]
           /\ record' = Marked => \A i \in Ids :
                  Kept(i, t) /\ record'[i].leasedBy = record[i].leasedBy
<1>1. ASSUME NEW i \in Ids
      PROVE  LET z == [record[i] EXCEPT !.running = FALSE] IN
             /\ z \in ServiceRecord /\ z.live = record[i].live /\ z.config = record[i].config
             /\ z.leasedBy = record[i].leasedBy /\ z.idleTimer = record[i].idleTimer
    BY StoreFacts DEF ServiceRecord
<1>2. Marked \in [Ids -> ServiceRecord]
    BY <1>1 DEF Marked
<1>3. ASSUME record' = Marked, NEW i \in Ids
      PROVE  Kept(i, t) /\ record'[i].leasedBy = record[i].leasedBy
    <2>1. record'[i] = [record[i] EXCEPT !.running = FALSE]
        BY <1>3 DEF Marked
    <2> QED BY <1>1, <2>1, StoreFacts DEF Kept, Timed
<1> QED BY <1>2, <1>3

LEMMA ReleaseList ==
    ASSUME Inv, NEW r \in Runs, ToRelease(r), task[r].ids = {}
    PROVE  \E y \in TaskRecord :
              /\ task' = [task EXCEPT ![r] = y] /\ y.pc = "release" /\ y.ids = leases[r]
              /\ y.id = None /\ leases' = [leases EXCEPT ![r] = {}]
              /\ Sound(y) /\ Phase(y, {}) /\ leases' \in [Runs -> SUBSET Ids] /\ leases'[r] = {}
              /\ \A q \in Runs \ {r} : leases'[q] = leases[q]
<1> DEFINE y == [Idle EXCEPT !.pc = "release", !.ids = leases[r]]
<1>1. y \in TaskRecord /\ y.pc = "release" /\ y.ids = leases[r] /\ y.id = None
    BY StoreFacts, Records DEF TaskRecord, Idle
<1>2. task' = [task EXCEPT ![r] = y] /\ leases' = [leases EXCEPT ![r] = {}]
    BY DEF ToRelease
<1> HIDE DEF y
<1>3. Sound(y) /\ Phase(y, {})
    BY <1>1 DEF Sound, Phase
<1> QED BY <1>1, <1>2, <1>3, StoreFacts DEF StoreOK

(* A run whose record is x in task, as seen by HeldBy.                       *)
LEMMA HeldFacts ==
    ASSUME Inv, NEW r \in Runs, failures = 0, NEW x \in Ids, r \in record[x].leasedBy
    PROVE  HeldBy(task[r], leases[r], x)
BY DEF Inv, Held

LEMMA GotoFacts ==
    ASSUME Inv, NEW t \in Tasks, NEW pc,
           pc \in {"idle", "ensure", "starting", "acquiring", "using", "release", "releasing",
                   "stopping", "archive", "mark"}
    PROVE  LET y == [task[t] EXCEPT !.pc = pc] IN
           /\ [task EXCEPT ![t].pc = pc] = [task EXCEPT ![t] = y]
           /\ y \in TaskRecord /\ y.pc = pc /\ y.ids = task[t].ids /\ y.id = task[t].id
BY TaskFacts DEF TaskRecord

LEMMA EnsureBeginInv ==
    ASSUME Inv, NEW r \in Runs, EnsureBegin(r)
    PROVE  Inv' /\ Spared
<1>1. r \in Tasks /\ task[r].pc = "idle" /\ StoreOK
    BY RunIsTask, StoreFacts DEF EnsureBegin, At
<1>2. PICK wanted \in Requests :
          task' = [task EXCEPT ![r] = [Idle EXCEPT !.pc = "ensure", !.todo = wanted]]
    BY DEF EnsureBegin
<1> DEFINE y == [Idle EXCEPT !.pc = "ensure", !.todo = wanted]
<1>3. y \in TaskRecord /\ y.pc = "ensure" /\ y.ids = {} /\ y.id = None
    BY Records, WorkspaceAssumption DEF TaskRecord, Idle
<1>4. task' = [task EXCEPT ![r] = y]
    BY <1>2
<1> HIDE DEF y
<1>5. /\ leases' \in [Runs -> SUBSET Ids] /\ \A q \in Runs \ {r} : leases'[q] = leases[q]
      /\ UNCHANGED <<record, reuse, reconciles, failures>>
    BY <1>1 DEF EnsureBegin, StoreOK
<1>6. StoreOK'
    BY <1>1, <1>5 DEF StoreOK
<1>7. RecordsCalm(r)
    BY <1>5, KeptSame DEF RecordsCalm, KeysCalm, FailsCalm
<1>8. Sound(y) /\ Phase(y, leases'[r])
    BY <1>3 DEF Sound, Phase
<1>9. \A x \in Ids : r \notin record'[x].leasedBy
    BY <1>5 DEF EnsureBegin
<1> QED BY <1>1, <1>3, <1>4, <1>5, <1>6, <1>7, <1>8, <1>9, CalmMove DEF Named

LEMMA ReuseInv ==
    ASSUME Inv, NEW r \in Runs, NEW c \in Config, Reuse(r, c)
    PROVE  Inv' /\ Spared
<1> DEFINE x == reuse[c.service]
           y == [task[r] EXCEPT !.todo = @ \ {c}, !.id = x, !.pc = "acquiring"]
           by == record[x].leasedBy \cup {r}
           z == [record[x] EXCEPT !.leasedBy = by, !.idleTimer = FALSE]
<1>1. /\ r \in Tasks /\ task[r].pc = "ensure" /\ StoreOK /\ task[r].ids = {} /\ x \in Ids
      /\ task[r] \in TaskRecord /\ task \in [Tasks -> TaskRecord]
      /\ UNCHANGED <<reuse, leases, reconciles, failures>>
    BY RunIsTask, StoreFacts, TaskFacts DEF Reuse, At, Reusable, Phase, StoreOK, Config
<1>2. y \in TaskRecord /\ y.pc = "acquiring" /\ y.ids = {} /\ y.id = x
    BY <1>1 DEF TaskRecord
<1>3. task' = [task EXCEPT ![r] = y]
    BY <1>1 DEF Reuse
<1>4. record' = [record EXCEPT ![x] = z]
    BY <1>1 DEF Reuse, Leased, StoreOK
<1>5. /\ z \in ServiceRecord /\ z.live = record[x].live /\ z.config = record[x].config
      /\ z.leasedBy = record[x].leasedBy \cup {r} /\ z.idleTimer = FALSE
    <2>1. record[x] \in ServiceRecord /\ by \in SUBSET Runs
        BY <1>1, StoreFacts DEF ServiceRecord
    <2>2. z.leasedBy = by
        BY <2>1 DEF ServiceRecord
    <2> HIDE DEF by
    <2>3. z \in ServiceRecord /\ z.live = record[x].live /\ z.config = record[x].config /\ ~z.idleTimer
        BY <2>1 DEF ServiceRecord
    <2>4. z.idleTimer = FALSE
        BY <2>1 DEF ServiceRecord
    <2> QED BY <2>2, <2>3, <2>4 DEF by
<1> HIDE DEF y, z
<1>6. record' \in [Ids -> ServiceRecord] /\ record'[x] = z /\ \A i \in Ids \ {x} : record'[i] = record[i]
    BY <1>1, <1>4, <1>5 DEF StoreOK
<1>7. StoreOK'
    BY <1>1, <1>6 DEF StoreOK
<1>8. RecordsCalm(r)
    BY <1>1, <1>5, <1>6, KeptSame DEF RecordsCalm, KeysCalm, FailsCalm, Kept, Timed
<1>9. Sound(y) /\ Phase(y, leases'[r])
    BY <1>1, <1>2 DEF Sound, Phase
<1>10. failures' = 0 => \A i \in Ids : r \in record'[i].leasedBy => HeldBy(y, leases'[r], i)
    <2> SUFFICES ASSUME failures = 0, NEW i \in Ids, r \in record'[i].leasedBy
                 PROVE  HeldBy(y, leases[r], i)
        BY <1>1
    <2>1. i # x => HeldBy(task[r], leases[r], i)
        BY <1>6, HeldFacts
    <2> QED BY <1>1, <1>2, <2>1 DEF HeldBy
<1>11. Named(r, y)
    BY <1>1, <1>2 DEF Named, Reuse, Reusable
<1> QED BY <1>1, <1>2, <1>3, <1>7, <1>8, <1>9, <1>10, <1>11, CalmMove

LEMMA StartInv ==
    ASSUME Inv, NEW r \in Runs, NEW c \in Config, Start(r, c)
    PROVE  Inv' /\ Spared
<1>1. /\ r \in Tasks /\ task[r].pc = "ensure" /\ StoreOK /\ task[r].ids = {}
      /\ task[r] \in TaskRecord /\ task \in [Tasks -> TaskRecord]
      /\ UNCHANGED <<reuse, leases, reconciles, failures>>
    BY RunIsTask, StoreFacts, TaskFacts DEF Start, At, Phase
<1>2. PICK x \in Free :
          /\ record' = [record EXCEPT ![x] = [NoRecord EXCEPT !.config = c, !.child = TRUE]]
          /\ task' = [task EXCEPT ![r].todo = @ \ {c}, ![r].id = x, ![r].pc = "starting"]
    BY DEF Start
<1> DEFINE y == [task[r] EXCEPT !.todo = @ \ {c}, !.id = x, !.pc = "starting"]
           z == [NoRecord EXCEPT !.config = c, !.child = TRUE]
<1>3. x \in Ids /\ ~record[x].live
    BY DEF Free, Referred
<1>4. y \in TaskRecord /\ y.pc = "starting" /\ y.ids = {} /\ y.id = x
    BY <1>1, <1>3 DEF TaskRecord
<1>5. task' = [task EXCEPT ![r] = y] /\ record' = [record EXCEPT ![x] = z]
    BY <1>1, <1>2
<1>6. z \in ServiceRecord /\ ~z.live /\ z.leasedBy = {} /\ ~z.idleTimer
    BY Records DEF ServiceRecord, NoRecord
<1> HIDE DEF y, z
<1>7. record' \in [Ids -> ServiceRecord] /\ record'[x] = z /\ \A i \in Ids \ {x} : record'[i] = record[i]
    BY <1>1, <1>3, <1>5, <1>6 DEF StoreOK
<1>8. StoreOK'
    BY <1>1, <1>7 DEF StoreOK
<1>9. Dead(x)
    BY <1>1, <1>3, <1>6, <1>7 DEF Dead, Exempt, Inv, KeyIsLive
<1>10. RecordsCalm(r)
    BY <1>1, <1>7, <1>9, KeptSame DEF RecordsCalm, KeysCalm, FailsCalm
<1>11. Sound(y) /\ Phase(y, leases'[r])
    BY <1>3, <1>4 DEF Sound, Phase
<1>12. failures' = 0 => \A i \in Ids : r \in record'[i].leasedBy => HeldBy(y, leases'[r], i)
    <2> SUFFICES ASSUME failures = 0, NEW i \in Ids, r \in record'[i].leasedBy
                 PROVE  HeldBy(y, leases[r], i)
        BY <1>1
    <2>1. i # x /\ HeldBy(task[r], leases[r], i)
        BY <1>6, <1>7, HeldFacts
    <2> QED BY <1>1, <1>4, <2>1 DEF HeldBy
<1>13. Named(r, y)
    BY <1>4, <1>6, <1>7 DEF Named
<1> QED BY <1>1, <1>4, <1>5, <1>8, <1>10, <1>11, <1>12, <1>13, CalmMove

(* A run that is to release its leases, with the records as they are.        *)
LEMMA ReleaseAll ==
    ASSUME Inv, NEW r \in Runs, ToRelease(r), UNCHANGED <<reuse, reconciles>>,
           task[r].pc \in {"ensure", "starting", "acquiring", "using"},
           failures' \in 0 .. MaxFailures, FailsCalm,
           failures' = 0 => task[r].pc # "acquiring",
           record' \in [Ids -> ServiceRecord],
           \A i \in Ids : Kept(i, r) /\ record'[i].leasedBy = record[i].leasedBy
    PROVE  Inv' /\ Spared
<1>1. r \in Tasks /\ task[r].ids = {} /\ StoreOK
    BY RunIsTask, TaskFacts, StoreFacts DEF Phase
<1>2. PICK y \in TaskRecord :
          /\ task' = [task EXCEPT ![r] = y] /\ y.pc = "release" /\ y.ids = leases[r] /\ y.id = None
          /\ leases' = [leases EXCEPT ![r] = {}]
          /\ Sound(y) /\ Phase(y, {}) /\ leases' \in [Runs -> SUBSET Ids] /\ leases'[r] = {}
          /\ \A q \in Runs \ {r} : leases'[q] = leases[q]
    BY <1>1, ReleaseList
<1>3. StoreOK'
    BY <1>1, <1>2 DEF StoreOK
<1>4. RecordsCalm(r)
    BY DEF RecordsCalm, KeysCalm
<1>5. failures' = 0 => \A i \in Ids : r \in record'[i].leasedBy => HeldBy(y, leases'[r], i)
    <2> SUFFICES ASSUME failures' = 0, NEW i \in Ids, r \in record'[i].leasedBy
                 PROVE  HeldBy(y, leases'[r], i)
        OBVIOUS
    <2>1. HeldBy(task[r], leases[r], i)
        BY HeldFacts DEF FailsCalm
    <2> QED BY <1>1, <1>2, <2>1 DEF HeldBy
<1> QED BY <1>1, <1>2, <1>3, <1>4, <1>5, CalmMove DEF Named

LEMMA NotReadyInv ==
    ASSUME Inv, NEW r \in Runs, NotReady(r)
    PROVE  Inv' /\ Spared
<1> PICK x \in Ids : x = task[r].id
    BY TaskFacts, RunIsTask DEF NotReady, At, Sound
<1> DEFINE z == [record[x] EXCEPT !.child = FALSE]
<1>1. /\ task[r].pc = "starting" /\ StoreOK /\ ToRelease(r)
      /\ UNCHANGED <<reuse, reconciles, failures>>
      /\ record' = [record EXCEPT ![x] = z]
    BY StoreFacts DEF NotReady, At, StoreOK
<1>2. /\ z \in ServiceRecord /\ z.live = record[x].live /\ z.config = record[x].config
      /\ z.leasedBy = record[x].leasedBy /\ z.idleTimer = record[x].idleTimer
    BY StoreFacts DEF ServiceRecord
<1> HIDE DEF z
<1>3. /\ record' \in [Ids -> ServiceRecord]
      /\ \A i \in Ids : Kept(i, r) /\ record'[i].leasedBy = record[i].leasedBy
    BY <1>1, <1>2, StoreFacts DEF StoreOK, Kept, Timed
<1> QED BY <1>1, <1>3, ReleaseAll DEF FailsCalm, StoreOK

LEMMA EndsInv ==
    ASSUME Inv, NEW r \in Runs, AcquireFails(r) \/ UseEnd(r)
    PROVE  Inv' /\ Spared
<1>1. /\ StoreOK /\ ToRelease(r) /\ UNCHANGED <<record, reuse, reconciles>>
      /\ task[r].pc \in {"acquiring", "using"}
    BY StoreFacts DEF AcquireFails, UseEnd, At
<1>2. \A i \in Ids : Kept(i, r) /\ record'[i].leasedBy = record[i].leasedBy
    BY <1>1, KeptSame
<1>3. /\ failures' \in 0 .. MaxFailures /\ FailsCalm
      /\ failures' = 0 => task[r].pc # "acquiring"
    BY StoreFacts DEF AcquireFails, UseEnd, At, Fails, FailsCalm, StoreOK
<1> QED BY <1>1, <1>2, <1>3, ReleaseAll DEF StoreOK

LEMMA ReadyInv ==
    ASSUME Inv, NEW r \in Runs, Ready(r)
    PROVE  Inv' /\ Spared
<1> PICK x \in Ids : x = task[r].id
    BY TaskFacts, RunIsTask DEF Ready, At, Sound
<1> DEFINE y == [task[r] EXCEPT !.pc = "acquiring"]
           z == [record[x] EXCEPT !.live = TRUE, !.leasedBy = {r}]
<1>1. /\ r \in Tasks /\ task[r].pc = "starting" /\ StoreOK /\ task[r].ids = {}
      /\ task[r] \in TaskRecord /\ task \in [Tasks -> TaskRecord]
      /\ UNCHANGED <<leases, reconciles, failures>>
      /\ reuse' = [s \in Services |-> IF Names(x, s) THEN x ELSE reuse[s]]
    BY RunIsTask, StoreFacts, TaskFacts DEF Ready, At, Phase
<1>2. y \in TaskRecord /\ y.pc = "acquiring" /\ y.ids = {} /\ y.id = x
    BY <1>1 DEF TaskRecord
<1>3. task' = [task EXCEPT ![r] = y] /\ record' = [record EXCEPT ![x] = z]
    BY <1>1 DEF Ready, Goto, StoreOK
<1>4. /\ z \in ServiceRecord /\ z.live /\ z.config = record[x].config /\ z.leasedBy = {r}
      /\ z.idleTimer = record[x].idleTimer
    BY StoreFacts DEF ServiceRecord
<1>5. ~record[x].live /\ ~record[x].idleTimer
    BY <1>1, StoreFacts DEF Inv, Starting, Timed, ServiceRecord
<1> HIDE DEF y, z
<1>6. /\ record' \in [Ids -> ServiceRecord] /\ record'[x] = z
      /\ \A i \in Ids \ {x} : record'[i] = record[i]
    BY <1>1, <1>3, <1>4 DEF StoreOK
<1>7. reuse' \in [Services -> Ids \cup {None}]
    BY <1>1 DEF StoreOK
<1>8. StoreOK'
    BY <1>1, <1>6, <1>7 DEF StoreOK
<1>9. KeyIsLive'
    <2> SUFFICES ASSUME NEW s \in Services, NEW i \in Ids, reuse'[s] = i, i # None
                 PROVE  record'[i].live /\ Names(i, s)'
        BY <1>7 DEF KeyIsLive, Names
    <2>1. CASE Names(x, s)
        BY <1>1, <1>4, <1>6, <2>1 DEF Names
    <2>2. CASE ~Names(x, s)
        <3>1. reuse[s] = i /\ record[i].live /\ Names(i, s)
            BY <1>1, <2>2 DEF Inv, KeyIsLive
        <3> QED BY <1>5, <1>6, <3>1 DEF Names
    <2> QED BY <2>1, <2>2
<1>10. /\ \A i \in Ids : Timed(record[i])' /\ (record'[i].live => record[i].live \/ i = task[r].id)
       /\ \A i \in Ids : record'[i].leasedBy \subseteq record[i].leasedBy \cup {r}
    BY <1>4, <1>5, <1>6, StoreFacts DEF Timed
<1>11. Sound(y) /\ Phase(y, leases'[r]) /\ FailsCalm /\ Named(r, y)
    BY <1>1, <1>2 DEF Sound, Phase, FailsCalm, Named
<1>12. failures' = 0 => \A i \in Ids : r \in record'[i].leasedBy => HeldBy(y, leases'[r], i)
    <2> SUFFICES ASSUME failures = 0, NEW i \in Ids, r \in record'[i].leasedBy
                 PROVE  HeldBy(y, leases[r], i)
        BY <1>1
    <2>1. i # x => HeldBy(task[r], leases[r], i)
        BY <1>6, HeldFacts
    <2> QED BY <1>1, <1>2, <2>1 DEF HeldBy
<1>13. Spared
    BY <1>4, <1>6 DEF Spared, Exempt
<1> QED BY <1>1, <1>2, <1>3, <1>8, <1>9, <1>10, <1>11, <1>12, <1>13, MoveInv

LEMMA AcquiredInv ==
    ASSUME Inv, NEW r \in Runs, Acquired(r)
    PROVE  Inv' /\ Spared
<1> PICK x \in Ids : x = task[r].id
    BY TaskFacts, RunIsTask DEF Acquired, At, Sound
<1> DEFINE y == [task[r] EXCEPT !.id = None, !.pc = "ensure"]
<1>1. /\ r \in Tasks /\ task[r].pc = "acquiring" /\ StoreOK /\ task[r].ids = {}
      /\ task[r] \in TaskRecord /\ task \in [Tasks -> TaskRecord]
      /\ UNCHANGED <<reuse, reconciles, failures>> /\ record' = Wrote(x, TRUE)
      /\ leases' = [leases EXCEPT ![r] = leases[r] \cup {x}]
    BY RunIsTask, StoreFacts, TaskFacts DEF Acquired, At, Phase, Listed
<1>2. y \in TaskRecord /\ y.pc = "ensure" /\ y.ids = {} /\ y.id = None
    BY <1>1 DEF TaskRecord
<1>3. task' = [task EXCEPT ![r] = y]
    BY <1>1 DEF Acquired
<1> HIDE DEF y
<1>4. /\ record' \in [Ids -> ServiceRecord]
      /\ \A i \in Ids : Kept(i, r) /\ record'[i].leasedBy = record[i].leasedBy
    BY <1>1, WroteFacts
<1>5. /\ leases' \in [Runs -> SUBSET Ids] /\ leases'[r] = leases[r] \cup {x}
      /\ \A q \in Runs \ {r} : leases'[q] = leases[q]
    BY <1>1 DEF StoreOK
<1>6. StoreOK' /\ RecordsCalm(r)
    BY <1>1, <1>4, <1>5 DEF StoreOK, RecordsCalm, KeysCalm, FailsCalm
<1>7. Sound(y) /\ Phase(y, leases'[r]) /\ Named(r, y)
    BY <1>2 DEF Sound, Phase, Named
<1>8. failures' = 0 => \A i \in Ids : r \in record'[i].leasedBy => HeldBy(y, leases'[r], i)
    <2> SUFFICES ASSUME failures = 0, NEW i \in Ids, r \in record'[i].leasedBy
                 PROVE  HeldBy(y, leases'[r], i)
        BY <1>1
    <2>1. HeldBy(task[r], leases[r], i)
        BY <1>4, HeldFacts
    <2> QED BY <1>1, <1>5, <2>1 DEF HeldBy
<1> QED BY <1>1, <1>2, <1>3, <1>5, <1>6, <1>7, <1>8, CalmMove

-----------------------------------------------------------------------------
(* Releases, archives and stops.                                             *)
LEMMA StayInv ==
    ASSUME Inv, NEW t \in Tasks, NEW y \in TaskRecord, task' = [task EXCEPT ![t] = y],
           UNCHANGED <<reuse, leases, reconciles>>, failures' \in 0 .. MaxFailures, FailsCalm,
           record' \in [Ids -> ServiceRecord],
           \A i \in Ids : Kept(i, t) /\ record'[i].leasedBy \subseteq record[i].leasedBy,
           Sound(y), t \in Runs => Phase(y, leases[t]), Named(t, y),
           failures' = 0 /\ t \in Runs => \A i \in Ids :
              t \in record'[i].leasedBy /\ HeldBy(task[t], leases[t], i) => HeldBy(y, leases[t], i)
    PROVE  Inv' /\ Spared
<1>1. StoreOK' /\ RecordsCalm(t)
    BY StoreFacts DEF StoreOK, RecordsCalm, KeysCalm
<1>2. failures' = 0 /\ t \in Runs =>
          \A i \in Ids : t \in record'[i].leasedBy => HeldBy(y, leases'[t], i)
    BY HeldFacts DEF FailsCalm
<1> QED BY <1>1, <1>2, CalmMove

LEMMA StopFacts ==
    ASSUME Inv, NEW x \in Ids, NEW z \in ServiceRecord, ~z.live, z.leasedBy = {}, ~z.idleTimer,
           record' = [record EXCEPT ![x] = z], reuse' \in {Forgotten(x), Unkeyed(x)}, Exempt(x)
    PROVE  /\ record' \in [Ids -> ServiceRecord] /\ reuse' \in [Services -> Ids \cup {None}]
           /\ Dead(x) /\ KeysCalm
           /\ \A i \in Ids \ {x} : record'[i] = record[i]
<1>1. /\ StoreOK /\ record'[x] = z /\ \A i \in Ids \ {x} : record'[i] = record[i]
    BY StoreFacts DEF StoreOK
<1>2. \A s \in Services :
          /\ reuse'[s] \in {reuse[s], None}
          /\ reuse'[s] # None => reuse'[s] # x
    BY DEF Forgotten, Unkeyed, Inv, KeyIsLive
<1>3. Forgotten(x) \in [Services -> Ids \cup {None}] /\ Unkeyed(x) \in [Services -> Ids \cup {None}]
    BY <1>1 DEF Forgotten, Unkeyed, StoreOK
<1> QED BY <1>1, <1>2, <1>3 DEF StoreOK, Dead, KeysCalm

LEMMA StoppedFacts ==
    ASSUME Inv, NEW x \in Ids
    PROVE  /\ Stopped(x) \in ServiceRecord /\ ~Stopped(x).live /\ Stopped(x).leasedBy = {}
           /\ ~Stopped(x).idleTimer
           /\ \A w \in {"idle", "exit"} :
                 LET z == [Stopped(x) EXCEPT !.writing = w] IN
                 z \in ServiceRecord /\ ~z.live /\ z.leasedBy = {} /\ ~z.idleTimer
           /\ LET z == [Stopped(x) EXCEPT !.running = TRUE] IN
              z \in ServiceRecord /\ ~z.live /\ z.leasedBy = {} /\ ~z.idleTimer
<1>1. record[x].running \in BOOLEAN
    BY StoreFacts DEF ServiceRecord
<1>2. /\ Stopped(x) \in ServiceRecord /\ ~Stopped(x).live /\ Stopped(x).leasedBy = {}
      /\ ~Stopped(x).idleTimer
    BY <1>1, Records DEF Stopped, ServiceRecord, NoRecord
<1>3. ASSUME NEW w \in {"idle", "exit"}
      PROVE  LET z == [Stopped(x) EXCEPT !.writing = w] IN
             z \in ServiceRecord /\ ~z.live /\ z.leasedBy = {} /\ ~z.idleTimer
    BY <1>2 DEF ServiceRecord
<1>4. LET z == [Stopped(x) EXCEPT !.running = TRUE] IN
      z \in ServiceRecord /\ ~z.live /\ z.leasedBy = {} /\ ~z.idleTimer
    BY <1>2 DEF ServiceRecord
<1> QED BY <1>2, <1>3, <1>4

LEMMA EnsureEndInv ==
    ASSUME Inv, NEW r \in Runs, EnsureEnd(r)
    PROVE  Inv' /\ Spared
<1> DEFINE y == [task[r] EXCEPT !.pc = "using"]
<1>1. /\ r \in Tasks /\ task[r].pc = "ensure" /\ StoreOK /\ task[r].ids = {}
      /\ task[r] \in TaskRecord /\ task \in [Tasks -> TaskRecord]
      /\ UNCHANGED <<record, reuse, leases, reconciles, failures>>
    BY RunIsTask, StoreFacts, TaskFacts DEF EnsureEnd, At, Phase
<1>2. /\ y \in TaskRecord /\ y.pc = "using" /\ y.ids = {} /\ y.id = task[r].id
      /\ task' = [task EXCEPT ![r] = y]
    BY <1>1 DEF EnsureEnd, Goto, TaskRecord
<1> HIDE DEF y
<1>3. Sound(y) /\ Phase(y, leases[r]) /\ Named(r, y)
    BY <1>2 DEF Sound, Phase, Named
<1>4. \A i \in Ids : HeldBy(task[r], leases[r], i) => HeldBy(y, leases[r], i)
    BY <1>1, <1>2 DEF HeldBy
<1> QED BY <1>1, <1>2, <1>3, <1>4, KeptSame, StayInv DEF FailsCalm, StoreOK

LEMMA ReleaseInv ==
    ASSUME Inv, NEW r \in Runs, Release(r)
    PROVE  Inv' /\ Spared
<1>1. /\ r \in Tasks /\ task[r].pc = "release" /\ StoreOK /\ leases[r] = {}
      /\ task[r] \in TaskRecord /\ task \in [Tasks -> TaskRecord]
      /\ UNCHANGED <<reuse, leases, reconciles, failures>>
    BY RunIsTask, StoreFacts, TaskFacts DEF Release, At, Phase
<1>2. CASE task[r].ids = {} /\ task' = [task EXCEPT ![r] = Idle] /\ UNCHANGED record
    <2>1. Sound(Idle) /\ Phase(Idle, leases[r]) /\ Named(r, Idle)
        BY <1>1, Records DEF Sound, Phase, Named
    <2>2. \A i \in Ids : ~HeldBy(task[r], leases[r], i)
        BY <1>1, <1>2 DEF HeldBy
    <2> QED BY <1>1, <1>2, <2>1, <2>2, Records, KeptSame, StayInv DEF FailsCalm, StoreOK
<1>3. ASSUME NEW x \in task[r].ids,
             record' = [record EXCEPT ![x].leasedBy = @ \ {r}],
             task' = [task EXCEPT ![r].ids = @ \ {x},
                         ![r].id = IF record[x].live THEN x ELSE None,
                         ![r].pc = IF record[x].live THEN "releasing" ELSE "release"]
      PROVE  Inv' /\ Spared
    <2> DEFINE id == IF record[x].live THEN x ELSE None
               pc == IF record[x].live THEN "releasing" ELSE "release"
               rest == task[r].ids \ {x}
               y == [task[r] EXCEPT !.ids = rest, !.id = id, !.pc = pc]
               by == record[x].leasedBy \ {r}
               z == [record[x] EXCEPT !.leasedBy = by]
    <2>1. x \in Ids /\ id \in Ids \cup {None} /\ rest \in SUBSET Ids /\ pc \in {"releasing", "release"}
        BY <1>1, TaskFacts
    <2>2. task' = [task EXCEPT ![r] = y] /\ record' = [record EXCEPT ![x] = z]
        BY <1>1, <1>3 DEF StoreOK
    <2>3. record[x] \in ServiceRecord /\ by \in SUBSET Runs /\ (record[x].leasedBy = {} => by = {})
        BY <2>1, StoreFacts DEF ServiceRecord
    <2>4. pc = "releasing" => id \in Ids /\ record[id].live
        BY <2>1
    <2>5. id = None \/ (id \in Ids /\ record[id].live)
        BY <2>1
    <2> HIDE DEF id, pc, rest, by
    <2>6. y \in TaskRecord /\ y.pc = pc /\ y.ids = rest /\ y.id = id
        BY <1>1, <2>1 DEF TaskRecord
    <2>7. /\ z \in ServiceRecord /\ z.live = record[x].live /\ z.config = record[x].config
          /\ z.leasedBy = by /\ z.idleTimer = record[x].idleTimer
        BY <2>3 DEF ServiceRecord
    <2> HIDE DEF y, z
    <2>8. /\ record' \in [Ids -> ServiceRecord] /\ record'[x] = z
          /\ \A i \in Ids \ {x} : record'[i] = record[i]
        BY <1>1, <2>1, <2>2, <2>7 DEF StoreOK
    <2>9. by \subseteq record[x].leasedBy /\ r \notin by
        BY DEF by
    <2>10. \A i \in Ids : Kept(i, r) /\ record'[i].leasedBy \subseteq record[i].leasedBy
        <3>1. Kept(x, r)
            BY <2>1, <2>3, <2>7, <2>8, <2>9, StoreFacts DEF Kept, Timed
        <3> QED BY <2>7, <2>8, <2>9, <3>1, KeptSame
    <2>11. Sound(y) /\ Phase(y, leases[r]) /\ Named(r, y)
        BY <1>1, <2>1, <2>4, <2>5, <2>6 DEF Sound, Phase, Named
    <2>12. \A i \in Ids : r \in record'[i].leasedBy /\ HeldBy(task[r], leases[r], i)
                             => HeldBy(y, leases[r], i)
        BY <1>1, <2>6, <2>7, <2>8, <2>9 DEF HeldBy, rest
    <2> QED BY <1>1, <2>2, <2>6, <2>8, <2>10, <2>11, <2>12, StayInv DEF FailsCalm, StoreOK
<1> QED BY <1>1, <1>2, <1>3 DEF Release

LEMMA ReleasedInv ==
    ASSUME Inv, NEW r \in Runs, Released(r)
    PROVE  Inv' /\ Spared
<1> PICK x \in Ids : x = task[r].id
    BY TaskFacts, RunIsTask DEF Released, At, Sound
<1>1. /\ r \in Tasks /\ task[r].pc = "releasing" /\ StoreOK /\ leases[r] = {}
      /\ task[r] \in TaskRecord /\ task \in [Tasks -> TaskRecord] /\ record[x] \in ServiceRecord
      /\ UNCHANGED <<leases, reconciles, failures>>
    BY RunIsTask, StoreFacts, TaskFacts DEF Released, At, Phase
<1>2. CASE Unleased(x) /\ OnRunFinish(x)
    <2> DEFINE y == [task[r] EXCEPT !.pc = "stopping"]
               z == [Stopped(x) EXCEPT !.running = TRUE]
    <2>1. task' = [task EXCEPT ![r] = y] /\ record' = [record EXCEPT ![x] = z] /\ reuse' = Forgotten(x)
        BY <1>1, <1>2 DEF Released, Goto
    <2>2. y \in TaskRecord /\ y.pc = "stopping" /\ y.ids = task[r].ids /\ y.id = x
        BY <1>1 DEF TaskRecord
    <2>3. z \in ServiceRecord /\ ~z.live /\ z.leasedBy = {} /\ ~z.idleTimer
        BY StoppedFacts
    <2> HIDE DEF y, z
    <2>4. Exempt(x)
        BY <1>2 DEF Exempt, Unleased
    <2>5. /\ record' \in [Ids -> ServiceRecord] /\ reuse' \in [Services -> Ids \cup {None}]
          /\ Dead(x) /\ KeysCalm /\ \A i \in Ids \ {x} : record'[i] = record[i]
        BY <2>1, <2>3, <2>4, StopFacts
    <2>6. StoreOK' /\ RecordsCalm(r)
        BY <1>1, <2>5, KeptSame DEF StoreOK, RecordsCalm, FailsCalm
    <2>7. Sound(y) /\ Phase(y, leases'[r]) /\ Named(r, y)
        BY <1>1, <2>2 DEF Sound, Phase, Named
    <2>8. failures' = 0 => \A i \in Ids : r \in record'[i].leasedBy => HeldBy(y, leases'[r], i)
        <3> SUFFICES ASSUME failures = 0, NEW i \in Ids, r \in record'[i].leasedBy
                     PROVE  HeldBy(y, leases[r], i)
            BY <1>1
        <3>1. HeldBy(task[r], leases[r], i)
            BY <2>5, HeldFacts DEF Dead
        <3> QED BY <1>1, <2>2, <3>1 DEF HeldBy
    <2> QED BY <1>1, <2>1, <2>2, <2>6, <2>7, <2>8, CalmMove
<1>3. CASE ~(Unleased(x) /\ OnRunFinish(x))
    <2> DEFINE idle == record[x].config.stopPolicy = "idle_timeout"
               timer == IF Unleased(x) THEN idle ELSE record[x].idleTimer
               y == [task[r] EXCEPT !.id = None, !.pc = "release"]
               z == [record[x] EXCEPT !.running = TRUE, !.idleTimer = timer]
    <2>1. idle \in BOOLEAN
        OBVIOUS
    <2> HIDE DEF idle
    <2>2. /\ timer \in BOOLEAN
          /\ timer => record[x].live /\ record[x].leasedBy = {}
        BY <1>1, <2>1, StoreFacts DEF Unleased, ServiceRecord, Timed
    <2>3. /\ task' = [task EXCEPT ![r] = y] /\ UNCHANGED reuse
          /\ record' = [Wrote(x, TRUE) EXCEPT ![x].idleTimer =
                   IF Unleased(x) THEN record[x].config.stopPolicy = "idle_timeout" ELSE @]
        BY <1>1, <1>3 DEF Released
    <2>4. record' = [record EXCEPT ![x] = z]
        BY <1>1, <2>3, <2>1 DEF Wrote, StoreOK, idle, ServiceRecord
    <2> HIDE DEF timer
    <2>5. y \in TaskRecord /\ y.pc = "release" /\ y.ids = task[r].ids /\ y.id = None
        BY <1>1 DEF TaskRecord
    <2>6. /\ z \in ServiceRecord /\ z.live = record[x].live /\ z.config = record[x].config
          /\ z.leasedBy = record[x].leasedBy /\ z.idleTimer = timer
        BY <1>1, <2>2 DEF ServiceRecord
    <2> HIDE DEF y, z
    <2>7. /\ record' \in [Ids -> ServiceRecord] /\ record'[x] = z
          /\ \A i \in Ids \ {x} : record'[i] = record[i]
        BY <1>1, <2>4, <2>6 DEF StoreOK
    <2>8. \A i \in Ids : Kept(i, r) /\ record'[i].leasedBy \subseteq record[i].leasedBy
        BY <2>2, <2>6, <2>7, KeptSame DEF Kept, Timed
    <2>9. Sound(y) /\ Phase(y, leases[r]) /\ Named(r, y)
        BY <1>1, <2>5 DEF Sound, Phase, Named
    <2>10. \A i \in Ids : HeldBy(task[r], leases[r], i) => HeldBy(y, leases[r], i)
        BY <1>1, <2>5 DEF HeldBy
    <2> QED BY <1>1, <2>3, <2>5, <2>7, <2>8, <2>9, <2>10, StayInv DEF FailsCalm, StoreOK
<1> QED BY <1>2, <1>3

LEMMA FailsInv ==
    ASSUME Inv, NEW t \in Tasks,
           \/ t \in Runs /\ ReleaseFails(t)
           \/ StopFails(t)
           \/ t \in Archivers /\ ArchiveFails(t)
    PROVE  Inv' /\ Spared
<1>1. /\ StoreOK /\ UNCHANGED <<record, reuse, leases, reconciles>>
      /\ task' = [task EXCEPT ![t] = Idle] /\ failures' = failures + 1 /\ failures < MaxFailures
      /\ MaxFailures \in Nat /\ failures \in Nat
    BY StoreFacts DEF ReleaseFails, StopFails, ArchiveFails, Fails
<1>2. failures' \in 0 .. MaxFailures /\ failures' # 0
    BY <1>1
<1>3. t \in Runs => leases[t] = {}
    BY TaskFacts, WorkspaceAssumption DEF ReleaseFails, StopFails, At, Phase
<1>4. Sound(Idle) /\ (t \in Runs => Phase(Idle, leases[t])) /\ Named(t, Idle)
    BY <1>3, Records DEF Sound, Phase, Named
<1> QED BY <1>1, <1>2, <1>4, Records, KeptSame, StayInv DEF FailsCalm, StoreOK

LEMMA StopWritesInv ==
    ASSUME Inv, NEW t \in Tasks, StopWrites(t)
    PROVE  Inv' /\ Spared
<1> PICK x \in Ids : x = task[t].id
    BY TaskFacts DEF StopWrites, At, Sound
<1> DEFINE pc == IF t \in Runs THEN "release" ELSE "archive"
           y == [task[t] EXCEPT !.id = None, !.pc = pc]
<1>1. /\ task[t].pc = "stopping" /\ StoreOK /\ (t \in Runs => leases[t] = {})
      /\ task[t] \in TaskRecord /\ task \in [Tasks -> TaskRecord]
      /\ UNCHANGED <<reuse, leases, reconciles, failures>> /\ record' = Wrote(x, FALSE)
      /\ task' = [task EXCEPT ![t] = y]
    BY StoreFacts, TaskFacts DEF StopWrites, At, Phase
<1>2. pc \in {"release", "archive"} /\ (t \in Runs => pc = "release")
    OBVIOUS
<1> HIDE DEF pc
<1>3. y \in TaskRecord /\ y.pc = pc /\ y.ids = task[t].ids /\ y.id = None
    BY <1>1, <1>2 DEF TaskRecord
<1> HIDE DEF y
<1>4. /\ record' \in [Ids -> ServiceRecord]
      /\ \A i \in Ids : Kept(i, t) /\ record'[i].leasedBy = record[i].leasedBy
    BY <1>1, WroteFacts
<1>5. Sound(y) /\ (t \in Runs => Phase(y, leases[t])) /\ Named(t, y)
    BY <1>1, <1>2, <1>3 DEF Sound, Phase, Named
<1>6. \A i \in Ids : HeldBy(task[t], leases[t], i) => HeldBy(y, leases[t], i)
    BY <1>1, <1>3 DEF HeldBy
<1> QED BY <1>1, <1>3, <1>4, <1>5, <1>6, StayInv DEF FailsCalm, StoreOK

LEMMA ArchiveInv ==
    ASSUME Inv, NEW a \in Archivers, Archive(a) \/ ArchiveMarks(a)
    PROVE  Inv' /\ Spared
<1>1. /\ a \in Tasks /\ a \notin Runs /\ StoreOK /\ task \in [Tasks -> TaskRecord]
      /\ UNCHANGED <<reuse, leases, reconciles, failures>>
    BY RunIsTask, WorkspaceAssumption, StoreFacts, TaskFacts DEF Archive, ArchiveMarks
<1>2. CASE Archive(a)
    <2> DEFINE ids == {x \in Ids : record[x].live}
               y == [Idle EXCEPT !.pc = "archive", !.ids = ids]
    <2>1. task' = [task EXCEPT ![a] = y] /\ UNCHANGED record
        BY <1>2 DEF Archive
    <2>2. ids \in SUBSET Ids
        OBVIOUS
    <2> HIDE DEF ids
    <2>3. y \in TaskRecord /\ y.pc = "archive" /\ y.id = None
        BY <2>2, Records DEF TaskRecord, Idle
    <2> HIDE DEF y
    <2>4. Sound(y) /\ Named(a, y)
        BY <2>3 DEF Sound, Named
    <2> QED BY <1>1, <2>1, <2>3, <2>4, KeptSame, StayInv DEF FailsCalm, StoreOK
<1>3. CASE ArchiveMarks(a)
    <2>1. record' = Marked /\ task' = [task EXCEPT ![a] = Idle]
        BY <1>3 DEF ArchiveMarks
    <2>2. Sound(Idle) /\ Named(a, Idle)
        BY Records DEF Sound, Named
    <2> QED BY <1>1, <2>1, <2>2, Records, MarkedFacts, StayInv DEF FailsCalm, StoreOK
<1> QED BY <1>2, <1>3

LEMMA ArchiveStopsInv ==
    ASSUME Inv, NEW a \in Archivers, NEW x \in Ids, ArchiveStops(a, x)
    PROVE  Inv' /\ Spared
<1> DEFINE rest == task[a].ids \ {x}
<1>1. /\ a \in Tasks /\ a \notin Runs /\ StoreOK /\ task \in [Tasks -> TaskRecord]
      /\ task[a] \in TaskRecord /\ task[a].pc = "archive" /\ rest \in SUBSET Ids
      /\ UNCHANGED <<leases, reconciles, failures>>
    BY RunIsTask, WorkspaceAssumption, StoreFacts, TaskFacts DEF ArchiveStops, At
<1>2. CASE record[x].live
    <2> DEFINE y == [task[a] EXCEPT !.ids = rest, !.id = x, !.pc = "stopping"]
    <2>1. /\ record' = [record EXCEPT ![x] = Stopped(x)] /\ reuse' = Forgotten(x)
          /\ task' = [task EXCEPT ![a] = y]
        BY <1>1, <1>2 DEF ArchiveStops
    <2> HIDE DEF rest
    <2>2. y \in TaskRecord /\ y.pc = "stopping" /\ y.id = x
        BY <1>1 DEF TaskRecord
    <2> HIDE DEF y
    <2>3. Exempt(x)
        BY DEF Exempt
    <2>4. /\ record' \in [Ids -> ServiceRecord] /\ reuse' \in [Services -> Ids \cup {None}]
          /\ Dead(x) /\ KeysCalm /\ \A i \in Ids \ {x} : record'[i] = record[i]
        BY <2>1, <2>3, StoppedFacts, StopFacts
    <2>5. StoreOK' /\ RecordsCalm(a)
        BY <1>1, <2>4, KeptSame DEF StoreOK, RecordsCalm, FailsCalm
    <2>6. Sound(y) /\ Named(a, y)
        BY <1>2, <2>2 DEF Sound, Named
    <2> QED BY <1>1, <2>1, <2>2, <2>5, <2>6, CalmMove
<1>3. CASE ~record[x].live
    <2> DEFINE y == [task[a] EXCEPT !.ids = rest]
    <2>1. task' = [task EXCEPT ![a] = y] /\ UNCHANGED <<record, reuse>>
        BY <1>1, <1>3 DEF ArchiveStops
    <2> HIDE DEF rest
    <2>2. y \in TaskRecord /\ y.pc = "archive" /\ y.id = task[a].id
        BY <1>1 DEF TaskRecord
    <2> HIDE DEF y
    <2>3. Sound(y) /\ Named(a, y)
        BY <2>2 DEF Sound, Named
    <2> QED BY <1>1, <2>1, <2>2, <2>3, KeptSame, StayInv DEF FailsCalm, StoreOK
<1> QED BY <1>2, <1>3

-----------------------------------------------------------------------------
(* What happens by itself.                                                   *)
LEMMA BackgroundInv ==
    ASSUME Inv, NEW x \in Ids, Background(x)
    PROVE  Inv' /\ Spared
<1>1. /\ StoreOK /\ record[x] \in ServiceRecord /\ UNCHANGED <<task, leases, reconciles>>
      /\ failures \in Nat /\ MaxFailures \in Nat /\ failures' \in {failures, failures + 1}
      /\ failures' = failures \/ failures < MaxFailures
    BY StoreFacts DEF Background, IdleStop, ChildExits, WriteDone, WriteFails, Fails
<1>2. failures' \in 0 .. MaxFailures /\ FailsCalm
    BY <1>1 DEF FailsCalm, StoreOK
<1>3. ASSUME NEW w \in {"idle", "exit"}, record' = [record EXCEPT ![x] = [Stopped(x) EXCEPT !.writing = w]],
             reuse' \in {Forgotten(x), Unkeyed(x)}, Exempt(x)
      PROVE  Inv' /\ Spared
    <2> DEFINE z == [Stopped(x) EXCEPT !.writing = w]
    <2>1. z \in ServiceRecord /\ ~z.live /\ z.leasedBy = {} /\ ~z.idleTimer
        BY StoppedFacts
    <2>2. record' = [record EXCEPT ![x] = z]
        BY <1>3
    <2> HIDE DEF z
    <2>3. /\ record' \in [Ids -> ServiceRecord] /\ reuse' \in [Services -> Ids \cup {None}]
          /\ Dead(x) /\ KeysCalm /\ \A i \in Ids \ {x} : record'[i] = record[i]
        BY <1>3, <2>1, <2>2, StopFacts
    <2>4. StoreOK'
        BY <1>1, <1>2, <2>3 DEF StoreOK
    <2> QED BY <1>1, <1>2, <2>3, <2>4, KeptSame, CalmRest
<1>4. ASSUME NEW z \in ServiceRecord, record' = [record EXCEPT ![x] = z], UNCHANGED reuse,
             z.live = record[x].live, z.config = record[x].config,
             z.leasedBy = record[x].leasedBy, z.idleTimer = record[x].idleTimer
      PROVE  Inv' /\ Spared
    <2>1. /\ record' \in [Ids -> ServiceRecord] /\ record'[x] = z
          /\ \A i \in Ids \ {x} : record'[i] = record[i]
        BY <1>1, <1>4 DEF StoreOK
    <2>2. \A i \in Ids : Kept(i, None) /\ record'[i].leasedBy = record[i].leasedBy
        BY <1>4, <2>1, StoreFacts DEF Kept, Timed
    <2>3. StoreOK' /\ KeysCalm
        BY <1>1, <1>2, <1>4, <2>1 DEF StoreOK, KeysCalm
    <2> QED BY <1>1, <1>2, <2>2, <2>3, CalmRest
<1>5. CASE IdleStop(x)
    <2>1. Exempt(x)
        BY <1>5, StoreFacts DEF IdleStop, Exempt, Timed
    <2> QED BY <1>3, <1>5, <2>1 DEF IdleStop
<1>6. CASE ChildExits(x) /\ record[x].live
    BY <1>3, <1>6 DEF ChildExits, Exempt
<1>7. CASE ChildExits(x) /\ ~record[x].live
    <2> DEFINE z == [record[x] EXCEPT !.child = FALSE]
    <2>1. /\ z \in ServiceRecord /\ z.live = record[x].live /\ z.config = record[x].config
          /\ z.leasedBy = record[x].leasedBy /\ z.idleTimer = record[x].idleTimer
        BY <1>1 DEF ServiceRecord
    <2>2. record' = [record EXCEPT ![x] = z] /\ UNCHANGED reuse
        BY <1>1, <1>7 DEF ChildExits
    <2> HIDE DEF z
    <2> QED BY <1>4, <2>1, <2>2
<1>8. CASE WriteDone(x)
    <2> DEFINE z == [record[x] EXCEPT !.running = FALSE, !.writing = None]
    <2>1. /\ z \in ServiceRecord /\ z.live = record[x].live /\ z.config = record[x].config
          /\ z.leasedBy = record[x].leasedBy /\ z.idleTimer = record[x].idleTimer
        BY <1>1 DEF ServiceRecord
    <2>2. record' = [record EXCEPT ![x] = z] /\ UNCHANGED reuse
        BY <1>1, <1>8 DEF WriteDone
    <2> HIDE DEF z
    <2> QED BY <1>4, <2>1, <2>2
<1>9. CASE WriteFails(x)
    <2> DEFINE z == [record[x] EXCEPT !.writing = None]
    <2>1. /\ z \in ServiceRecord /\ z.live = record[x].live /\ z.config = record[x].config
          /\ z.leasedBy = record[x].leasedBy /\ z.idleTimer = record[x].idleTimer
        BY <1>1 DEF ServiceRecord
    <2>2. record' = [record EXCEPT ![x] = z] /\ UNCHANGED reuse
        BY <1>1, <1>9 DEF WriteFails
    <2> HIDE DEF z
    <2> QED BY <1>4, <2>1, <2>2
<1> QED BY <1>5, <1>6, <1>7, <1>8, <1>9 DEF Background

LEMMA RestartInv ==
    ASSUME Inv, Restart
    PROVE  Inv' /\ Spared
<1>1. /\ \A x \in Ids : record'[x] = Stopped(x) /\ record' \in [Ids -> ServiceRecord]
      /\ \A s \in Services : reuse'[s] = None
      /\ \A r \in Runs : leases'[r] = {}
      /\ \A t \in Tasks : task'[t] = Idle
    BY StoppedFacts DEF Restart
<1>2. TypeOK'
    BY <1>1, StoreFacts, StoppedFacts, Records DEF Restart, TypeOK, StoreOK
<1>3. KeyIsLive' /\ Spared
    BY <1>1 DEF KeyIsLive, Spared, Exempt
<1>4. \A t \in Tasks : Sound(task[t])' /\ Starting(t)'
    BY <1>1, Records DEF Sound, Starting
<1>5. \A r \in Runs : Phase(task[r], leases[r])'
    BY <1>1, RunIsTask, Records DEF Phase
<1>6. \A x \in Ids : Timed(record[x])' /\ \A r \in Runs : Held(r, x)'
    BY <1>1, StoppedFacts DEF Timed, Held
<1> QED BY <1>2, <1>3, <1>4, <1>5, <1>6 DEF Inv

LEMMA ReconcileInv ==
    ASSUME Inv, Reconcile
    PROVE  Inv' /\ Spared
<1>1. /\ StoreOK /\ UNCHANGED <<reuse, leases, task>> /\ reconciles' = FALSE
      /\ record' \in {Marked, record} /\ failures \in Nat /\ MaxFailures \in Nat
      /\ failures' = failures \/ (failures < MaxFailures /\ failures' = failures + 1)
    BY StoreFacts DEF Reconcile, Fails
<1>2. /\ record' \in [Ids -> ServiceRecord]
      /\ \A i \in Ids : Kept(i, None) /\ record'[i].leasedBy = record[i].leasedBy
    BY <1>1, MarkedFacts, KeptSame DEF StoreOK
<1>3. failures' \in 0 .. MaxFailures /\ FailsCalm
    BY <1>1 DEF StoreOK, FailsCalm
<1>4. reconciles' \in BOOLEAN
    BY <1>1
<1>5. StoreOK' /\ KeysCalm
    BY <1>1, <1>2, <1>3, <1>4 DEF StoreOK, KeysCalm
<1> QED BY <1>1, <1>2, <1>3, <1>5, CalmRest

-----------------------------------------------------------------------------
LEMMA InitInv == Init => Inv
<1> SUFFICES ASSUME Init PROVE Inv
    OBVIOUS
<1>1. /\ \A x \in Ids : record[x] = NoRecord
      /\ \A s \in Services : reuse[s] = None
      /\ \A r \in Runs : leases[r] = {}
      /\ \A t \in Tasks : task[t] = Idle
    BY DEF Init
<1>2. TypeOK
    <2>1. 0 \in 0 .. MaxFailures
        BY WorkspaceAssumption
    <2>2. reconciles \in BOOLEAN
        BY DEF Init
    <2> QED BY <2>1, <2>2, Records DEF Init, TypeOK
<1>3. KeyIsLive /\ \A t \in Tasks : Sound(task[t]) /\ Starting(t)
    BY <1>1, Records DEF KeyIsLive, Sound, Starting
<1>4. \A r \in Runs : Phase(task[r], leases[r])
    BY <1>1, RunIsTask, Records DEF Phase
<1>5. \A x \in Ids : Timed(record[x]) /\ \A r \in Runs : Held(r, x)
    BY <1>1, Records DEF Timed, Held
<1> QED BY <1>2, <1>3, <1>4, <1>5 DEF Inv

LEMMA NextInv ==
    ASSUME Inv, Next
    PROVE  Inv' /\ Spared
<1>1. ASSUME NEW r \in Runs, Ensure(r) \/ UseEnd(r) PROVE Inv' /\ Spared
    BY <1>1, EnsureBeginInv, ReuseInv, StartInv, NotReadyInv, ReadyInv, AcquiredInv, EndsInv,
       EnsureEndInv DEF Ensure
<1>2. ASSUME NEW r \in Runs, Releasing(r) \/ ReleaseFails(r) \/ StopFails(r) PROVE Inv' /\ Spared
    BY <1>2, RunIsTask, ReleaseInv, ReleasedInv, StopWritesInv, FailsInv DEF Releasing
<1>3. ASSUME NEW a \in Archivers, Archiving(a) PROVE Inv' /\ Spared
    BY <1>3, RunIsTask, ArchiveInv, ArchiveStopsInv, StopWritesInv, FailsInv DEF Archiving
<1> QED BY <1>1, <1>2, <1>3, BackgroundInv, RestartInv, ReconcileInv DEF Next

LEMMA Stutter ==
    ASSUME Inv, UNCHANGED vars
    PROVE  Inv' /\ Spared
<1>1. Inv'
    BY DEF Inv, vars, TypeOK, KeyIsLive, Names, Sound, Starting, Phase, Timed, Held, HeldBy
<1>2. Spared
    BY DEF Spared, Exempt, vars
<1> QED BY <1>1, <1>2

LEMMA Invariance == Spec => []Inv
<1> QED BY InitInv, NextInv, Stutter, PTL DEF Spec

(* The records, the maps and every run and request in progress stay of their *)
(* types.                                                                    *)
THEOREM TypeCorrect == Spec => []TypeOK
<1>1. Inv => TypeOK
    BY DEF Inv
<1> QED BY <1>1, Invariance, PTL

(* A reuse key leads to a live service of that name, whatever stops and       *)
(* exits come between the awaits of starts and releases.                     *)
THEOREM KeysAreLive == Spec => []KeyIsLive
<1>1. Inv => KeyIsLive
    BY DEF Inv
<1> QED BY <1>1, Invariance, PTL

(* As long as no statement has failed, a run that is over has no lease.      *)
THEOREM LeasesEndWithRuns == Spec => []LeasesEnd
<1>1. Inv => LeasesEnd
    <2> SUFFICES ASSUME Inv, failures = 0, NEW x \in Ids, NEW r \in record[x].leasedBy,
                        At(r, "idle")
                 PROVE  FALSE
        BY DEF LeasesEnd
    <2>1. r \in Runs /\ r \in Tasks
        BY StoreFacts, RunIsTask DEF ServiceRecord
    <2>2. HeldBy(task[r], leases[r], x) /\ Phase(task[r], leases[r])
        BY <2>1, HeldFacts, TaskFacts
    <2> QED BY <2>2 DEF HeldBy, Phase, At
<1> QED BY <1>1, Invariance, PTL

(* A leased service is stopped only by its own exit, by an archive, or by a  *)
(* restart: not by its timer, nor by another run that releases it.           *)
THEOREM LeasedAreSpared == Spec => LeasedIsSpared
<1>1. ASSUME Inv, [Next]_vars
      PROVE  [\A x \in Ids :
                 record[x].live /\ record[x].leasedBy # {} /\ ~record'[x].live =>
                     ChildExits(x) \/ (\E a \in Archivers : ArchiveStops(a, x)) \/ Restart]_vars
    BY <1>1, NextInv DEF Spared, Exempt
<1> QED BY <1>1, Invariance, PTL DEF Spec, LeasedIsSpared

=============================================================================
