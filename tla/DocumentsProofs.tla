-------------------------- MODULE DocumentsProofs ---------------------------
(***************************************************************************)
(* Proofs about Documents, for any number of writers, deletions, documents  *)
(* and revisions: the statements of interleaved transactions implement the  *)
(* register, and a document exists under its key only.                      *)
(***************************************************************************)
EXTENDS Documents, SequenceTheorems, TLAPS

Replaces == {"update", "touch", "save"}
Creates  == {"insertLink", "publish"}
Deletes  == {"deleteLink", "deleteDoc", "remove"}

Fresh(i) == \A d \in Docs, n \in Numbers : revisions[d][n].id # i

(* What a request knows in each place: what it has read is still the last     *)
(* revision once it has inserted the next.                                    *)
Knows(x) ==
    /\ x.doc \in used \cup {None} /\ x.id \in used \cup {None}
    /\ x.pc \in Replaces \cup {"insert"} =>
        /\ x.doc \in Docs /\ x.base \in Ids
        /\ x.number \in Numbers /\ x.number < MaxRevisions
    /\ x.pc = "insert" /\ Live(x.doc) =>
        /\ x.number <= rows[x.doc].number
        /\ rows[x.doc].number = x.number => rows[x.doc].latest = x.base
    /\ x.pc \in Replaces => rows[x.doc] = [number |-> x.number, latest |-> x.base]
    /\ x.pc \in Creates => x.doc \in Docs /\ ~Live(x.doc)
    /\ x.pc \in Replaces \cup Creates => x.id \in Ids /\ Fresh(x.id)
    /\ x.pc = "publish" => link = None
    /\ x.pc \in Deletes => x.doc \in Docs

(* Two requests in progress are about different rows.                         *)
Apart(x, y) ==
    /\ x.pc \in Replaces \cup Creates => x.id # y.id
    /\ x.pc \in Creates => x.doc # y.doc
    /\ x.pc \in Replaces /\ y.pc \in Replaces \cup {"remove"} => x.doc # y.doc
    /\ ~(x.pc = "publish" /\ y.pc = "publish")

(* The row of a document is about its last revision.                          *)
Filled(d) == Live(d) =>
    /\ revisions[d][rows[d].number].id = rows[d].latest
    /\ \A n \in Numbers : revisions[d][n] # NoRevision <=> n <= rows[d].number

StoreInv ==
    /\ ExistsUnderKey
    /\ \A d \in Docs : Filled(d) /\ (Live(d) => d \in used)
    /\ \A d \in Docs, n \in Numbers : revisions[d][n].id \in used \cup {None}

Inv ==
    /\ TypeOK /\ StoreInv
    /\ \A t \in Tasks : Knows(task[t])
    /\ \A t, u \in Tasks : t # u => Apart(task[t], task[u])

-----------------------------------------------------------------------------
LEMMA Constants ==
    /\ None \notin Docs /\ None \notin Ids /\ Writers \subseteq Tasks /\ Deleters \subseteq Tasks
    /\ MaxRevisions \in Nat /\ 1 \in Numbers /\ Numbers \subseteq Nat
    /\ NoRow \notin Row /\ NoRevision \notin Revision /\ NoRevision.id = None
    /\ IdleTask \in Task /\ IdleTask.pc = "idle" /\ IdleTask.id = None /\ IdleTask.doc = None
    /\ IdleTask.base = None /\ IdleTask.number = 0
BY DocumentsAssumption DEF Tasks, Numbers, NoRow, Row, NoRevision, Revision, IdleTask, Task, PCs

LEMMA Facts ==
    ASSUME Inv
    PROVE  /\ link \in Docs \cup {None} /\ used \subseteq Docs \cup Ids
           /\ rows \in [Docs -> Row \cup {NoRow}]
           /\ revisions \in [Docs -> [Numbers -> Revision \cup {NoRevision}]]
           /\ task \in [Tasks -> Task]
BY DEF Inv, TypeOK

LEMMA RowFacts ==
    ASSUME Inv, NEW d \in Docs, Live(d)
    PROVE  /\ rows[d] \in Row /\ rows[d].number \in Numbers /\ rows[d].latest \in Ids
           /\ link = d /\ d \in used /\ Filled(d)
BY Facts DEF Inv, StoreInv, ExistsUnderKey, Live, Row

LEMMA TaskFacts ==
    ASSUME Inv, NEW u \in Tasks
    PROVE  /\ task[u] \in Task /\ Knows(task[u])
           /\ task[u].pc \in Replaces \cup Creates => task[u].id # None
           /\ task[u].pc \in Replaces \cup Creates \cup Deletes => task[u].doc # None
           /\ task[u].pc \in Creates => ~Live(task[u].doc)
BY Facts, Constants DEF Inv, Knows, Replaces, Creates, Deletes

(* A request that has inserted nothing is apart from all others.              *)
LEMMA ApartFromNew ==
    ASSUME Inv, NEW u \in Tasks, NEW y \in Task,
           y.pc \in {"idle", "insert", "insertNew", "deleteLink"}, y.id = None,
           y.doc = None \/ Live(y.doc)
    PROVE  Apart(y, task[u]) /\ Apart(task[u], y)
BY TaskFacts DEF Apart, Replaces, Creates

(* A step of one request that writes no row.                                  *)
LEMMA MoveInv ==
    ASSUME Inv, NEW t \in Tasks, NEW y \in Task, task' = [task EXCEPT ![t] = y], Unchanged,
           used \subseteq used', used' \subseteq Docs \cup Ids, Knows(y)',
           \A u \in Tasks \ {t} : Apart(y, task[u]) /\ Apart(task[u], y)
    PROVE  Inv'
<1>1. /\ task' \in [Tasks -> Task] /\ task'[t] = y
      /\ \A u \in Tasks \ {t} : task'[u] = task[u]
    BY Facts
<1>2. TypeOK'
    BY <1>1, Facts DEF TypeOK, Unchanged
<1>3. StoreInv'
    BY DEF Inv, StoreInv, Unchanged, ExistsUnderKey, Filled, Live
<1>4. ASSUME NEW u \in Tasks PROVE Knows(task[u])'
    <2>1. CASE u = t
        BY <1>1, <2>1 DEF Knows, Live, Fresh
    <2>2. CASE u # t
        <3>1. Knows(task[u]) /\ task'[u] = task[u]
            BY <1>1, <2>2 DEF Inv
        <3> QED BY <3>1 DEF Knows, Live, Fresh, Unchanged
    <2> QED BY <2>1, <2>2
<1>5. \A u, v \in Tasks : u # v => Apart(task[u], task[v])'
    BY <1>1 DEF Inv, Apart
<1> QED BY <1>2, <1>3, <1>4, <1>5 DEF Inv

LEMMA ReturnInv ==
    ASSUME Inv, NEW t \in Tasks, Return(t), Unchanged, UNCHANGED used
    PROVE  Inv'
<1>1. Knows(IdleTask)'
    BY Constants DEF Knows, Replaces, Creates, Deletes
<1>2. \A u \in Tasks : Apart(IdleTask, task[u]) /\ Apart(task[u], IdleTask)
    BY Constants, ApartFromNew
<1> QED BY <1>1, <1>2, MoveInv, Facts, Constants DEF Return

(* A request goes on to its next statement.                                   *)
LEMMA GotoInv ==
    ASSUME Inv, NEW t \in Tasks, NEW pc \in PCs, Goto(t, pc), Unchanged, UNCHANGED used,
           \/ task[t].pc \in Replaces /\ pc \in Replaces
           \/ task[t].pc = "insertLink" /\ pc = "publish" /\ link = None
              /\ \A u \in Tasks \ {t} : task[u].pc # "publish"
           \/ task[t].pc \in Deletes /\ pc = "deleteDoc"
           \/ task[t].pc \in Deletes /\ pc = "remove"
              /\ \A u \in Tasks \ {t} : ~Replacing(u, task[t].doc)
    PROVE  Inv'
<1>1. PICK y \in Task :
          /\ y.pc = pc /\ y.doc = task[t].doc /\ y.id = task[t].id
          /\ y.base = task[t].base /\ y.number = task[t].number
          /\ task' = [task EXCEPT ![t] = y]
    <2>1. [task[t] EXCEPT !.pc = pc] \in Task
        BY Facts DEF Task
    <2> QED BY <2>1, Facts DEF Goto, Task
<1>3. Knows(task[t]) /\ \A u \in Tasks \ {t} : Apart(task[t], task[u]) /\ Apart(task[u], task[t])
    BY DEF Inv
<1>4. Knows(y)'
    BY <1>1, <1>3 DEF Knows, Replaces, Creates, Deletes, Unchanged, Live, Fresh
<1>5. ASSUME NEW u \in Tasks \ {t} PROVE Apart(y, task[u]) /\ Apart(task[u], y)
    BY <1>1, <1>3 DEF Apart, Replaces, Creates, Deletes, Replacing
<1> QED BY <1>1, <1>4, <1>5, MoveInv, Facts

-----------------------------------------------------------------------------
(* The statements.                                                            *)
LEMMA UpsertRequestInv ==
    ASSUME Inv, NEW t \in Tasks, NEW base \in (used \cap Ids) \cup {None}, UpsertRequest(t, base)
    PROVE  Inv'
<1>1. At(t, "idle") /\ Unchanged /\ UNCHANGED used
    BY DEF UpsertRequest
<1>2. ASSUME link # None, base = rows[link].latest, rows[link].number < MaxRevisions,
             task' = [task EXCEPT ![t] = [pc |-> "insert", base |-> base, doc |-> link,
                                          number |-> rows[link].number, id |-> None]]
      PROVE  Inv'
    <2>1. link \in Docs /\ Live(link)
        BY <1>2, Facts DEF Inv, StoreInv, ExistsUnderKey
    <2>2. rows[link].number \in Numbers /\ base \in Ids /\ link \in used
        BY <1>2, <2>1, RowFacts
    <2>3. PICK y \in Task :
              /\ y.pc = "insert" /\ y.doc = link /\ y.id = None /\ y.base = base
              /\ y.number = rows[link].number /\ task' = [task EXCEPT ![t] = y]
        <3>1. [pc |-> "insert", base |-> base, doc |-> link,
               number |-> rows[link].number, id |-> None] \in Task
            BY <2>1, <2>2, Constants DEF Task, PCs, Numbers
        <3> QED BY <1>2, <3>1
    <2>4. Knows(y)'
        <3>1. y.doc \in used /\ y.doc \in Docs /\ y.base \in Ids /\ y.number \in Numbers
            BY <2>1, <2>2, <2>3
        <3>2. y.number = rows[y.doc].number /\ rows[y.doc].latest = y.base
            BY <1>2, <2>3
        <3>3. y.number < MaxRevisions /\ y.number <= rows[y.doc].number
            <4>1. y.number \in Nat
                BY <3>1, Constants
            <4> QED BY <1>2, <2>3, <3>2, <4>1
        <3> QED BY <1>1, <2>3, <3>1, <3>2, <3>3 DEF Knows, Replaces, Creates, Deletes, Unchanged, Live
    <2>5. ASSUME NEW u \in Tasks \ {t} PROVE Apart(y, task[u]) /\ Apart(task[u], y)
        BY <2>1, <2>3, ApartFromNew
    <2> QED BY <1>1, <2>3, <2>4, <2>5, MoveInv, Facts
<1>3. ASSUME task' = [task EXCEPT ![t] = [IdleTask EXCEPT !.pc = "insertNew"]]
      PROVE  Inv'
    <2>1. PICK y \in Task : /\ y.pc = "insertNew" /\ y.doc = None /\ y.id = None
                            /\ task' = [task EXCEPT ![t] = y]
        <3>1. [IdleTask EXCEPT !.pc = "insertNew"] \in Task
            BY Constants DEF IdleTask, Task, PCs
        <3> QED BY <1>3, <3>1 DEF IdleTask
    <2>3. Knows(y)'
        BY <2>1 DEF Knows, Replaces, Creates, Deletes
    <2>4. ASSUME NEW u \in Tasks \ {t} PROVE Apart(y, task[u]) /\ Apart(task[u], y)
        BY <2>1, ApartFromNew
    <2> QED BY <1>1, <2>1, <2>3, <2>4, MoveInv, Facts
<1> QED BY <1>2, <1>3 DEF UpsertRequest, Matches

LEMMA InsertRevisionInv ==
    ASSUME Inv, NEW t \in Tasks, NEW i \in Ids, InsertRevision(t, i)
    PROVE  Inv'
<1>1. CASE Return(t) /\ UNCHANGED used
    BY <1>1, ReturnInv DEF InsertRevision
<1>2. ASSUME Live(task[t].doc), NumberIsFree(t), i \notin used, used' = used \cup {i},
             task' = [task EXCEPT ![t].pc = "update", ![t].id = i]
      PROVE  Inv'
    <2>0. PICK d, k : d = task[t].doc /\ k = task[t].number
        OBVIOUS
    <2>1. PICK y \in Task : /\ y.pc = "update" /\ y.id = i /\ y.doc = d /\ y.number = k
                            /\ y.base = task[t].base /\ task' = [task EXCEPT ![t] = y]
        <3>1. [task[t] EXCEPT !.pc = "update", !.id = i] \in Task
            BY Facts DEF Task, PCs
        <3>2. task' = [task EXCEPT ![t] = [task[t] EXCEPT !.pc = "update", !.id = i]]
            BY <1>2, Facts
        <3> QED BY <2>0, <3>1, <3>2, Facts DEF Task
    <2>3. At(t, "insert") /\ Unchanged /\ ~Awaited(t) /\ \A u \in Others(t) : ~Removing(u, d)
        BY <2>0 DEF InsertRevision
    <2>4. /\ d \in Docs /\ d \in used /\ task[t].base \in Ids /\ k \in Numbers /\ k < MaxRevisions
          /\ k <= rows[d].number /\ (rows[d].number = k => rows[d].latest = task[t].base)
        BY <1>2, <2>0, <2>3, TaskFacts, Constants DEF Knows, At
    <2>5. k + 1 \in Numbers /\ rows[d] \in Row /\ Filled(d)
        BY <1>2, <2>0, <2>4, RowFacts, Constants DEF Numbers
    <2>6. rows[d].number = k /\ rows[d].latest = task[t].base
        BY <1>2, <2>0, <2>4, <2>5 DEF NumberIsFree, Filled, Numbers, Row
    <2>7. rows[d] = [number |-> k, latest |-> task[t].base]
        BY <2>5, <2>6 DEF Row
    <2>8. Fresh(i) /\ i # None
        BY <1>2, Constants DEF Inv, StoreInv, Fresh
    <2>9. Knows(y)'
        BY <1>2, <2>0, <2>1, <2>3, <2>4, <2>7, <2>8
           DEF Knows, Replaces, Creates, Deletes, Unchanged, Live, Fresh
    <2>10. ASSUME NEW u \in Tasks \ {t} PROVE Apart(y, task[u]) /\ Apart(task[u], y)
        <3>1. Knows(task[u]) /\ Apart(task[u], task[t])
            BY DEF Inv
        <3>2. task[u].id # i
            BY <1>2, <2>8, <3>1 DEF Knows
        <3>3. task[u].pc \in Creates => task[u].doc # d
            BY <1>2, <2>0, TaskFacts
        <3>4. task[u].pc \in Replaces => task[u].doc # d
            <4> SUFFICES ASSUME task[u].pc \in Replaces, task[u].doc = d PROVE FALSE
                OBVIOUS
            <4>1. task[u].number = k
                BY <2>6, <3>1 DEF Knows
            <4> QED BY <4>1, <2>0, <2>3 DEF Awaited, Replacing, Replaces, Others
        <3>5. task[u].pc = "remove" => task[u].doc # d
            BY <1>2, <2>0, <2>3 DEF Removing, Others
        <3> QED BY <2>1, <3>2, <3>3, <3>4, <3>5 DEF Apart, Replaces, Creates
    <2> QED BY <1>2, <2>1, <2>3, <2>9, <2>10, MoveInv, Facts
<1> QED BY <1>1, <1>2 DEF InsertRevision

LEMMA InsertDocumentInv ==
    ASSUME Inv, NEW t \in Tasks, NEW d \in Docs, NEW i \in Ids, InsertDocument(t, d, i)
    PROVE  Inv'
<1>1. PICK y \in Task : /\ y.pc = "insertLink" /\ y.id = i /\ y.doc = d
                        /\ task' = [task EXCEPT ![t] = y]
    <2>1. [task[t] EXCEPT !.pc = "insertLink", !.doc = d, !.id = i] \in Task
        BY Facts DEF Task, PCs
    <2>2. task' = [task EXCEPT ![t] = [task[t] EXCEPT !.pc = "insertLink", !.doc = d, !.id = i]]
        BY Facts DEF InsertDocument
    <2> QED BY <2>1, <2>2, Facts DEF Task
<1>2. /\ Unchanged /\ used' = used \cup {d, i} /\ d \notin used /\ i \notin used
    BY DEF InsertDocument
<1>3. ~Live(d) /\ Fresh(i) /\ i # None /\ d # None
    BY <1>2, Constants DEF Inv, StoreInv, Fresh
<1>4. Knows(y)'
    BY <1>1, <1>2, <1>3 DEF Knows, Replaces, Creates, Deletes, Unchanged, Live, Fresh
<1>5. ASSUME NEW u \in Tasks \ {t} PROVE Apart(y, task[u]) /\ Apart(task[u], y)
    <2>1. task[u].id # i /\ task[u].doc # d
        BY <1>2, <1>3, TaskFacts DEF Knows
    <2> QED BY <1>1, <2>1 DEF Apart, Replaces, Creates
<1> QED BY <1>1, <1>2, <1>4, <1>5, MoveInv, Facts

LEMMA InsertLinkInv ==
    ASSUME Inv, NEW t \in Tasks, InsertLink(t)
    PROVE  Inv'
<1>1. CASE Return(t)
    BY <1>1, ReturnInv DEF InsertLink
<1>2. CASE link = None /\ Goto(t, "publish")
    <2>1. \A u \in Tasks \ {t} : task[u].pc # "publish"
        BY DEF InsertLink, KeyIsAwaited, Others, At
    <2> QED BY <1>2, <2>1, GotoInv DEF InsertLink, At, PCs
<1> QED BY <1>1, <1>2 DEF InsertLink, KeyIsFree

LEMMA WaitingInv ==
    ASSUME Inv, NEW t \in Tasks,
           UpdateDocument(t) \/ TouchLink(t) \/ DeleteLink(t) \/ DeleteDocument(t)
    PROVE  Inv'
<1>1. CASE UpdateDocument(t)
    BY <1>1, GotoInv DEF UpdateDocument, At, PCs, Replaces
<1>2. CASE TouchLink(t)
    BY <1>2, GotoInv DEF TouchLink, At, PCs, Replaces
<1>3. CASE DeleteLink(t)
    BY <1>3, GotoInv DEF DeleteLink, At, PCs, Deletes
<1>4. CASE DeleteDocument(t)
    BY <1>4, GotoInv DEF DeleteDocument, At, PCs, Deletes, Others
<1> QED BY <1>1, <1>2, <1>3, <1>4

LEMMA DeleteRequestInv ==
    ASSUME Inv, NEW t \in Tasks, DeleteRequest(t)
    PROVE  Inv'
<1>1. link \in Docs /\ link \in used
    BY Facts, RowFacts DEF DeleteRequest, Inv, StoreInv, ExistsUnderKey
<1>2. PICK y \in Task : /\ y.pc = "deleteLink" /\ y.doc = link /\ y.id = None
                        /\ task' = [task EXCEPT ![t] = y]
    <2>1. [IdleTask EXCEPT !.pc = "deleteLink", !.doc = link] \in Task
        BY <1>1, Constants DEF IdleTask, Task, PCs
    <2> QED BY <2>1 DEF DeleteRequest, IdleTask
<1>3. Unchanged /\ UNCHANGED used
    BY DEF DeleteRequest
<1>4. Knows(y)'
    BY <1>1, <1>2, <1>3 DEF Knows, Replaces, Creates, Deletes
<1>5. ASSUME NEW u \in Tasks \ {t} PROVE Apart(y, task[u]) /\ Apart(task[u], y)
    <2>1. Live(link)
        BY <1>1 DEF Inv, StoreInv, ExistsUnderKey
    <2> QED BY <1>1, <1>2, <2>1, ApartFromNew
<1> QED BY <1>2, <1>3, <1>4, <1>5, MoveInv, Facts

-----------------------------------------------------------------------------
(* The commits.                                                               *)
LEMMA CommitUpdateFacts ==
    ASSUME Inv, NEW t \in Tasks, CommitUpdate(t)
    PROVE  LET d == task[t].doc
               k == task[t].number
               r == [id |-> task[t].id, base |-> task[t].base]
           IN  /\ d \in Docs /\ Live(d) /\ link = d /\ k \in Numbers /\ k + 1 \in Numbers
               /\ task[t].id \in Ids /\ Fresh(task[t].id) /\ task[t].id \in used
               /\ r \in Revision /\ r # NoRevision
               /\ rows[d] = [number |-> k, latest |-> task[t].base]
               /\ rows' = [rows EXCEPT ![d] = [number |-> k + 1, latest |-> r.id]]
               /\ revisions' = [revisions EXCEPT ![d] = [revisions[d] EXCEPT ![k + 1] = r]]
               /\ revisions[d] \in [Numbers -> Revision \cup {NoRevision}]
               /\ UNCHANGED <<link, used>> /\ Return(t)
<1> PICK d, k, r : /\ d = task[t].doc /\ k = task[t].number
                   /\ r = [id |-> task[t].id, base |-> task[t].base]
    OBVIOUS
<1>1. /\ d \in Docs /\ task[t].base \in Ids /\ k \in Numbers /\ k < MaxRevisions
      /\ rows[d] = [number |-> k, latest |-> task[t].base]
      /\ task[t].id \in Ids /\ Fresh(task[t].id) /\ task[t].id \in used
    BY TaskFacts, Constants DEF CommitUpdate, At, Knows, Replaces
<1>2. Live(d) /\ link = d /\ k + 1 \in Numbers
    BY <1>1, Constants, Facts DEF Live, NoRow, Numbers, Inv, StoreInv, ExistsUnderKey
<1>3. r \in Revision /\ r # NoRevision /\ r.id = task[t].id
    BY <1>1, Constants DEF Revision
<1>4. revisions' = [revisions EXCEPT ![d] = [revisions[d] EXCEPT ![k + 1] = r]]
    BY <1>1, Facts DEF CommitUpdate
<1> QED BY <1>1, <1>2, <1>3, <1>4, Facts DEF CommitUpdate

LEMMA CommitUpdateInv ==
    ASSUME Inv, NEW t \in Tasks, CommitUpdate(t)
    PROVE  Inv'
<1>0. PICK d, k, r : /\ d = task[t].doc /\ k = task[t].number
                     /\ r = [id |-> task[t].id, base |-> task[t].base]
    OBVIOUS
<1>1. /\ d \in Docs /\ Live(d) /\ link = d /\ k \in Numbers /\ k + 1 \in Numbers
      /\ r.id \in Ids /\ Fresh(r.id) /\ r.id \in used /\ r.id = task[t].id
      /\ r \in Revision /\ r # NoRevision /\ rows[d].number = k
      /\ rows' = [rows EXCEPT ![d] = [number |-> k + 1, latest |-> r.id]]
      /\ revisions' = [revisions EXCEPT ![d] = [revisions[d] EXCEPT ![k + 1] = r]]
      /\ revisions[d] \in [Numbers -> Revision \cup {NoRevision}]
      /\ UNCHANGED <<link, used>> /\ Return(t)
    <2>1. rows[d] = [number |-> k, latest |-> task[t].base]
        BY <1>0, CommitUpdateFacts
    <2> QED BY <1>0, <2>1, CommitUpdateFacts
<1>2. /\ [number |-> k + 1, latest |-> r.id] \in Row
      /\ rows' \in [Docs -> Row \cup {NoRow}]
      /\ rows'[d] = [number |-> k + 1, latest |-> r.id]
      /\ \A e \in Docs \ {d} : rows'[e] = rows[e]
    BY <1>1, Facts DEF Row
<1>3. /\ revisions' \in [Docs -> [Numbers -> Revision \cup {NoRevision}]]
      /\ revisions'[d][k + 1] = r
      /\ \A n \in Numbers \ {k + 1} : revisions'[d][n] = revisions[d][n]
      /\ \A e \in Docs \ {d} : revisions'[e] = revisions[e]
    BY <1>1, Facts
<1>4. /\ task' \in [Tasks -> Task] /\ task'[t] = IdleTask
      /\ \A u \in Tasks \ {t} : task'[u] = task[u]
    BY <1>1, Facts, Constants DEF Return
<1>5. TypeOK'
    BY <1>1, <1>2, <1>3, <1>4, Facts DEF TypeOK
<1>6. Live(d)' /\ \A e \in Docs \ {d} : Live(e)' <=> Live(e)
    BY <1>1, <1>2, Constants DEF Live
<1>7. StoreInv'
    <2>1. ExistsUnderKey'
        BY <1>1, <1>3, <1>6 DEF Inv, StoreInv, ExistsUnderKey
    <2>2. ASSUME NEW e \in Docs PROVE Filled(e)' /\ (Live(e)' => e \in used')
        <3>1. CASE e = d
            <4>1. /\ \A n \in Numbers : revisions[d][n] # NoRevision <=> n <= k
                  /\ d \in used
                BY <1>1, RowFacts DEF Filled
            <4>2. \A n \in Numbers : n <= k + 1 <=> n <= k \/ n = k + 1
                BY <1>1, Constants DEF Numbers
            <4> QED BY <1>1, <1>2, <1>3, <3>1, <4>1, <4>2 DEF Filled
        <3>2. CASE e # d
            BY <1>1, <1>2, <1>3, <1>6, <3>2 DEF Inv, StoreInv, Filled
        <3> QED BY <3>1, <3>2
    <2>3. ASSUME NEW e \in Docs, NEW n \in Numbers
          PROVE  revisions'[e][n].id \in used' \cup {None}
        BY <1>1, <1>3 DEF Inv, StoreInv
    <2> QED BY <2>1, <2>2, <2>3 DEF StoreInv
<1>8. ASSUME NEW u \in Tasks PROVE Knows(task[u])'
    <2>1. CASE u = t
        BY <1>4, <2>1, Constants DEF Knows, Replaces, Creates, Deletes
    <2>2. CASE u # t
        <3>1. task'[u] = task[u] /\ Knows(task[u]) /\ task[u] \in Task
            BY <1>4, <2>2, TaskFacts
        <3>2. Apart(task[t], task[u]) /\ Apart(task[u], task[t])
            BY <2>2 DEF Inv
        <3>3. task[t].pc = "save"
            BY DEF CommitUpdate, At
        <3>4. task[u].pc \in Replaces => task[u].doc # d
            BY <1>0, <3>2, <3>3 DEF Apart, Replaces
        <3>5. ASSUME task[u].pc \in Replaces \cup Creates, NEW e \in Docs, NEW n \in Numbers
              PROVE  revisions'[e][n].id # task[u].id
            <4>1. task[u].id # r.id /\ Fresh(task[u].id)
                BY <1>1, <3>1, <3>2, <3>3, <3>5 DEF Apart, Knows, Replaces
            <4> QED BY <1>3, <4>1 DEF Fresh
        <3>6. task[u].pc = "insert" /\ rows'[task[u].doc] # NoRow =>
                  /\ task[u].number <= rows'[task[u].doc].number
                  /\ rows'[task[u].doc].number = task[u].number =>
                         rows'[task[u].doc].latest = task[u].base
            <4>1. CASE task[u].doc = d
                BY <1>1, <1>2, <3>1, <4>1, Constants DEF Knows, Numbers
            <4>2. CASE task[u].doc # d
                BY <1>2, <3>1, <4>2 DEF Knows, Live
            <4> QED BY <4>1, <4>2
        <3>7. task[u].pc \in Replaces =>
                  rows'[task[u].doc] = [number |-> task[u].number, latest |-> task[u].base]
            BY <1>2, <3>1, <3>4 DEF Knows
        <3>8. task[u].pc \in Creates => task[u].doc \in Docs /\ rows'[task[u].doc] = NoRow
            BY <1>1, <1>2, <3>1 DEF Knows, Live
        <3> QED BY <1>1, <3>1, <3>5, <3>6, <3>7, <3>8 DEF Knows, Live, Fresh
    <2> QED BY <2>1, <2>2
<1>9. ASSUME NEW u \in Tasks, NEW v \in Tasks, u # v PROVE Apart(task[u], task[v])'
    BY <1>4, <1>9, Constants, ApartFromNew DEF Inv, Apart
<1> QED BY <1>5, <1>7, <1>8, <1>9 DEF Inv

LEMMA CommitCreateFacts ==
    ASSUME Inv, NEW t \in Tasks, CommitCreate(t)
    PROVE  LET d == task[t].doc
               r == [id |-> task[t].id, base |-> None]
           IN  /\ d \in Docs /\ ~Live(d) /\ link = None /\ d \in used /\ link' = d
               /\ task[t].id \in Ids /\ Fresh(task[t].id) /\ task[t].id \in used
               /\ r \in Revision /\ r # NoRevision
               /\ rows' = [rows EXCEPT ![d] = [number |-> 1, latest |-> r.id]]
               /\ revisions' = [revisions EXCEPT ![d] = [revisions[d] EXCEPT ![1] = r]]
               /\ UNCHANGED used /\ Return(t)
<1> PICK d, r : d = task[t].doc /\ r = [id |-> task[t].id, base |-> None]
    OBVIOUS
<1>1. /\ d \in Docs /\ ~Live(d) /\ link = None
      /\ task[t].id \in Ids /\ Fresh(task[t].id)
      /\ d \in used /\ task[t].id \in used
    BY TaskFacts, Constants DEF CommitCreate, At, Knows, Creates
<1>2. r \in Revision /\ r # NoRevision /\ r.id = task[t].id
    BY <1>1, Constants DEF Revision, NoRevision
<1>3. revisions' = [revisions EXCEPT ![d] = [revisions[d] EXCEPT ![1] = r]]
    BY <1>1, Facts DEF CommitCreate
<1> QED BY <1>1, <1>2, <1>3 DEF CommitCreate

LEMMA CommitCreateInv ==
    ASSUME Inv, NEW t \in Tasks, CommitCreate(t)
    PROVE  Inv'
<1>0. PICK d, r : d = task[t].doc /\ r = [id |-> task[t].id, base |-> None]
    OBVIOUS
<1>1. /\ d \in Docs /\ ~Live(d) /\ link = None /\ d \in used /\ link' = d
      /\ r.id \in Ids /\ Fresh(r.id) /\ r.id \in used /\ r.id = task[t].id
      /\ r \in Revision /\ r # NoRevision
      /\ rows' = [rows EXCEPT ![d] = [number |-> 1, latest |-> r.id]]
      /\ revisions' = [revisions EXCEPT ![d] = [revisions[d] EXCEPT ![1] = r]]
      /\ UNCHANGED used /\ Return(t)
    BY <1>0, CommitCreateFacts
<1>2. /\ rows' \in [Docs -> Row \cup {NoRow}]
      /\ rows'[d] = [number |-> 1, latest |-> r.id]
      /\ \A e \in Docs \ {d} : rows'[e] = rows[e]
    <2>1. [number |-> 1, latest |-> r.id] \in Row
        BY <1>1, Constants DEF Row
    <2> QED BY <1>1, <2>1, Facts
<1>3. /\ revisions' \in [Docs -> [Numbers -> Revision \cup {NoRevision}]]
      /\ revisions'[d][1] = r
      /\ \A n \in Numbers \ {1} : revisions'[d][n] = revisions[d][n]
      /\ \A e \in Docs \ {d} : revisions'[e] = revisions[e]
    BY <1>1, Facts, Constants
<1>4. /\ task' \in [Tasks -> Task] /\ task'[t] = IdleTask
      /\ \A u \in Tasks \ {t} : task'[u] = task[u]
    BY <1>1, Facts, Constants DEF Return
<1>5. TypeOK'
    BY <1>1, <1>2, <1>3, <1>4, Facts DEF TypeOK
<1>6. \A e \in Docs : ~Live(e) /\ \A n \in Numbers : revisions[e][n] = NoRevision
    BY <1>1, Constants DEF Inv, StoreInv, ExistsUnderKey
<1>7. rows'[d] # NoRow /\ \A e \in Docs \ {d} : rows'[e] = NoRow
    BY <1>2, <1>6, Constants DEF Live, NoRow
<1>8. StoreInv'
    <2>1. ExistsUnderKey'
        BY <1>1, <1>3, <1>6, <1>7 DEF ExistsUnderKey, Live
    <2>2. ASSUME NEW e \in Docs PROVE Filled(e)' /\ (Live(e)' => e \in used')
        <3>1. CASE e = d
            <4>1. \A n \in Numbers : n <= 1 <=> n = 1
                BY DEF Numbers
            <4> QED BY <1>1, <1>2, <1>3, <1>6, <3>1, <4>1, Constants DEF Filled
        <3>2. CASE e # d
            BY <1>7, <3>2 DEF Filled, Live
        <3> QED BY <3>1, <3>2
    <2>3. ASSUME NEW e \in Docs, NEW n \in Numbers
          PROVE  revisions'[e][n].id \in used' \cup {None}
        BY <1>1, <1>3, Facts DEF Inv, StoreInv
    <2> QED BY <2>1, <2>2, <2>3 DEF StoreInv
<1>9. ASSUME NEW u \in Tasks PROVE Knows(task[u])'
    <2>1. CASE u = t
        BY <1>4, <2>1, Constants DEF Knows, Replaces, Creates, Deletes
    <2>2. CASE u # t
        <3>1. task'[u] = task[u] /\ Knows(task[u]) /\ task[u] \in Task
            BY <1>4, <2>2, TaskFacts
        <3>2. Apart(task[t], task[u]) /\ Apart(task[u], task[t]) /\ task[t].pc = "publish"
            BY <2>2 DEF Inv, CommitCreate, At
        <3>3. task[u].pc # "publish" /\ task[u].doc # d
            BY <1>0, <3>2 DEF Apart, Creates
        <3>4. ASSUME task[u].pc \in Replaces \cup Creates, NEW e \in Docs, NEW n \in Numbers
              PROVE  revisions'[e][n].id # task[u].id
            <4>1. task[u].id # r.id /\ Fresh(task[u].id)
                BY <1>1, <3>1, <3>2, <3>4 DEF Apart, Knows, Creates
            <4> QED BY <1>3, <4>1 DEF Fresh
        <3>5. task[u].pc = "insert" /\ rows'[task[u].doc] # NoRow =>
                  /\ task[u].number <= rows'[task[u].doc].number
                  /\ rows'[task[u].doc].number = task[u].number =>
                         rows'[task[u].doc].latest = task[u].base
            BY <1>7, <3>1, <3>3 DEF Knows
        <3>6. task[u].pc \notin Replaces
            BY <1>6, <3>1, Facts, Constants DEF Knows, Live, NoRow
        <3>7. task[u].pc \in Creates => task[u].doc \in Docs /\ rows'[task[u].doc] = NoRow
            BY <1>7, <3>1, <3>3 DEF Knows
        <3> QED BY <1>1, <3>1, <3>3, <3>4, <3>5, <3>6, <3>7 DEF Knows, Live, Fresh
    <2> QED BY <2>1, <2>2
<1>10. ASSUME NEW u \in Tasks, NEW v \in Tasks, u # v PROVE Apart(task[u], task[v])'
    BY <1>4, <1>10, Constants, ApartFromNew DEF Inv, Apart
<1> QED BY <1>5, <1>8, <1>9, <1>10 DEF Inv

LEMMA CommitDeleteInv ==
    ASSUME Inv, NEW t \in Tasks, CommitDelete(t)
    PROVE  Inv'
<1>0. PICK d : d = task[t].doc
    OBVIOUS
<1>1. /\ d \in Docs /\ task[t].pc = "remove"
      /\ link' = (IF link = d THEN None ELSE link)
      /\ rows' = [rows EXCEPT ![d] = NoRow]
      /\ revisions' = [revisions EXCEPT ![d] = [n \in Numbers |-> NoRevision]]
      /\ UNCHANGED used /\ Return(t)
    BY <1>0, TaskFacts DEF CommitDelete, At, Knows, Deletes
<1>2. /\ rows' \in [Docs -> Row \cup {NoRow}] /\ rows'[d] = NoRow
      /\ \A e \in Docs \ {d} : rows'[e] = rows[e]
    BY <1>1, Facts
<1>3. /\ revisions' \in [Docs -> [Numbers -> Revision \cup {NoRevision}]]
      /\ \A n \in Numbers : revisions'[d][n] = NoRevision
      /\ \A e \in Docs \ {d} : revisions'[e] = revisions[e]
    BY <1>1, Facts
<1>4. /\ task' \in [Tasks -> Task] /\ task'[t] = IdleTask
      /\ \A u \in Tasks \ {t} : task'[u] = task[u]
    BY <1>1, Facts, Constants DEF Return
<1>5. TypeOK'
    BY <1>1, <1>2, <1>3, <1>4, Facts DEF TypeOK
<1>6. StoreInv'
    <2>1. ExistsUnderKey'
        <3>1. \A e \in Docs : Live(e) <=> link = e
            BY DEF Inv, StoreInv, ExistsUnderKey
        <3>2. \A e \in Docs \ {d} : ~Live(e) => \A n \in Numbers : revisions[e][n] = NoRevision
            BY DEF Inv, StoreInv, ExistsUnderKey
        <3>3. ASSUME NEW e \in Docs PROVE rows'[e] # NoRow <=> link' = e
            BY <1>1, <1>2, <3>1, Constants DEF Live
        <3>4. ASSUME NEW e \in Docs, rows'[e] = NoRow, NEW n \in Numbers
              PROVE  revisions'[e][n] = NoRevision
            BY <1>2, <1>3, <3>2, <3>4 DEF Live
        <3> QED BY <3>3, <3>4 DEF ExistsUnderKey, Live
    <2>2. ASSUME NEW e \in Docs PROVE Filled(e)' /\ (Live(e)' => e \in used')
        <3>1. CASE e = d
            BY <1>2, <3>1 DEF Filled, Live
        <3>2. CASE e # d
            BY <1>1, <1>2, <1>3, <3>2 DEF Inv, StoreInv, Filled, Live
        <3> QED BY <3>1, <3>2
    <2>3. ASSUME NEW e \in Docs, NEW n \in Numbers
          PROVE  revisions'[e][n].id \in used' \cup {None}
        BY <1>1, <1>3, Constants DEF Inv, StoreInv
    <2> QED BY <2>1, <2>2, <2>3 DEF StoreInv
<1>7. ASSUME NEW u \in Tasks PROVE Knows(task[u])'
    <2>1. CASE u = t
        BY <1>4, <2>1, Constants DEF Knows, Replaces, Creates, Deletes
    <2>2. CASE u # t
        <3>1. task'[u] = task[u] /\ Knows(task[u])
            BY <1>4, <2>2, TaskFacts
        <3>2. task[u].pc \in Replaces => task[u].doc # d
            BY <1>0, <1>1, <2>2 DEF Inv, Apart
        <3>3. task[u].pc = "insert" /\ rows'[task[u].doc] # NoRow =>
                  /\ task[u].number <= rows'[task[u].doc].number
                  /\ rows'[task[u].doc].number = task[u].number =>
                         rows'[task[u].doc].latest = task[u].base
            BY <1>2, <3>1 DEF Knows, Live
        <3>4. task[u].pc \in Replaces =>
                  rows'[task[u].doc] = [number |-> task[u].number, latest |-> task[u].base]
            BY <1>2, <3>1, <3>2 DEF Knows
        <3>5. task[u].pc \in Creates => task[u].doc \in Docs /\ rows'[task[u].doc] = NoRow
            BY <1>2, <3>1 DEF Knows, Live
        <3>6. ASSUME task[u].pc \in Replaces \cup Creates, NEW e \in Docs, NEW n \in Numbers
              PROVE  revisions'[e][n].id # task[u].id
            BY <1>3, <3>1, <3>6, Constants DEF Knows, Fresh
        <3>7. task[u].pc = "publish" => link' = None
            BY <1>1, <3>1 DEF Knows
        <3> QED BY <1>1, <3>1, <3>3, <3>4, <3>5, <3>6, <3>7 DEF Knows, Live, Fresh
    <2> QED BY <2>1, <2>2
<1>8. ASSUME NEW u \in Tasks, NEW v \in Tasks, u # v PROVE Apart(task[u], task[v])'
    BY <1>4, <1>8, Constants, ApartFromNew DEF Inv, Apart
<1> QED BY <1>5, <1>6, <1>7, <1>8 DEF Inv

-----------------------------------------------------------------------------
LEMMA InitInv == Init => Inv
<1> SUFFICES ASSUME Init PROVE Inv
    OBVIOUS
<1>1. TypeOK
    BY Constants DEF Init, TypeOK
<1>2. StoreInv
    <2>1. \A d \in Docs : ~Live(d) /\ link # d /\ \A n \in Numbers : revisions[d][n] = NoRevision
        BY Constants DEF Init, Live
    <2> QED BY <2>1, Constants DEF StoreInv, ExistsUnderKey, Filled
<1>3. \A t \in Tasks : task[t] = IdleTask
    BY DEF Init
<1>4. \A t \in Tasks : Knows(task[t])
    BY <1>3, Constants DEF Knows, Replaces, Creates, Deletes
<1>5. \A t, u \in Tasks : Apart(task[t], task[u])
    BY <1>3, Constants DEF Apart, Replaces, Creates
<1> QED BY <1>1, <1>2, <1>4, <1>5 DEF Inv

LEMMA NextInv == Inv /\ [Next]_vars => Inv'
<1> SUFFICES ASSUME Inv, [Next]_vars PROVE Inv'
    OBVIOUS
<1>1. CASE UNCHANGED vars
    BY <1>1 DEF vars, Inv, TypeOK, StoreInv, ExistsUnderKey, Filled, Live, Knows, Fresh, Apart
<1>2. ASSUME NEW t \in Writers, WriterStep(t) PROVE Inv'
    <2>1. t \in Tasks
        BY Constants
    <2>2. CASE \E base \in (used \cap Ids) \cup {None} : UpsertRequest(t, base)
        BY <2>1, <2>2, UpsertRequestInv
    <2>3. CASE \E i \in Ids : InsertRevision(t, i)
        BY <2>1, <2>3, InsertRevisionInv
    <2>4. CASE UpdateDocument(t) \/ TouchLink(t)
        BY <2>1, <2>4, WaitingInv
    <2>5. CASE CommitUpdate(t)
        BY <2>1, <2>5, CommitUpdateInv
    <2>6. CASE \E d \in Docs, i \in Ids : InsertDocument(t, d, i)
        BY <2>1, <2>6, InsertDocumentInv
    <2>7. CASE InsertLink(t)
        BY <2>1, <2>7, InsertLinkInv
    <2>8. CASE CommitCreate(t)
        BY <2>1, <2>8, CommitCreateInv
    <2> QED BY <1>2, <2>2, <2>3, <2>4, <2>5, <2>6, <2>7, <2>8 DEF WriterStep
<1>3. ASSUME NEW t \in Deleters, DeleterStep(t) PROVE Inv'
    <2>1. t \in Tasks
        BY Constants
    <2>2. CASE DeleteRequest(t)
        BY <2>1, <2>2, DeleteRequestInv
    <2>3. CASE DeleteLink(t) \/ DeleteDocument(t)
        BY <2>1, <2>3, WaitingInv
    <2>4. CASE CommitDelete(t)
        BY <2>1, <2>4, CommitDeleteInv
    <2> QED BY <1>3, <2>2, <2>3, <2>4 DEF DeleterStep
<1>4. ASSUME NEW t \in Tasks, Rollback(t) PROVE Inv'
    BY <1>4, ReturnInv DEF Rollback
<1> QED BY <1>1, <1>2, <1>3, <1>4 DEF Next

LEMMA Invariance == Spec => []Inv
BY InitInv, NextInv, PTL DEF Spec

(* The variables of the model keep their types in every reachable state.      *)
THEOREM TypeCorrect == Spec => []TypeOK
<1>1. Inv => TypeOK
    BY DEF Inv
<1> QED BY <1>1, Invariance, PTL

(* upsertIssueDocument and deleteIssueDocument: whatever requests of them      *)
(* interleave, a document exists exactly while the key leads to it.           *)
THEOREM NoOrphans == Spec => []ExistsUnderKey
<1>1. Inv => ExistsUnderKey
    BY DEF Inv, StoreInv
<1> QED BY <1>1, Invariance, PTL

-----------------------------------------------------------------------------
(* What a commit is for the readers of the key.                               *)
LEMMA HistoryFacts ==
    ASSUME NEW row \in Row, NEW kept \in [Numbers -> Revision \cup {NoRevision}],
           kept[row.number].id = row.latest,
           \A n \in 1 .. row.number : kept[n] \in Revision
    PROVE  /\ History(row, kept) \in Seq(Revision)
           /\ Len(History(row, kept)) = row.number
           /\ \A n \in 1 .. row.number : History(row, kept)[n] = kept[n]
<1>1. row.number \in Nat \ {0} /\ row.latest \in Ids
    BY DEF Row, Numbers
<1>2. [kept[row.number] EXCEPT !.id = row.latest] = kept[row.number]
    BY <1>1 DEF Revision
<1>3. History(row, kept) = [n \in 1 .. row.number |-> kept[n]]
    BY <1>2 DEF History
<1>4. [n \in 1 .. row.number |-> kept[n]] \in Seq(Revision)
    BY <1>1
<1> QED BY <1>1, <1>3, <1>4

LEMMA SeenFacts ==
    ASSUME Inv, NEW d \in Docs, link = d
    PROVE  /\ Seen \in Seq(Revision) /\ Len(Seen) = rows[d].number /\ Seen # << >>
           /\ Len(Seen) \in Numbers /\ Seen[Len(Seen)].id = rows[d].latest
           /\ \A n \in 1 .. Len(Seen) : n \in Numbers /\ Seen[n] = revisions[d][n]
           /\ Reg!Base = rows[d].latest
<1>1. Live(d)
    BY DEF Inv, StoreInv, ExistsUnderKey
<1>2. /\ rows[d] \in Row /\ rows[d].number \in Numbers
      /\ revisions[d][rows[d].number].id = rows[d].latest
      /\ \A n \in Numbers : revisions[d][n] # NoRevision <=> n <= rows[d].number
      /\ revisions[d] \in [Numbers -> Revision \cup {NoRevision}]
    BY <1>1, RowFacts, Facts DEF Filled
<1>3. ASSUME NEW n \in 1 .. rows[d].number PROVE n \in Numbers /\ revisions[d][n] \in Revision
    <2>1. n \in Numbers /\ n <= rows[d].number
        BY <1>2, Constants DEF Numbers
    <2> QED BY <1>2, <2>1
<1>4. Seen = History(rows[d], revisions[d])
    BY Constants DEF Seen
<1>5. /\ Seen \in Seq(Revision) /\ Len(Seen) = rows[d].number
      /\ \A n \in 1 .. rows[d].number : Seen[n] = revisions[d][n]
    BY <1>2, <1>3, <1>4, HistoryFacts
<1>6. Len(Seen) \in 1 .. rows[d].number /\ Seen # << >>
    BY <1>2, <1>5, Constants DEF Numbers
<1>7. Seen[Len(Seen)].id = rows[d].latest
    BY <1>2, <1>5, <1>6
<1>8. Reg!Base = rows[d].latest
    BY <1>6, <1>7 DEF Reg!Base
<1> QED BY <1>2, <1>3, <1>5, <1>6, <1>7, <1>8

LEMMA UpdateIsWrite ==
    ASSUME Inv, NEW t \in Tasks, CommitUpdate(t)
    PROVE  [Reg!Next]_Seen
<1>0. PICK d, k, r : /\ d = task[t].doc /\ k = task[t].number
                     /\ r = [id |-> task[t].id, base |-> task[t].base]
    OBVIOUS
<1>1. /\ d \in Docs /\ Live(d) /\ link = d /\ k \in Numbers /\ k + 1 \in Numbers
      /\ Fresh(r.id) /\ r \in Revision
      /\ rows' = [rows EXCEPT ![d] = [number |-> k + 1, latest |-> r.id]]
      /\ revisions' = [revisions EXCEPT ![d] = [revisions[d] EXCEPT ![k + 1] = r]]
      /\ revisions[d] \in [Numbers -> Revision \cup {NoRevision}]
      /\ link' = d
    BY <1>0, CommitUpdateFacts
<1>2. rows[d].number = k /\ rows[d].latest = r.base
    <2>1. rows[d] = [number |-> k, latest |-> task[t].base]
        BY <1>0, CommitUpdateFacts
    <2> QED BY <1>0, <2>1
<1>3. /\ Seen \in Seq(Revision) /\ Len(Seen) = k /\ Reg!Base = r.base
      /\ \A n \in 1 .. k : n \in Numbers /\ Seen[n] = revisions[d][n]
    BY <1>1, <1>2, SeenFacts
<1>4. \A n \in 1 .. k : Seen[n].id # r.id
    BY <1>1, <1>3 DEF Fresh
<1>5. Seen' = Append(Seen, r)
    <2>1. PICK row, kept : row = rows'[d] /\ kept = revisions'[d]
        OBVIOUS
    <2>2. row = [number |-> k + 1, latest |-> r.id] /\ row \in Row
        BY <1>1, <2>1, Facts DEF Row, Revision
    <2>3. /\ kept \in [Numbers -> Revision \cup {NoRevision}] /\ kept[k + 1] = r
          /\ \A n \in Numbers \ {k + 1} : kept[n] = revisions[d][n]
        BY <1>1, <2>1, Facts
    <2>4. \A n \in 1 .. k : kept[n] = Seen[n] /\ kept[n] \in Revision
        BY <1>1, <1>3, <2>3, LenProperties DEF Numbers
    <2>5. row.number = k + 1 /\ \A n \in 1 .. row.number : n \in 1 .. k \/ n = k + 1
        BY <1>1, <2>2 DEF Numbers
    <2>6. /\ History(row, kept) \in Seq(Revision) /\ Len(History(row, kept)) = k + 1
          /\ \A n \in 1 .. k + 1 : History(row, kept)[n] = kept[n]
        BY <1>1, <2>2, <2>3, <2>4, <2>5, HistoryFacts
    <2>7. History(row, kept) = Append(Seen, r)
        <3>1. /\ Append(Seen, r) \in Seq(Revision) /\ Len(Append(Seen, r)) = k + 1
              /\ \A n \in 1 .. k : Append(Seen, r)[n] = Seen[n]
              /\ Append(Seen, r)[k + 1] = r
            BY <1>1, <1>3, AppendProperties
        <3>2. \A n \in 1 .. k + 1 : History(row, kept)[n] = Append(Seen, r)[n]
            BY <2>2, <2>3, <2>4, <2>5, <2>6, <3>1
        <3> QED BY <2>6, <3>1, <3>2, SeqEqual
    <2>8. Seen' = History(row, kept)
        BY <1>1, <2>1, Constants DEF Seen
    <2> QED BY <2>7, <2>8
<1>6. Reg!Write(r)
    BY <1>3, <1>4, <1>5 DEF Reg!Write
<1>7. r \in Reg!Revision
    BY <1>1 DEF Revision, Reg!Revision
<1> QED BY <1>6, <1>7 DEF Reg!Next

LEMMA CreateIsWrite ==
    ASSUME Inv, NEW t \in Tasks, CommitCreate(t)
    PROVE  [Reg!Next]_Seen
<1>0. PICK d, r : d = task[t].doc /\ r = [id |-> task[t].id, base |-> None]
    OBVIOUS
<1>1. /\ d \in Docs /\ link = None /\ link' = d /\ r \in Revision /\ r.base = None
      /\ rows' = [rows EXCEPT ![d] = [number |-> 1, latest |-> r.id]]
      /\ revisions' = [revisions EXCEPT ![d] = [revisions[d] EXCEPT ![1] = r]]
    BY <1>0, CommitCreateFacts
<1>2. Seen = << >>
    BY <1>1 DEF Seen
<1>3. Seen' = <<r>>
    <2>1. PICK row, kept : row = rows'[d] /\ kept = revisions'[d]
        OBVIOUS
    <2>2. row = [number |-> 1, latest |-> r.id] /\ row \in Row
        BY <1>1, <2>1, Facts, Constants DEF Row, Revision
    <2>3. kept \in [Numbers -> Revision \cup {NoRevision}] /\ kept[1] = r
        BY <1>1, <2>1, Facts, Constants
    <2>4. /\ row.number = 1 /\ kept[row.number].id = row.latest
          /\ \A n \in 1 .. row.number : n = 1 /\ kept[n] \in Revision
        BY <1>1, <2>2, <2>3
    <2>5. /\ History(row, kept) \in Seq(Revision) /\ Len(History(row, kept)) = 1
           /\ History(row, kept)[1] = r
        <3>1. \A n \in 1 .. row.number : kept[n] \in Revision
            BY <2>4
        <3>2. /\ History(row, kept) \in Seq(Revision)
              /\ Len(History(row, kept)) = row.number
              /\ \A n \in 1 .. row.number : History(row, kept)[n] = kept[n]
            BY <2>2, <2>3, <2>4, <3>1, HistoryFacts
        <3> QED BY <2>3, <2>4, <3>2
    <2>6. History(row, kept) = <<r>>
        <3>1. /\ <<r>> \in Seq(Revision) /\ Len(<<r>>) = 1 /\ <<r>>[1] = r
            BY <1>1
        <3>2. \A n \in 1 .. 1 : History(row, kept)[n] = <<r>>[n]
            BY <2>5, <3>1
        <3> QED BY <2>5, <3>1, <3>2, SeqEqual
    <2>7. Seen' = History(row, kept)
        BY <1>1, <2>1, Constants DEF Seen
    <2> QED BY <2>6, <2>7
<1>4. Reg!Write(r)
    BY <1>1, <1>2, <1>3 DEF Reg!Write, Reg!Base
<1>5. r \in Reg!Revision
    BY <1>1 DEF Revision, Reg!Revision
<1> QED BY <1>4, <1>5 DEF Reg!Next

LEMMA DeleteIsRemove ==
    ASSUME Inv, NEW t \in Tasks, CommitDelete(t)
    PROVE  [Reg!Next]_Seen
<1>0. PICK d : d = task[t].doc
    OBVIOUS
<1>1. d \in Docs /\ link' = IF link = d THEN None ELSE link
    BY <1>0, TaskFacts DEF CommitDelete, At, Knows, Deletes
<1>2. CASE link = d
    BY <1>1, <1>2 DEF Seen, Reg!Next, Reg!Remove
<1>3. CASE link # d
    <2>1. link' = link
        BY <1>1, <1>3
    <2>2. CASE link = None
        BY <2>1, <2>2 DEF Seen
    <2>3. CASE link # None
        <3>1. rows'[link] = rows[link] /\ revisions'[link] = revisions[link]
            BY <1>0, <1>3, <2>3, Facts DEF CommitDelete
        <3> QED BY <2>1, <3>1 DEF Seen
    <2> QED BY <2>2, <2>3
<1> QED BY <1>2, <1>3

LEMMA StepIsRegisterStep == Inv /\ [Next]_vars => [Reg!Next]_Seen
<1> SUFFICES ASSUME Inv, [Next]_vars PROVE [Reg!Next]_Seen
    OBVIOUS
<1>1. CASE UNCHANGED <<link, rows, revisions>>
    BY <1>1 DEF Seen
<1>2. ASSUME NEW t \in Tasks, CommitUpdate(t) \/ CommitCreate(t) \/ CommitDelete(t)
      PROVE  [Reg!Next]_Seen
    BY <1>2, UpdateIsWrite, CreateIsWrite, DeleteIsRemove
<1>3. ASSUME NEW t \in Writers, WriterStep(t) PROVE [Reg!Next]_Seen
    BY <1>1, <1>2, <1>3, Constants
       DEF WriterStep, UpsertRequest, InsertRevision, UpdateDocument, TouchLink,
           InsertDocument, InsertLink, Unchanged
<1>4. ASSUME NEW t \in Deleters, DeleterStep(t) PROVE [Reg!Next]_Seen
    BY <1>1, <1>2, <1>4, Constants
       DEF DeleterStep, DeleteRequest, DeleteLink, DeleteDocument, Unchanged
<1>5. ASSUME NEW t \in Tasks, Rollback(t) PROVE [Reg!Next]_Seen
    BY <1>1, <1>5 DEF Rollback, Unchanged
<1> QED BY <1>1, <1>3, <1>4, <1>5 DEF Next, vars

(* upsertIssueDocument: no write is lost.  However the statements of the       *)
(* requests interleave, the revisions a reader of the key sees change as a    *)
(* register does whose writes name the last one: each commit of a revision    *)
(* was made from the last, and each deletion removes all of them.             *)
THEOREM RegisterIsImplemented == Spec => ImplementsRegister
<1>1. Init => Reg!Init
    BY DEF Init, Reg!Init, Seen
<1> QED BY <1>1, Invariance, StepIsRegisterStep, PTL DEF Spec, ImplementsRegister, Reg!Spec

=============================================================================
