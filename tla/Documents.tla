----------------------------- MODULE Documents ------------------------------
(***************************************************************************)
(* The document of an issue under one key, server/src/services/documents.ts: *)
(* writers that create it or replace its last revision, and deletions.      *)
(*                                                                          *)
(* A request is a transaction of several statements, and nothing locks what *)
(* it has read: two writers may both have found the same last revision, or  *)
(* none, and a deletion may come between a read and the write it allowed.   *)
(* What decides are the unique indexes on (document, revision number) and   *)
(* on (issue, key), which make the second of two inserts wait for the first *)
(* transaction and fail if that commits, and the locks on rows that the     *)
(* statements take until the commit.                                        *)
(***************************************************************************)
EXTENDS Naturals, Sequences

CONSTANTS
    Writers, Deleters,  \* requests that may be in progress at a time
    Docs, Ids,          \* the ids of documents and revisions
    None,               \* null
    MaxRevisions        \* bound: revisions of a document

ASSUME DocumentsAssumption ==
    /\ Writers \cap Deleters = {}
    /\ None \notin Docs \cup Ids
    /\ MaxRevisions \in Nat \ {0}

Tasks    == Writers \cup Deleters
Numbers  == 1 .. MaxRevisions
Revision == [id : Ids, base : Ids \cup {None}]
NoRevision == [id |-> None, base |-> None]
Row      == [number : Numbers, latest : Ids]
NoRow    == [number |-> 0, latest |-> None]

VARIABLES
    link,       \* issue_documents: the document under the key
    rows,       \* documents: latestRevisionNumber and latestRevisionId
    revisions,  \* document_revisions, with the revision each was made from
    used,       \* the ids of documents and revisions handed out so far
    task        \* the request each task has in progress

vars == <<link, rows, revisions, used, task>>

(* base is the request's baseRevisionId, doc and number are what it has read, *)
(* and id is the revision it inserts.                                         *)
PCs == {"idle", "insert", "update", "touch", "save", "insertNew", "insertLink", "publish",
        "deleteLink", "deleteDoc", "remove"}
Task == [pc : PCs, base : Ids \cup {None}, doc : Docs \cup {None},
         number : 0 .. MaxRevisions, id : Ids \cup {None}]
IdleTask == [pc |-> "idle", base |-> None, doc |-> None, number |-> 0, id |-> None]

TypeOK ==
    /\ link \in Docs \cup {None}
    /\ rows \in [Docs -> Row \cup {NoRow}]
    /\ revisions \in [Docs -> [Numbers -> Revision \cup {NoRevision}]]
    /\ used \subseteq Docs \cup Ids
    /\ task \in [Tasks -> Task]

Init ==
    /\ link = None
    /\ rows = [d \in Docs |-> NoRow]
    /\ revisions = [d \in Docs |-> [n \in Numbers |-> NoRevision]]
    /\ used = {}
    /\ task = [t \in Tasks |-> IdleTask]

Live(d)   == rows[d] # NoRow
At(t, pc) == task[t].pc = pc
Goto(t, pc) == task' = [task EXCEPT ![t].pc = pc]
Return(t) == task' = [task EXCEPT ![t] = IdleTask]
Unchanged == UNCHANGED <<link, rows, revisions>>

-----------------------------------------------------------------------------
(* The locks of the transactions in progress.                                *)

(* The inserted revision, and through its foreign key a share of the row.     *)
Replacing(u, d)   == task[u].pc \in {"update", "touch", "save"} /\ task[u].doc = d
(* The row under the key.                                                     *)
Touching(u, d)    == task[u].pc = "save" /\ task[u].doc = d
Unlinking(u, d)   == task[u].pc \in {"deleteDoc", "remove"} /\ task[u].doc = d /\ link = d
Removing(u, d)    == task[u].pc = "remove" /\ task[u].doc = d /\ Live(d)
Others(t)         == Tasks \ {t}

(* The index on (document, revision number): no other transaction is about to *)
(* insert the number, and none has.                                           *)
Awaited(t)   == \E u \in Others(t) :
    Replacing(u, task[t].doc) /\ task[u].number = task[t].number
NumberIsAnyones(t) == TRUE      \* variant: no such index
NumberIsFree(t)    == revisions[task[t].doc][task[t].number + 1] = NoRevision

(* The index on (issue, key).                                                 *)
KeyIsAwaited(t)  == \E u \in Others(t) : At(u, "publish") \/ (link # None /\ Unlinking(u, link))
KeyIsAnyones     == TRUE        \* variant: no such index
KeyIsFree        == link = None

-----------------------------------------------------------------------------
(* upsertIssueDocument: read the document, and compare.                       *)

(* The request answers 409 unless its base is the last revision.              *)
MatchesAny(t, base) == base # None  \* variant: whatever its base is
Matches(t, base)    == base = rows[link].latest

UpsertRequest(t, base) ==
    /\ At(t, "idle")
    /\ \/ /\ link # None /\ Matches(t, base) /\ rows[link].number < MaxRevisions
          /\ task' = [task EXCEPT ![t] = [pc |-> "insert", base |-> base, doc |-> link,
                                          number |-> rows[link].number, id |-> None]]
       \/ /\ link = None /\ base = None
          /\ task' = [task EXCEPT ![t] = [IdleTask EXCEPT !.pc = "insertNew"]]
    /\ Unchanged /\ UNCHANGED used

(* A document that was deleted since fails the foreign key, a number that was *)
(* taken since the unique index.                                              *)
InsertRevision(t, i) ==
    /\ At(t, "insert")
    /\ ~Awaited(t) /\ \A u \in Others(t) : ~Removing(u, task[t].doc)
    /\ IF Live(task[t].doc) /\ NumberIsFree(t)
       THEN /\ i \notin used /\ used' = used \cup {i}
            /\ task' = [task EXCEPT ![t].pc = "update", ![t].id = i]
       ELSE Return(t) /\ UNCHANGED used
    /\ Unchanged

(* The row of the document, then the one under the key.                       *)
UpdateDocument(t) ==
    /\ At(t, "update")
    /\ \A u \in Others(t) : ~(task[u].pc \in {"touch", "save"} /\ task[u].doc = task[t].doc)
    /\ Goto(t, "touch")
    /\ Unchanged /\ UNCHANGED used

TouchLink(t) ==
    /\ At(t, "touch")
    /\ \A u \in Others(t) : ~Touching(u, task[t].doc) /\ ~Unlinking(u, task[t].doc)
    /\ Goto(t, "save")
    /\ Unchanged /\ UNCHANGED used

CommitUpdate(t) ==
    /\ At(t, "save")
    /\ rows' = [rows EXCEPT ![task[t].doc] =
                    [number |-> task[t].number + 1, latest |-> task[t].id]]
    /\ revisions' = [revisions EXCEPT ![task[t].doc][task[t].number + 1] =
                         [id |-> task[t].id, base |-> task[t].base]]
    /\ Return(t)
    /\ UNCHANGED <<link, used>>

(* A first revision: the document and its revision, which nobody sees yet.    *)
InsertDocument(t, d, i) ==
    /\ At(t, "insertNew")
    /\ d \notin used /\ i \notin used /\ used' = used \cup {d, i}
    /\ task' = [task EXCEPT ![t].pc = "insertLink", ![t].doc = d, ![t].id = i]
    /\ Unchanged

InsertLink(t) ==
    /\ At(t, "insertLink")
    /\ ~KeyIsAwaited(t)
    /\ IF KeyIsFree THEN Goto(t, "publish") ELSE Return(t)
    /\ Unchanged /\ UNCHANGED used

CommitCreate(t) ==
    /\ At(t, "publish")
    /\ link' = task[t].doc
    /\ rows' = [rows EXCEPT ![task[t].doc] = [number |-> 1, latest |-> task[t].id]]
    /\ revisions' = [revisions EXCEPT ![task[t].doc][1] = [id |-> task[t].id, base |-> None]]
    /\ Return(t)
    /\ UNCHANGED used

-----------------------------------------------------------------------------
(* deleteIssueDocument: what it has read may be gone when it deletes it.      *)

DeleteRequest(t) ==
    /\ At(t, "idle") /\ link # None
    /\ task' = [task EXCEPT ![t] = [IdleTask EXCEPT !.pc = "deleteLink", !.doc = link]]
    /\ Unchanged /\ UNCHANGED used

DeleteLink(t) ==
    /\ At(t, "deleteLink")
    /\ \A u \in Others(t) : ~Touching(u, task[t].doc) /\ ~Unlinking(u, task[t].doc)
    /\ Goto(t, "deleteDoc")
    /\ Unchanged /\ UNCHANGED used

DeleteDocument(t) ==
    /\ At(t, "deleteDoc")
    /\ \A u \in Others(t) : ~Replacing(u, task[t].doc) /\ ~Removing(u, task[t].doc)
    /\ Goto(t, "remove")
    /\ Unchanged /\ UNCHANGED used

(* Variant: the document and its revisions stay.                              *)
CommitUnlink(t) ==
    /\ At(t, "remove")
    /\ link' = IF link = task[t].doc THEN None ELSE link
    /\ Return(t)
    /\ UNCHANGED <<rows, revisions, used>>

(* The revisions go with the document (on delete cascade).                    *)
CommitDelete(t) ==
    /\ At(t, "remove")
    /\ link' = IF link = task[t].doc THEN None ELSE link
    /\ rows' = [rows EXCEPT ![task[t].doc] = NoRow]
    /\ revisions' = [revisions EXCEPT ![task[t].doc] = [n \in Numbers |-> NoRevision]]
    /\ Return(t)
    /\ UNCHANGED used

(* A statement fails, a deadlock is broken, the server or its connection is    *)
(* gone: the database rolls the transaction back.                             *)
Rollback(t) ==
    /\ ~At(t, "idle")
    /\ Return(t)
    /\ Unchanged /\ UNCHANGED used

-----------------------------------------------------------------------------
WriterStep(t) ==
    \/ \E base \in (used \cap Ids) \cup {None} : UpsertRequest(t, base)
    \/ \E i \in Ids : InsertRevision(t, i)
    \/ UpdateDocument(t) \/ TouchLink(t) \/ CommitUpdate(t)
    \/ \E d \in Docs, i \in Ids : InsertDocument(t, d, i)
    \/ InsertLink(t) \/ CommitCreate(t)

DeleterStep(t) ==
    DeleteRequest(t) \/ DeleteLink(t) \/ DeleteDocument(t) \/ CommitDelete(t)

Next ==
    \/ \E t \in Writers : WriterStep(t)
    \/ \E t \in Deleters : DeleterStep(t)
    \/ \E t \in Tasks : Rollback(t)

Spec == Init /\ [][Next]_vars

-----------------------------------------------------------------------------
(* What readers of the key see: the revisions up to the last one.            *)
History(row, kept) ==
    [n \in 1 .. row.number |->
        IF n = row.number THEN [kept[n] EXCEPT !.id = row.latest] ELSE kept[n]]
Seen == IF link = None THEN << >> ELSE History(rows[link], revisions[link])

Reg == INSTANCE Register WITH log <- Seen

(* No write is lost: whatever requests interleave, the document changes as a  *)
(* register does whose writes name the last revision, one commit at a time.   *)
ImplementsRegister == Reg!Spec

(* A document exists under its key or not at all, and so do its revisions: no *)
(* race of creations and deletions leaves a document nobody can find.         *)
ExistsUnderKey == \A d \in Docs :
    /\ Live(d) <=> link = d
    /\ ~Live(d) => \A n \in Numbers : revisions[d][n] = NoRevision

(* TLC refutes this (README): a deletion and an update never wait for each    *)
(* other's rows.                                                              *)
NoDeadlock == \A t \in Deleters, u \in Writers :
    ~(/\ At(t, "deleteDoc") /\ Replacing(u, task[t].doc)
      /\ At(u, "touch") /\ Unlinking(t, task[u].doc))
=============================================================================
