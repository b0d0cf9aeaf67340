------------------------------ MODULE Register ------------------------------
(***************************************************************************)
(* What the documents of an issue promise to those who write under one key *)
(* (docs/api/issues.md): a register whose writes are compared with what    *)
(* they replace.  A write names the revision it was made from, and is      *)
(* taken only if that is the last one; a document is created only where    *)
(* there is none.                                                          *)
(***************************************************************************)
EXTENDS Naturals, Sequences

CONSTANTS
    Ids,        \* the names of revisions
    None        \* the base of a first revision

VARIABLE log    \* the revisions of the document, none if there is no document

Revision == [id : Ids, base : Ids \cup {None}]

Init == log = << >>

Base == IF log = << >> THEN None ELSE log[Len(log)].id

Write(r) ==
    /\ r.base = Base
    /\ \A n \in 1 .. Len(log) : log[n].id # r.id
    /\ log' = Append(log, r)

Remove == log' = << >>

Next == (\E r \in Revision : Write(r)) \/ Remove

Spec == Init /\ [][Next]_log
=============================================================================
