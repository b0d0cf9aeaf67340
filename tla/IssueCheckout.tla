---------------------------- MODULE IssueCheckout ----------------------------
(***************************************************************************)
(* Who works on an issue: checkout, ownership checks, adoption and release  *)
(* of one issue, server/src/services/issues.ts.                             *)
(*                                                                          *)
(* The row of the issue holds two locks: checkout_run_id, taken by the run  *)
(* that works on it, and execution_run_id, the orchestration lock that      *)
(* heartbeat.ts hands out.  Each operation is a request that reads, decides *)
(* and writes in separate statements, so requests of several runs           *)
(* interleave between them.  The only protection is the WHERE clause of     *)
(* each UPDATE.                                                             *)
(***************************************************************************)
EXTENDS Naturals

Statuses == {"todo", "in_progress", "done"}

CONSTANTS
    Agents,
    Runs,       \* runs that may work on the issue
    Callers,    \* who sends requests: runs, and perhaps the board
    Expected,   \* the expectedStatuses that checkout requests carry
    Board,      \* the caller that has no run: a user of the board
    Editors,    \* who sends updates of the issue
    AgentOf,    \* the agent of each run
    NoAgent, NoRun,
    Unset,      \* a field that an update leaves alone
    Releasers,  \* the callers that also send release requests
    MaxEdits    \* bound: updates of the issue by its editors

ASSUME CheckoutAssumption ==
    /\ AgentOf \in [Runs -> Agents]
    /\ Callers \subseteq Runs \cup {Board}
    /\ NoAgent \notin Agents /\ NoRun \notin Runs /\ Board \notin Runs
    /\ Unset \notin Agents \cup Statuses \cup {NoAgent}
    /\ Releasers \subseteq Callers /\ MaxEdits \in Nat

VARIABLES
    row,      \* the row of the issue
    live,     \* runs that are queued or running; the others are terminal
    claimed,  \* runs that have started
    call,     \* the request each caller has in progress
    owns,     \* runs that were told they own the issue and not told otherwise
    edits,    \* updates so far
    edit,     \* the update each editor has in progress
    strayed   \* since the last checkout an update wrote an assignee over another
              \* than the one it had read

vars == <<row, live, claimed, call, owns, edits, edit, strayed>>

Row == [status : Statuses, assignee : Agents \cup {NoAgent},
        checkout : Runs \cup {NoRun}, exec : Runs \cup {NoRun}]

(* agent and run are the caller's arguments, seen what it read before.        *)
PCs  == {"idle", "clear", "take", "reread", "adoptNull", "stale", "adopt", "free"}
Call == [pc : PCs, agent : Agents \cup {NoAgent}, from : SUBSET Statuses,
         seen : Runs \cup {NoRun}]
IdleCall == [pc |-> "idle", agent |-> NoAgent, from |-> {}, seen |-> NoRun]

(* An update between its read and its write: the fields it sets, and whether   *)
(* it is to clear the locks.                                                   *)
Edit     == [pc : {"idle", "write"}, status : Statuses \cup {Unset},
             assignee : Agents \cup {NoAgent, Unset}, clears : BOOLEAN]
IdleEdit == [pc |-> "idle", status |-> Unset, assignee |-> Unset, clears |-> FALSE]

TypeOK ==
    /\ row \in Row
    /\ live \subseteq Runs /\ claimed \subseteq Runs /\ owns \subseteq Runs
    /\ call \in [Callers -> Call]
    /\ edits \in 0 .. MaxEdits
    /\ edit \in [Editors -> Edit] /\ strayed \in BOOLEAN

Init ==
    /\ row = [status |-> "todo", assignee |-> NoAgent,
              checkout |-> NoRun, exec |-> NoRun]
    /\ live = Runs /\ claimed = {}
    /\ call = [c \in Callers |-> IdleCall]
    /\ owns = {} /\ edits = 0
    /\ edit = [e \in Editors |-> IdleEdit] /\ strayed = FALSE

(* The run of a request: the board sends none, stored as null.                *)
RunOf(c)     == IF c = Board THEN NoRun ELSE c

Step(c, pc)   == call' = [call EXCEPT ![c].pc = pc]
Return(c)     == call' = [call EXCEPT ![c] = IdleCall]
Granted(c)    == owns' = IF c = Board THEN owns ELSE owns \cup {c}
SameRun(c)    == row.checkout = RunOf(c)                   \* sameRunLock
Assigned(c)   == row.status = "in_progress" /\ row.assignee = call[c].agent

-----------------------------------------------------------------------------
(* checkout.                                                                 *)

(* A run sends requests from the moment it is claimed, and those on their way  *)
(* arrive even if the run is cancelled.                                        *)
CanCall(c) == call[c].pc = "idle" /\ (c # Board => c \in claimed \cap live)

(* The request, and the read of the execution lock ("Fix C").                 *)
CheckoutRequest(c, a, from) ==
    /\ CanCall(c)
    /\ c # Board => a = AgentOf[c]
    /\ call' = [call EXCEPT ![c] = [pc |-> IF row.exec = NoRun THEN "take" ELSE "clear",
                                    agent |-> a, from |-> from, seen |-> row.exec]]
    /\ UNCHANGED <<row, live, claimed, owns, edits, edit, strayed>>

(* Variant: clears the lock without comparing it with the one that was read.  *)
ClearAnyLock(c) ==
    /\ call[c].pc = "clear"
    /\ row' = IF call[c].seen \notin live THEN [row EXCEPT !.exec = NoRun] ELSE row
    /\ Step(c, "take")
    /\ UNCHANGED <<live, claimed, owns, edits, edit, strayed>>

(* A lock whose run is over is cleared, if it still is the one that was read.  *)
ClearStaleLock(c) ==
    /\ call[c].pc = "clear"
    /\ row' = IF call[c].seen \notin live /\ row.exec = call[c].seen
              THEN [row EXCEPT !.exec = NoRun] ELSE row
    /\ Step(c, "take")
    /\ UNCHANGED <<live, claimed, owns, edits, edit, strayed>>

LockFree(c)     == row.exec \in {NoRun, RunOf(c)}
CheckoutFree(c) == row.checkout \in {NoRun, RunOf(c)}

(* The conditional UPDATE that takes the issue.                               *)
Take(c) ==
    /\ call[c].pc = "take"
    /\ IF /\ row.status \in call[c].from
          /\ \/ row.assignee = NoAgent
             \/ row.assignee = call[c].agent /\ CheckoutFree(c)
          /\ LockFree(c)
       THEN /\ row' = [status |-> "in_progress", assignee |-> call[c].agent,
                       checkout |-> RunOf(c), exec |-> RunOf(c)]
            /\ strayed' = FALSE
            /\ Granted(c)
            /\ Return(c)
       ELSE /\ Step(c, "reread")
            /\ UNCHANGED <<row, owns, strayed>>
    /\ UNCHANGED <<live, claimed, edits, edit>>

(* It took nothing: read the row again and adopt, recognise the own checkout,  *)
(* or answer 409.                                                              *)
Reread(c) ==
    /\ call[c].pc = "reread"
    /\ \/ /\ Assigned(c) /\ c # Board /\ row.checkout = NoRun /\ LockFree(c)
          /\ Step(c, "adoptNull")
          /\ UNCHANGED owns
       \/ /\ Assigned(c) /\ c # Board /\ row.checkout \notin {NoRun, c}
          /\ call' = [call EXCEPT ![c].pc = "stale", ![c].seen = row.checkout]
          /\ UNCHANGED owns
       \/ /\ Assigned(c) /\ SameRun(c)
          /\ Granted(c)
          /\ Return(c)
       \/ /\ ~Assigned(c) \/ (c = Board /\ row.checkout # NoRun)
             \/ (c # Board /\ row.checkout = NoRun /\ ~LockFree(c))
          /\ Return(c)
          /\ UNCHANGED owns
    /\ UNCHANGED <<row, live, claimed, edits, edit, strayed>>

(* Variant: an UPDATE by id, which trusts what was read again before.          *)
AdoptNullById(c) ==
    /\ call[c].pc = "adoptNull"
    /\ row' = [row EXCEPT !.checkout = c, !.exec = c]
    /\ Granted(c) /\ Return(c)
    /\ UNCHANGED <<live, claimed, edits, edit, strayed>>

(* An assigned issue without a checkout is adopted, if it still is one.        *)
AdoptNull(c) ==
    /\ call[c].pc = "adoptNull"
    /\ IF Assigned(c) /\ row.checkout = NoRun /\ LockFree(c)
       THEN row' = [row EXCEPT !.checkout = c, !.exec = c] /\ Granted(c)
       ELSE UNCHANGED <<row, owns>>
    /\ Return(c)
    /\ UNCHANGED <<live, claimed, edits, edit, strayed>>

-----------------------------------------------------------------------------
(* assertCheckoutOwner, before the routes let an agent change the issue.      *)

AssertOwner(c) ==
    /\ CanCall(c) /\ c # Board
    /\ row.status = "in_progress" /\ row.assignee = AgentOf[c]
    /\ \/ row.checkout = c /\ Granted(c) /\ UNCHANGED call
       \/ /\ row.checkout \notin {NoRun, c}
          /\ call' = [call EXCEPT ![c] = [IdleCall EXCEPT !.pc = "stale",
                          !.agent = AgentOf[c], !.seen = row.checkout]]
          /\ UNCHANGED owns
    /\ UNCHANGED <<row, live, claimed, edits, edit, strayed>>

(* adoptStaleCheckoutRun: is the run that was read over?                      *)
RunMayBeOver(r) == TRUE
RunIsOver(r)    == r \notin live

StaleCheck(c) ==
    /\ call[c].pc = "stale"
    /\ IF RunIsOver(call[c].seen) THEN Step(c, "adopt") ELSE Return(c)
    /\ UNCHANGED <<row, live, claimed, owns, edits, edit, strayed>>

(* ... then take over its checkout, and the execution lock whoever holds it.  *)
Adopt(c) ==
    /\ call[c].pc = "adopt"
    /\ IF Assigned(c) /\ row.checkout = call[c].seen
       THEN row' = [row EXCEPT !.checkout = c, !.exec = c] /\ Granted(c)
       ELSE UNCHANGED <<row, owns>>
    /\ Return(c)
    /\ UNCHANGED <<live, claimed, edits, edit, strayed>>

-----------------------------------------------------------------------------
(* release: the checks on the row that was read, then an UPDATE by id.        *)

ReleaseRequest(c) ==
    /\ c \in Releasers /\ CanCall(c)
    /\ c # Board =>
        /\ row.assignee \in {NoAgent, AgentOf[c]}
        /\ ~(row.status = "in_progress" /\ row.assignee = AgentOf[c]
             /\ row.checkout \notin {NoRun, c})
    /\ Step(c, "free")
    /\ UNCHANGED <<row, live, claimed, owns, edits, edit, strayed>>

(* A run that releases gives up; a release by the board tells the owner.      *)
ReleaseWrite(c) ==
    /\ call[c].pc = "free"
    /\ row' = [row EXCEPT !.status = "todo", !.assignee = NoAgent, !.checkout = NoRun]
    /\ owns' = IF c = Board THEN {} ELSE owns \ {c}
    /\ Return(c)
    /\ UNCHANGED <<live, claimed, edits, edit, strayed>>

-----------------------------------------------------------------------------
(* The surroundings: updates of the issue, and the life of the runs.          *)

(* update reads the issue: leaving in_progress or changing the assignee that   *)
(* was read is to clear both locks.                                           *)
Given(new, old) == IF new = Unset THEN old ELSE new

UpdateRead(e, s, a) ==
    /\ edit[e].pc = "idle" /\ edits < MaxEdits /\ edits' = edits + 1
    /\ s = "in_progress" => Given(a, row.assignee) # NoAgent
    /\ edit' = [edit EXCEPT ![e] = [pc |-> "write", status |-> s, assignee |-> a,
            clears |-> s \notin {Unset, "in_progress"} \/ a \notin {Unset, row.assignee}]]
    /\ UNCHANGED <<row, live, claimed, call, owns, strayed>>

(* ... and writes by id, some awaits later.  Its editor tells the run whose    *)
(* checkout goes; an assignee it took for the old one may be news to the row.  *)
UpdateWrite(e) ==
    LET u == edit[e] IN
    /\ u.pc = "write"
    /\ row' = [status   |-> Given(u.status, row.status),
               assignee |-> Given(u.assignee, row.assignee),
               checkout |-> IF u.clears THEN NoRun ELSE row.checkout,
               exec     |-> IF u.clears THEN NoRun ELSE row.exec]
    /\ owns' = IF u.clears THEN owns \ {row.checkout} ELSE owns
    /\ strayed' = (strayed \/ (~u.clears /\ row'.assignee # row.assignee))
    /\ edit' = [edit EXCEPT ![e] = IdleEdit]
    /\ UNCHANGED <<live, claimed, call, edits>>

(* heartbeat.ts claims a run: one of this issue takes a free execution lock.   *)
Claim(r, here) ==
    /\ r \in live /\ r \notin claimed
    /\ claimed' = claimed \cup {r}
    /\ row' = IF here /\ row.exec = NoRun THEN [row EXCEPT !.exec = r] ELSE row
    /\ UNCHANGED <<live, call, owns, edits, edit, strayed>>

(* A run ends, or is cancelled.                                                *)
RunEnds(r) ==
    /\ r \in live
    /\ live' = live \ {r} /\ owns' = owns \ {r}
    /\ UNCHANGED <<row, claimed, call, edits, edit, strayed>>

(* ... and releases the execution lock.                                        *)
FreeLock(r) ==
    /\ r \notin live /\ row.exec = r
    /\ row' = [row EXCEPT !.exec = NoRun]
    /\ UNCHANGED <<live, claimed, call, owns, edits, edit, strayed>>

-----------------------------------------------------------------------------
CallStep(c) ==
    \/ \E a \in Agents, from \in Expected :
            CheckoutRequest(c, a, from)
    \/ ClearStaleLock(c) \/ Take(c) \/ Reread(c) \/ AdoptNull(c)
    \/ AssertOwner(c) \/ StaleCheck(c) \/ Adopt(c)
    \/ ReleaseRequest(c) \/ ReleaseWrite(c)

Next ==
    \/ \E c \in Callers : CallStep(c)
    \/ \E e \in Editors, s \in Statuses \cup {Unset}, a \in Agents \cup {NoAgent, Unset} :
            UpdateRead(e, s, a)
    \/ \E e \in Editors : UpdateWrite(e)
    \/ \E r \in Runs, here \in BOOLEAN : Claim(r, here)
    \/ \E r \in Runs : RunEnds(r) \/ FreeLock(r)

Spec == Init /\ [][Next]_vars

-----------------------------------------------------------------------------
(* Two live runs never both work on the issue, whatever their requests race.  *)
OneLiveOwner == \A r, q \in owns \cap live : r = q

(* A live run that was told it owns the issue is the run that the row names,   *)
(* and the issue stays in progress, until somebody edits the issue or the board *)
(* releases it; the assignee is the run's agent unless an update that had read   *)
(* another one wrote over it.                                                   *)
OwnerIsRecorded ==
    \A r \in owns \cap live :
        /\ row.checkout = r /\ row.status = "in_progress"
        /\ row.assignee = AgentOf[r] \/ strayed

(* Not so: an update that read the issue before its checkout writes the         *)
(* assignee it had read and leaves the locks, and the owner is not assigned.     *)
OwnerIsAssigned == \A r \in owns \cap live : row.assignee = AgentOf[r]

(* ... and it holds the execution lock: no other run is orchestrated there.    *)
OwnerHoldsLock == \A r \in owns \cap live : row.exec = r

(* The execution lock of a live run is not handed to another run.             *)
LockIsNotStolen ==
    [][row.exec \in live /\ row.exec # row'.exec => row'.exec = NoRun]_vars
=============================================================================
