--------------------------- MODULE CheckoutProofs ---------------------------
(***************************************************************************)
(* Proofs about IssueCheckout, for all agents, runs, callers and bounds, as *)
(* long as only the board releases: one live owner, that the row names as   *)
(* the run of both its locks.                                               *)
(***************************************************************************)
EXTENDS IssueCheckout, TLAPS

(* What a request knows in each place.                                       *)
Sound(c, x) ==
    /\ x.pc \notin {"idle", "free"} => x.agent \in Agents /\ (c # Board => x.agent = AgentOf[c])
    /\ x.pc \in {"adoptNull", "stale", "adopt"} => c # Board
    /\ x.pc \in {"stale", "adopt"} => x.seen # NoRun
    /\ x.pc = "adopt" => x.seen \notin live
    /\ x.pc = "free" => c \in Releasers

(* An update that keeps the locks does not take the issue out of progress.    *)
EditsSound ==
    \A e \in Editors :
        edit[e].pc = "write" /\ ~edit[e].clears => edit[e].status \in {Unset, "in_progress"}

(* The checkout of a live run comes with the execution lock.                 *)
Locked == row.checkout \in live => row.exec = row.checkout

Inv ==
    /\ TypeOK /\ Locked /\ OwnerIsRecorded /\ EditsSound
    /\ \A c \in Callers : Sound(c, call[c])

-----------------------------------------------------------------------------
LEMMA Facts ==
    ASSUME Inv
    PROVE  /\ row.status \in Statuses /\ row.assignee \in Agents \cup {NoAgent}
           /\ row.checkout \in Runs \cup {NoRun} /\ row.exec \in Runs \cup {NoRun}
           /\ row = [status |-> row.status, assignee |-> row.assignee,
                     checkout |-> row.checkout, exec |-> row.exec]
           /\ live \subseteq Runs /\ claimed \subseteq Runs /\ owns \subseteq Runs
           /\ call \in [Callers -> Call] /\ edits \in 0 .. MaxEdits
           /\ NoRun \notin live /\ NoRun \notin Runs /\ NoAgent \notin Agents
           /\ \A r \in Runs : AgentOf[r] \in Agents
           /\ IdleCall \in Call /\ IdleCall.pc = "idle"
           /\ edit \in [Editors -> Edit] /\ IdleEdit \in Edit /\ strayed \in BOOLEAN
BY CheckoutAssumption DEF Inv, TypeOK, Row, IdleCall, Call, PCs, Edit, IdleEdit

LEMMA CallFacts ==
    ASSUME Inv, NEW c \in Callers
    PROVE  /\ call[c] \in Call /\ Sound(c, call[c]) /\ call[c].agent \in Agents \cup {NoAgent}
           /\ call[c].from \subseteq Statuses /\ call[c].seen \in Runs \cup {NoRun}
           /\ c # Board => c \in Runs
           /\ RunOf(c) \in Runs \cup {NoRun} /\ (RunOf(c) \in Runs => RunOf(c) = c)
           /\ (c # Board => RunOf(c) = c)
BY CheckoutAssumption DEF Inv, TypeOK, Call, RunOf

(* The next record of a request.                                             *)
LEMMA StepFacts ==
    ASSUME Inv, NEW c \in Callers, NEW y \in Call, call' = [call EXCEPT ![c] = y],
           live' \subseteq live, Sound(c, y), y.pc = "adopt" => y.seen \notin live'
    PROVE  /\ call' \in [Callers -> Call]
           /\ \A d \in Callers : Sound(d, call[d])'
<1>1. call' \in [Callers -> Call] /\ call'[c] = y /\ \A d \in Callers \ {c} : call'[d] = call[d]
    BY Facts
<1> QED BY <1>1, CallFacts DEF Sound

LEMMA ReturnFacts ==
    ASSUME Inv, NEW c \in Callers, Return(c), live' \subseteq live
    PROVE  call' \in [Callers -> Call] /\ \A d \in Callers : Sound(d, call[d])'
<1>1. Sound(c, IdleCall)
    BY Facts DEF Sound
<1> QED BY <1>1, Facts, StepFacts DEF Return

LEMMA GotoFacts ==
    ASSUME Inv, NEW c \in Callers, NEW pc \in PCs, Step(c, pc), UNCHANGED live,
           LET y == [call[c] EXCEPT !.pc = pc] IN
           /\ y.pc = pc /\ y.seen = call[c].seen /\ y.agent = call[c].agent => Sound(c, y)
    PROVE  call' \in [Callers -> Call] /\ \A d \in Callers : Sound(d, call[d])'
<1> DEFINE y == [call[c] EXCEPT !.pc = pc]
<1>1. y \in Call /\ y.pc = pc /\ y.seen = call[c].seen /\ y.agent = call[c].agent
    BY CallFacts DEF Call
<1>2. call' = [call EXCEPT ![c] = y]
    BY DEF Step
<1>3. Sound(c, y)
    BY <1>1
<1> HIDE DEF y
<1> QED BY <1>1, <1>2, <1>3, StepFacts DEF Sound

(* Nobody but c works on an issue one of whose locks is free, or c's.        *)
LEMMA NoOtherOwner ==
    ASSUME Inv, NEW c \in Callers,
           \/ row.exec \in {NoRun, RunOf(c)}
           \/ row.checkout \in {NoRun, RunOf(c)}
           \/ row.checkout \notin live
    PROVE  \A r \in owns \cap live : r = c
BY Facts, CallFacts DEF Inv, OwnerIsRecorded, Locked

(* The row after c, of agent a, has taken both locks.                        *)
LEMMA TakenInv ==
    ASSUME Inv, NEW c \in Callers, NEW a \in Agents, c # Board => a = AgentOf[c],
           row'.status = "in_progress", row'.assignee = a, row'.checkout = RunOf(c),
           row'.exec = RunOf(c), row' \in Row, Granted(c), Return(c),
           UNCHANGED <<live, claimed, edits, edit>>, strayed' \in BOOLEAN, \A r \in owns \cap live : r = c
    PROVE  Inv'
<1>1. TypeOK'
    BY Facts, CallFacts, ReturnFacts DEF TypeOK, Granted
<1>2. Locked'
    BY DEF Locked
<1>3. OwnerIsRecorded'
    <2> SUFFICES ASSUME NEW r \in owns' \cap live'
                 PROVE  row'.checkout = r /\ row'.assignee = AgentOf[r] /\ row'.status = "in_progress"
        BY DEF OwnerIsRecorded
    <2>1. r = c /\ c # Board
        BY Facts, CheckoutAssumption DEF Granted
    <2> QED BY <2>1, CallFacts
<1> QED BY <1>1, <1>2, <1>3, ReturnFacts DEF Inv, EditsSound

(* A step that leaves the row and the owners alone.                          *)
LEMMA QuietInv ==
    ASSUME Inv, UNCHANGED <<row, live, claimed, owns, edits, edit, strayed>>,
           call' \in [Callers -> Call], \A d \in Callers : Sound(d, call[d])'
    PROVE  Inv'
BY Facts DEF Inv, TypeOK, Locked, OwnerIsRecorded, EditsSound

-----------------------------------------------------------------------------
LEMMA CheckoutRequestInv ==
    ASSUME Inv, NEW c \in Callers, NEW a \in Agents, NEW from \in Expected, from \subseteq Statuses,
           CheckoutRequest(c, a, from)
    PROVE  Inv'
<1> DEFINE pc == IF row.exec = NoRun THEN "take" ELSE "clear"
           y == [pc |-> pc, agent |-> a, from |-> from, seen |-> row.exec]
<1>1. pc \in {"take", "clear"} /\ (c # Board => a = AgentOf[c])
      /\ UNCHANGED <<row, live, claimed, owns, edits, edit, strayed>> /\ call' = [call EXCEPT ![c] = y]
    BY DEF CheckoutRequest
<1> HIDE DEF pc
<1>2. y \in Call /\ y.pc = pc /\ y.agent = a
    BY <1>1, Facts DEF Call, PCs
<1> HIDE DEF y
<1>3. Sound(c, y)
    BY <1>1, <1>2 DEF Sound
<1> QED BY <1>1, <1>2, <1>3, StepFacts, QuietInv

LEMMA ClearInv ==
    ASSUME Inv, NEW c \in Callers, ClearStaleLock(c)
    PROVE  Inv'
<1>1. /\ call[c].pc = "clear" /\ Step(c, "take")
      /\ UNCHANGED <<live, claimed, owns, edits, edit, strayed>>
      /\ row' = row \/ (row.exec \notin live /\ row' = [row EXCEPT !.exec = NoRun])
    BY DEF ClearStaleLock
<1>2. call' \in [Callers -> Call] /\ \A d \in Callers : Sound(d, call[d])'
    BY <1>1, CallFacts, GotoFacts DEF Sound, PCs
<1>3. /\ row' \in Row /\ row'.checkout = row.checkout /\ row'.assignee = row.assignee
      /\ row'.status = row.status /\ (row.exec \in live => row'.exec = row.exec)
    BY <1>1, Facts DEF Row, Inv, TypeOK
<1> QED BY <1>1, <1>2, <1>3, Facts DEF Inv, TypeOK, Locked, OwnerIsRecorded, EditsSound

LEMMA TakeInv ==
    ASSUME Inv, NEW c \in Callers, Take(c)
    PROVE  Inv'
<1>1. call[c].pc = "take" /\ call[c].agent \in Agents /\ (c # Board => call[c].agent = AgentOf[c])
    BY CallFacts DEF Take, Sound
<1>2. CASE Step(c, "reread") /\ UNCHANGED <<row, owns, strayed>>
    <2>1. call' \in [Callers -> Call] /\ \A d \in Callers : Sound(d, call[d])'
        BY <1>1, <1>2, GotoFacts DEF Take, Sound, PCs
    <2> QED BY <1>2, <2>1, QuietInv DEF Take
<1>3. CASE /\ LockFree(c) /\ strayed' = FALSE
           /\ row' = [status |-> "in_progress", assignee |-> call[c].agent,
                      checkout |-> RunOf(c), exec |-> RunOf(c)]
           /\ Granted(c) /\ Return(c)
    <2>1. row' \in Row
        BY <1>1, <1>3, CallFacts DEF Row, Statuses
    <2>2. \A r \in owns \cap live : r = c
        BY <1>3, NoOtherOwner DEF LockFree
    <2> QED BY <1>1, <1>3, <2>1, <2>2, TakenInv DEF Take
<1> QED BY <1>2, <1>3 DEF Take

(* The caller was told that it owns what the row says it does.               *)
LEMMA ConfirmedInv ==
    ASSUME Inv, NEW c \in Callers, row.status = "in_progress", row.checkout = RunOf(c),
           c # Board => row.assignee = AgentOf[c], Granted(c),
           UNCHANGED <<row, live, claimed, edits, edit, strayed>>,
           call' \in [Callers -> Call], \A d \in Callers : Sound(d, call[d])'
    PROVE  Inv'
<1>1. TypeOK' /\ Locked'
    BY Facts, CallFacts DEF Inv, TypeOK, Locked, Granted
<1>2. OwnerIsRecorded'
    <2> SUFFICES ASSUME NEW r \in owns' \cap live
                 PROVE  /\ row.checkout = r /\ row.status = "in_progress"
                        /\ row.assignee = AgentOf[r] \/ strayed
        BY DEF OwnerIsRecorded
    <2>1. CASE r \in owns
        BY <2>1 DEF Inv, OwnerIsRecorded
    <2>2. CASE r \notin owns
        BY <2>2, CallFacts DEF Granted
    <2> QED BY <2>1, <2>2
<1> QED BY <1>1, <1>2 DEF Inv, EditsSound

LEMMA RereadInv ==
    ASSUME Inv, NEW c \in Callers, Reread(c)
    PROVE  Inv'
<1>1. /\ call[c].pc = "reread" /\ call[c].agent \in Agents
      /\ c # Board => call[c].agent = AgentOf[c]
      /\ UNCHANGED <<row, live, claimed, edits, edit, strayed>>
    BY CallFacts DEF Reread, Sound
<1>2. CASE c # Board /\ Step(c, "adoptNull") /\ UNCHANGED owns
    <2>1. call' \in [Callers -> Call] /\ \A d \in Callers : Sound(d, call[d])'
        BY <1>1, <1>2, GotoFacts DEF Sound, PCs
    <2> QED BY <1>1, <1>2, <2>1, QuietInv
<1>3. CASE /\ c # Board /\ row.checkout \notin {NoRun, c}
           /\ call' = [call EXCEPT ![c].pc = "stale", ![c].seen = row.checkout] /\ UNCHANGED owns
    <2> DEFINE y == [call[c] EXCEPT !.pc = "stale", !.seen = row.checkout]
    <2>1. y \in Call /\ y.pc = "stale" /\ y.seen = row.checkout /\ y.agent = call[c].agent
        <3>1. call[c] \in Call /\ row.checkout \in Runs \cup {NoRun}
            BY Facts, CallFacts
        <3>2. "stale" \in PCs
            BY DEF PCs
        <3> QED BY <3>1, <3>2 DEF Call
    <2>2. call' = [call EXCEPT ![c] = y]
        BY <1>3, Facts
    <2> HIDE DEF y
    <2>3. Sound(c, y)
        BY <1>1, <1>3, <2>1 DEF Sound
    <2> QED BY <1>1, <1>3, <2>1, <2>2, <2>3, StepFacts, QuietInv
<1>4. CASE Assigned(c) /\ SameRun(c) /\ Granted(c) /\ Return(c)
    BY <1>1, <1>4, ReturnFacts, ConfirmedInv DEF Assigned, SameRun
<1>5. CASE Return(c) /\ UNCHANGED owns
    BY <1>1, <1>5, ReturnFacts, QuietInv
<1> QED BY <1>2, <1>3, <1>4, <1>5 DEF Reread

(* The two ways to take over the locks of an assigned issue.                 *)
LEMMA AdoptInv ==
    ASSUME Inv, NEW c \in Callers, AdoptNull(c) \/ Adopt(c)
    PROVE  Inv'
<1>1. /\ call[c].agent \in Agents /\ c # Board /\ call[c].agent = AgentOf[c] /\ Return(c)
      /\ UNCHANGED <<live, claimed, edits, edit, strayed>> /\ RunOf(c) = c /\ c \in Runs
    BY CallFacts DEF AdoptNull, Adopt, Sound
<1>2. CASE UNCHANGED <<row, owns>>
    BY <1>1, <1>2, ReturnFacts, QuietInv
<1>3. CASE /\ Assigned(c) /\ (row.checkout = NoRun \/ row.checkout \notin live)
           /\ row' = [row EXCEPT !.checkout = c, !.exec = c] /\ Granted(c)
    <2>1. /\ row' \in Row /\ row'.checkout = c /\ row'.exec = c /\ row'.status = "in_progress"
          /\ row'.assignee = call[c].agent
        BY <1>1, <1>3, Facts DEF Row, Assigned, Statuses
    <2>2. \A r \in owns \cap live : r = c
        BY <1>3, NoOtherOwner
    <2> QED BY <1>1, <1>3, <2>1, <2>2, Facts, TakenInv
<1> QED BY <1>2, <1>3, CallFacts DEF AdoptNull, Adopt, Sound

LEMMA AssertOwnerInv ==
    ASSUME Inv, NEW c \in Callers, AssertOwner(c)
    PROVE  Inv'
<1>1. /\ c # Board /\ row.status = "in_progress" /\ row.assignee = AgentOf[c] /\ c \in Runs
      /\ UNCHANGED <<row, live, claimed, edits, edit, strayed>> /\ RunOf(c) = c /\ AgentOf[c] \in Agents
    BY CallFacts, Facts DEF AssertOwner
<1>2. CASE row.checkout = c /\ Granted(c) /\ UNCHANGED call
    <2>1. call' \in [Callers -> Call] /\ \A d \in Callers : Sound(d, call[d])'
        BY <1>1, <1>2, Facts, CallFacts DEF Sound
    <2> QED BY <1>1, <1>2, <2>1, ConfirmedInv
<1>3. CASE /\ row.checkout \notin {NoRun, c} /\ UNCHANGED owns
           /\ call' = [call EXCEPT ![c] = [IdleCall EXCEPT !.pc = "stale",
                           !.agent = AgentOf[c], !.seen = row.checkout]]
    <2> DEFINE y == [IdleCall EXCEPT !.pc = "stale", !.agent = AgentOf[c], !.seen = row.checkout]
    <2>1. y \in Call /\ y.pc = "stale" /\ y.seen = row.checkout /\ y.agent = AgentOf[c]
        BY <1>1, Facts DEF IdleCall, Call, PCs
    <2>2. call' = [call EXCEPT ![c] = y]
        BY <1>3
    <2> HIDE DEF y
    <2>3. Sound(c, y)
        BY <1>1, <1>3, <2>1 DEF Sound
    <2> QED BY <1>1, <1>3, <2>1, <2>2, <2>3, StepFacts, QuietInv
<1> QED BY <1>2, <1>3 DEF AssertOwner

LEMMA StaleCheckInv ==
    ASSUME Inv, NEW c \in Callers, StaleCheck(c)
    PROVE  Inv'
<1>1. /\ call[c].pc = "stale" /\ UNCHANGED <<row, live, claimed, owns, edits, edit, strayed>>
      /\ Sound(c, call[c])
    BY CallFacts DEF StaleCheck
<1>2. CASE call[c].seen \notin live /\ Step(c, "adopt")
    <2>1. call' \in [Callers -> Call] /\ \A d \in Callers : Sound(d, call[d])'
        BY <1>1, <1>2, GotoFacts DEF Sound, PCs
    <2> QED BY <1>1, <2>1, QuietInv
<1>3. CASE Return(c)
    BY <1>1, <1>3, ReturnFacts, QuietInv
<1> QED BY <1>2, <1>3 DEF StaleCheck, RunIsOver

LEMMA ReleaseInv ==
    ASSUME Inv, Releasers \subseteq {Board}, NEW c \in Callers, ReleaseRequest(c) \/ ReleaseWrite(c)
    PROVE  Inv'
<1>1. CASE ReleaseRequest(c)
    <2>1. c \in Releasers /\ Step(c, "free") /\ UNCHANGED <<row, live, claimed, owns, edits, edit, strayed>>
        BY <1>1 DEF ReleaseRequest
    <2>2. call' \in [Callers -> Call] /\ \A d \in Callers : Sound(d, call[d])'
        BY <2>1, GotoFacts DEF Sound, PCs
    <2> QED BY <2>1, <2>2, QuietInv
<1>2. CASE ReleaseWrite(c)
    <2>1. c = Board /\ owns' = {} /\ UNCHANGED <<live, claimed, edits, edit, strayed>> /\ Return(c)
        BY <1>2, CallFacts DEF ReleaseWrite, Sound
    <2>2. row' \in Row /\ row'.checkout = NoRun
        BY <1>2, Facts DEF ReleaseWrite, Row, Statuses
    <2> QED BY <2>1, <2>2, Facts, ReturnFacts
           DEF Inv, TypeOK, Locked, OwnerIsRecorded, EditsSound
<1> QED BY <1>1, <1>2

-----------------------------------------------------------------------------
(* The surroundings.                                                         *)
LEMMA CallsStay ==
    ASSUME Inv, UNCHANGED call, live' \subseteq live
    PROVE  call' \in [Callers -> Call] /\ \A d \in Callers : Sound(d, call[d])'
BY Facts, CallFacts DEF Sound

LEMMA UpdateReadInv ==
    ASSUME Inv, NEW e \in Editors, NEW s \in Statuses \cup {Unset},
           NEW a \in Agents \cup {NoAgent, Unset}, UpdateRead(e, s, a)
    PROVE  Inv'
<1>1. /\ UNCHANGED <<row, live, claimed, call, owns, strayed>> /\ edits' \in 0 .. MaxEdits
    BY Facts, CheckoutAssumption DEF UpdateRead
<1>2. edit' \in [Editors -> Edit]
    BY Facts DEF UpdateRead, Edit
<1>3. EditsSound'
    BY Facts DEF UpdateRead, Inv, EditsSound
<1> QED BY <1>1, <1>2, <1>3, Facts, CallsStay DEF Inv, TypeOK, Locked, OwnerIsRecorded

(* A write that clears the locks ends the owner's work; one that does not     *)
(* keeps the issue in progress, and changes its assignee only as a stray.     *)
LEMMA UpdateWriteInv ==
    ASSUME Inv, NEW e \in Editors, UpdateWrite(e)
    PROVE  Inv'
<1> DEFINE u == edit[e]
<1>1. /\ UNCHANGED <<live, claimed, call, edits>> /\ edit' \in [Editors -> Edit]
      /\ strayed' \in BOOLEAN
    BY Facts DEF UpdateWrite
<1>2. /\ row'.checkout = (IF u.clears THEN NoRun ELSE row.checkout)
      /\ row'.exec = (IF u.clears THEN NoRun ELSE row.exec)
      /\ row'.status = Given(u.status, row.status)
      /\ row'.assignee = Given(u.assignee, row.assignee)
      /\ owns' = IF u.clears THEN owns \ {row.checkout} ELSE owns
      /\ strayed' = (strayed \/ (~u.clears /\ row'.assignee # row.assignee))
    BY DEF UpdateWrite
<1>3. row' \in Row
    BY Facts DEF UpdateWrite, Row, Edit, Given
<1>4. TypeOK'
    BY <1>1, <1>2, <1>3, Facts DEF TypeOK
<1>5. Locked'
    BY <1>1, <1>2, Facts DEF Inv, Locked
<1>6. OwnerIsRecorded'
    <2>1. CASE u.clears
        BY <1>1, <1>2, <2>1 DEF Inv, OwnerIsRecorded
    <2>2. CASE ~u.clears
        <3>1. Given(u.status, row.status) \in {row.status, "in_progress"}
            BY <2>2 DEF Inv, EditsSound, Given, UpdateWrite
        <3> QED BY <1>1, <1>2, <2>2, <3>1 DEF Inv, OwnerIsRecorded
    <2> QED BY <2>1, <2>2
<1>7. EditsSound'
    BY Facts DEF UpdateWrite, Inv, EditsSound, IdleEdit
<1> QED BY <1>1, <1>4, <1>5, <1>6, <1>7, CallsStay DEF Inv

LEMMA RunsInv ==
    ASSUME Inv, NEW r \in Runs,
           RunEnds(r) \/ FreeLock(r) \/ \E here \in BOOLEAN : Claim(r, here)
    PROVE  Inv'
<1>1. /\ UNCHANGED <<call, edits, edit, strayed>> /\ live' \subseteq live /\ claimed' \subseteq Runs
      /\ owns' \subseteq owns
    BY Facts DEF RunEnds, FreeLock, Claim
<1>2. /\ row' \in Row /\ row'.checkout = row.checkout /\ row'.assignee = row.assignee
      /\ row'.status = row.status
      /\ row.exec \in live' => row'.exec = row.exec
    BY Facts DEF RunEnds, FreeLock, Claim, Row, Inv, TypeOK
<1>3. Locked'
    BY <1>1, <1>2 DEF Locked, Inv
<1> QED BY <1>1, <1>2, <1>3, Facts, CallsStay DEF Inv, TypeOK, OwnerIsRecorded, EditsSound

-----------------------------------------------------------------------------
LEMMA InitInv == Init => Inv
<1> SUFFICES ASSUME Init PROVE Inv
    OBVIOUS
<1>1. IdleCall \in Call /\ \A c \in Callers : call[c] = IdleCall
    BY DEF Init, IdleCall, Call, PCs
<1>2. row \in Row /\ row.checkout = NoRun
    BY DEF Init, Row, Statuses
<1>3. 0 \in 0 .. MaxEdits /\ NoRun \notin Runs
    BY CheckoutAssumption
<1>4. TypeOK
    BY <1>1, <1>2, <1>3 DEF Init, TypeOK, IdleEdit, Edit
<1> QED BY <1>1, <1>2, <1>3, <1>4
       DEF Init, Inv, Locked, OwnerIsRecorded, Sound, IdleCall, EditsSound, IdleEdit

LEMMA NextInv ==
    ASSUME Inv, [Next]_vars, Releasers \subseteq {Board}, Expected \subseteq SUBSET Statuses
    PROVE  Inv'
<1>1. ASSUME NEW c \in Callers, CallStep(c) PROVE Inv'
    BY <1>1, CheckoutRequestInv, ClearInv, TakeInv, RereadInv, AdoptInv, AssertOwnerInv,
       StaleCheckInv, ReleaseInv DEF CallStep
<1>2. CASE UNCHANGED vars
    BY <1>2, CallsStay, QuietInv DEF vars
<1> QED BY <1>1, <1>2, UpdateReadInv, UpdateWriteInv, RunsInv DEF Next

(* The condition: only the board releases, and requests name statuses.        *)
BoardReleases == Releasers \subseteq {Board} /\ Expected \subseteq SUBSET Statuses

LEMMA Invariance ==
    ASSUME BoardReleases
    PROVE  Spec => []Inv
<1>1. Inv /\ [Next]_vars => Inv'
    BY NextInv DEF BoardReleases
<1> QED BY <1>1, InitInv, PTL DEF Spec

-----------------------------------------------------------------------------
(* Every state the requests, the editors and the runs reach is well typed.   *)
THEOREM TypeCorrect ==
    ASSUME BoardReleases
    PROVE  Spec => []TypeOK
<1>1. Inv => TypeOK
    BY DEF Inv
<1> QED BY <1>1, Invariance, PTL

(* A live run that checkout, assertCheckoutOwner or an adoption told that it  *)
(* owns the issue is the run that the row names, in progress, until an edit or *)
(* the board's release; and its agent is assigned, unless an update that read  *)
(* the issue before the checkout wrote over that.                             *)
THEOREM OwnerOnRecord ==
    ASSUME BoardReleases
    PROVE  Spec => []OwnerIsRecorded
<1>1. Inv => OwnerIsRecorded
    BY DEF Inv
<1> QED BY <1>1, Invariance, PTL

(* However the requests interleave between their statements, two live runs   *)
(* never both work on the issue: the row names only one of them.             *)
THEOREM OneOwner ==
    ASSUME BoardReleases
    PROVE  Spec => []OneLiveOwner
<1>1. Inv => OneLiveOwner
    BY DEF Inv, OwnerIsRecorded, OneLiveOwner
<1> QED BY <1>1, Invariance, PTL

(* The live owner also holds the execution lock, although checkout clears a  *)
(* lock it judged stale some statements ago: its checkout came with the lock  *)
(* and nobody takes that while it lives.                                     *)
THEOREM OwnerLocks ==
    ASSUME BoardReleases
    PROVE  Spec => []OwnerHoldsLock
<1>1. Inv => OwnerHoldsLock
    BY DEF Inv, OwnerIsRecorded, Locked, OwnerHoldsLock
<1> QED BY <1>1, Invariance, PTL

=============================================================================
