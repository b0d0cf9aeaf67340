------------------------------ MODULE RunQueue ------------------------------
(***************************************************************************)
(* What the run orchestrator promises, whatever its tasks interleave: a run *)
(* is submitted for one agent, waits, is started at most once and only while *)
(* the agent has a free slot, and once over stays over.                     *)
(* HeartbeatService implements this specification (its Queue instance).     *)
(***************************************************************************)
EXTENDS Integers, FiniteSets

CONSTANTS Agents, NoAgent, Runs, Limit

VARIABLES
    phase,   \* "none", "waiting", "running" or "over", per run
    owner    \* the agent of a run

vars == <<phase, owner>>

RunningOf(a) == {r \in Runs : owner[r] = a /\ phase[r] = "running"}

Init ==
    /\ phase = [r \in Runs |-> "none"]
    /\ owner = [r \in Runs |-> NoAgent]

Submit(r, a) ==
    /\ phase[r] = "none"
    /\ phase' = [phase EXCEPT ![r] = "waiting"]
    /\ owner' = [owner EXCEPT ![r] = a]

Start(r) ==
    /\ phase[r] = "waiting"
    /\ Cardinality(RunningOf(owner[r])) < Limit
    /\ phase' = [phase EXCEPT ![r] = "running"]
    /\ UNCHANGED owner

(* A run that is running ends; one that waits may be cancelled.              *)
End(r) ==
    /\ phase[r] \in {"waiting", "running"}
    /\ phase' = [phase EXCEPT ![r] = "over"]
    /\ UNCHANGED owner

Next == \E r \in Runs : Start(r) \/ End(r) \/ \E a \in Agents : Submit(r, a)

Spec == Init /\ [][Next]_vars
=============================================================================
