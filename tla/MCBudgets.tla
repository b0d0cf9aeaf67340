----------------------------- MODULE MCBudgets -----------------------------
(* A run that names the project it is for, and a run of an issue of it, by the *)
(* agent with a policy.                                                       *)
EXTENDS Budgets, TLC

CONSTANTS agent, project, e1, u1, r1, r2

AgentAndProject == agent :> {r2} @@ project :> Runs
=============================================================================
