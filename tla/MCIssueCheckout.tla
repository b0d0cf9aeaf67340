-------------------------- MODULE MCIssueCheckout ---------------------------
(* Two runs of one agent and one of another contend for an issue. *)
EXTENDS IssueCheckout, TLC

CONSTANTS alice, bob, r1, r2, r3, e1

MCExpected == {{"todo"}, {"todo", "in_progress"}}
MCTodo     == {{"todo"}}
MCOpen     == {{"todo", "in_progress"}}

MCAgentOf == [r \in Runs |-> IF r = r3 THEN bob ELSE alice]
=============================================================================
