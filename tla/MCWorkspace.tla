---------------------------- MODULE MCWorkspace ----------------------------
EXTENDS WorkspaceRuntime, TLC

CONSTANTS r1, r2, a1, x1, x2

Web(policy)  == [service |-> "web", shared |-> TRUE, stopPolicy |-> policy]
IdleOrFinish == {{Web("idle_timeout")}, {Web("on_run_finish")}}
=============================================================================
