SPECIFICATION Spec

CONSTANTS
    alice = alice
    bob = bob
    r1 = r1
    r2 = r2
    r3 = r3
    Board = Board
    e1 = e1
    Editors = {e1}
    Unset = Unset
    NoAgent = NoAgent
    NoRun = NoRun
    Agents = {alice, bob}
    Runs = {r1, r2, r3}
    Callers = {r1, r2, Board}
    Expected <- MCOpen
    AgentOf <- MCAgentOf
    Releasers = {Board}
    MaxEdits = 1

INVARIANTS
    OneLiveOwner
    OwnerIsRecorded
    OwnerHoldsLock

CHECK_DEADLOCK FALSE
