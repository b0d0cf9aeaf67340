SPECIFICATION Spec

CONSTANTS
    agent = agent
    project = project
    e1 = e1
    u1 = u1
    r1 = r1
    r2 = r2
    AgentScopes = {agent}
    CompanyScopes = {}
    ProjectScopes = {project}
    Runs = {r1, r2}
    IssueRuns = {r2}
    WorkOf <- AgentAndProject
    Events = {e1}
    Admins = {u1}
    Addressed = {project}
    MaxAmount = 2
    MaxSpend = 3

INVARIANTS
    FundedWork
    CrossingRecorded

PROPERTIES
    ManualPauseKept

CHECK_DEADLOCK FALSE
