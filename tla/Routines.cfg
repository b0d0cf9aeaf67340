SPECIFICATION FairSpec

CONSTANTS
    k1 = k1
    c1 = c1
    c2 = c2
    u1 = u1
    r1 = r1
    r2 = r2
    i1 = i1
    i2 = i2
    Ticks = {k1}
    Callers = {c1, c2}
    Updaters = {u1}
    Runs = {r1, r2}
    Issues = {i1, i2}
    Keys = {"key"}
    Statuses = {"active"}
    Policies = {"coalesce_if_active"}
    CatchUpPolicies = {"skip_missed"}
    Edits = {"done"}
    Hiding = {TRUE}
    Sources = {"manual"}
    Attributed = {FALSE}
    Enabling = {TRUE}
    MaxCatchUp = 2
    MaxTime = 1
    Connections = 3

INVARIANTS
    OneFreshIssue
    OncePerKey
    CoalescedIntoCreated

PROPERTIES
    LockIsReleased

CHECK_DEADLOCK FALSE
