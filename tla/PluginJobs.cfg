SPECIFICATION FairSpec

CONSTANTS
    j1 = j1
    j2 = j2
    s1 = s1
    s2 = s2
    m1 = m1
    t1 = t1
    Jobs = {j1, j2}
    ScheduledRuns = {s1, s2}
    ManualRuns = {m1}
    Triggers = {t1}
    MaxConcurrentJobs = 1
    Manifests <- BothOrOne

INVARIANTS
    ScheduledOnce
    WithinLimit
    WorkHasDispatch

PROPERTIES
    TicksEnd

CHECK_DEADLOCK FALSE
