SPECIFICATION FairSpec

CONSTANTS
    alice = alice
    i1 = i1
    NoAgent = NoAgent
    NoIssue = NoIssue
    w1 = w1
    k1 = k1
    Agents = {alice}
    LocalAgents = {alice}
    Issues = {i1}
    MaxRuns = 2
    MaxWork = 2
    MaxConcurrent = 1
    Wakers = {w1}
    Wakeups <- TimerWakes
    Cancellers = {}
    Pausers = {}
    Reapers = {k1}
    Editable = {}
    Blockable = {alice}
    Resumable = {}
    MaxCrashes = 0

PROPERTIES
    QueuedRunsLeave

CHECK_DEADLOCK FALSE
