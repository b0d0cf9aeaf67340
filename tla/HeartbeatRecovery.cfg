SPECIFICATION FairSpec

CONSTANTS
    alice = alice
    i1 = i1
    NoAgent = NoAgent
    NoIssue = NoIssue
    w1 = w1
    k1 = k1
    Agents = {alice}
    LocalAgents = {alice}
    Issues = {i1}
    MaxRuns = 3
    MaxWork = 1
    MaxConcurrent = 1
    Wakers = {w1}
    Wakeups <- TimerWakes
    Cancellers = {}
    Pausers = {}
    Reapers = {k1}
    Editable = {}
    Blockable = {}
    Resumable = {}
    MaxCrashes = 1

INVARIANTS
    RetriedOnce
    ReaperSparesLiveRuns

PROPERTIES
    RunningRunsEnd
    QueuedRunsLeave

CHECK_DEADLOCK FALSE
