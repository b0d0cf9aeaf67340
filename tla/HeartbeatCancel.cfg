SPECIFICATION Spec

CONSTANTS
    alice = alice
    i1 = i1
    NoAgent = NoAgent
    NoIssue = NoIssue
    w1 = w1
    c1 = c1
    Agents = {alice}
    LocalAgents = {alice}
    Issues = {i1}
    MaxRuns = 2
    MaxWork = 2
    MaxConcurrent = 1
    Wakers = {w1}
    Wakeups <- MentionWakes
    Cancellers = {c1}
    Pausers = {}
    Reapers = {}
    Editable = {}
    Blockable = {}
    Resumable = {}
    MaxCrashes = 0

INVARIANTS
    RunningWithinLimit
    LaunchedOnce
    ChildHasExecutor

PROPERTIES
    ImplementsQueue

CHECK_DEADLOCK FALSE
