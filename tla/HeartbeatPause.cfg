SPECIFICATION Spec

CONSTANTS
    alice = alice
    i1 = i1
    NoAgent = NoAgent
    NoIssue = NoIssue
    w1 = w1
    p1 = p1
    Agents = {alice}
    LocalAgents = {}
    Issues = {i1}
    MaxRuns = 2
    MaxWork = 2
    MaxConcurrent = 2
    Wakers = {w1}
    Wakeups <- MentionWakes
    Cancellers = {}
    Pausers = {p1}
    Reapers = {}
    Editable = {i1}
    Blockable = {alice}
    Resumable = {alice}
    MaxCrashes = 0

INVARIANTS
    PausedIsSwept

CHECK_DEADLOCK FALSE
