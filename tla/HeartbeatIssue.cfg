SPECIFICATION FairSpec

CONSTANTS
    alice = alice
    bob = bob
    i1 = i1
    NoAgent = NoAgent
    NoIssue = NoIssue
    w1 = w1
    Agents = {alice, bob}
    LocalAgents = {}
    Issues = {i1}
    MaxRuns = 2
    MaxWork = 2
    MaxConcurrent = 1
    Wakers = {w1}
    Wakeups <- UnmentionedWakes
    Cancellers = {}
    Pausers = {}
    Reapers = {}
    Editable = {}
    Blockable = {}
    Resumable = {}
    MaxCrashes = 0

INVARIANTS
    OneActiveRunPerIssue
    DeferredHasOwner
    CoalescedIntoOwnRun

CHECK_DEADLOCK FALSE

PROPERTIES
    DeferredWakesLeave
