SPECIFICATION FairSpec

CONSTANTS
    admin = admin
    boot = boot
    c1 = c1
    Operators = {admin}
    Boot = admin
    Callers = {c1}
    Kinds <- MCKinds
    UpgradesFail = FALSE
    MaxHandles = 2
    MaxProcesses = 2
    MaxConsecutive = 1
    WindowPasses = FALSE

INVARIANTS
    OneWorker
    UnregisteredIsDead
    ReadyHasWorker
    PendingHasProcess

PROPERTIES
    CallSettlesOnce
    OperationsEnd
    BackoffEnds

CHECK_DEADLOCK FALSE
