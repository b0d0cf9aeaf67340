SPECIFICATION FairSpec

CONSTANTS
    r1 = r1
    r2 = r2
    a1 = a1
    x1 = x1
    x2 = x2
    Runs = {r1, r2}
    Archivers = {a1}
    Services = {"web"}
    Requests <- IdleOrFinish
    Ids = {x1, x2}
    MaxFailures = 1

INVARIANTS
    LeasesEnd
    KeyIsLive

PROPERTIES
    LeasedIsSpared
    UnusedStops

CHECK_DEADLOCK FALSE
