CONSTANTS
    core = core
    dist = dist
    acc1 = acc1
    acc2 = acc2
    acc3 = acc3
    unknown = unknown
    Device <- MCDevice
    Depth  <- MCDepth
    Path   <- MCPath
    Ascending = FALSE
    StopOnFailure = TRUE
    MaxWorkers = 2
SPECIFICATION FairSpec
INVARIANTS
    PathIntact
PROPERTIES
    RefinesRollout
\* The call returns.
CHECK_DEADLOCK FALSE
