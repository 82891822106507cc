\* Two requests at a time, three calls, one restart of the server.
CONSTANTS
    q1 = q1
    q2 = q2
    Request <- MCRequest
    MaxCalls = 3
    MaxRestarts = 1
SPECIFICATION Spec
SYMMETRY MCSymmetry
INVARIANTS
    StopReachesItsRun
    ExclusiveUnlessRequestsOverlap
    RecordsSettle
    StoppedCanBeResumed
\* After the last call nothing is left to do.
CHECK_DEADLOCK FALSE
