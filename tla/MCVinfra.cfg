\* Two hosts, one of them with SSDs only, and up to two missions.
CONSTANTS
    hybrid = hybrid
    flash = flash
    m1 = m1
    m2 = m2
    Hosts = {hybrid, flash}
    Flash = {flash}
    Missions <- MCMissions
    MaxRuns = 2
    MaxFaults = 1
SPECIFICATION Spec
INVARIANTS
    CompleteMeansThere
    MissionsIsolated
    RetrySucceeds
\* Nothing is left to do when the runs are used up.
CHECK_DEADLOCK FALSE
