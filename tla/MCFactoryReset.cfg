\* Two resets of four devices with one fault each.
CONSTANTS
    core = core
    fw = fw
    srv = srv
    clk = clk
    Devices <- MCDevices
    Kind <- MCKind
    Path <- MCPath
    Discoveries <- MCDiscoveries
    MaxRuns = 2
    MaxFaults = 1
SPECIFICATION ResetSpec
INVARIANTS
    ReportedResetIsReal
    CompleteMeansAllReset
    NetworkGoesLast
\* Nothing is left to do when the resets are used up.
CHECK_DEADLOCK FALSE
