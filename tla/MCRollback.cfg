\* Two switches at different depths, one server, one appliance.
CONSTANTS
    core = core
    access = access
    server = server
    clock = clock
    Network   <- MCNetwork
    Server    <- MCServer
    Appliance <- MCAppliance
    Depth     <- MCDepth
    MaxErrors = 1
    MaxCrashes = 1
    MaxDeployments = 2
SPECIFICATION Spec
INVARIANTS
    NoDeviceForgotten
    ReportTruthful
