\* Two switches at different depths, an appliance, and a server whose role is a string.
CONSTANTS
    core = core
    access = access
    server = server
    clock = clock
    Network   <- MCNetwork
    Server    <- MCServer
    Appliance <- MCAppliance
    Firmware  <- MCFirmware
    Depth     <- MCDepth
    Reachable <- MCReachable
    RoleStrings <- MCServer
    MaxFaults = 1
    MaxCrashes = 1
SPECIFICATION FairSpec
INVARIANTS
    CheckpointHonest
    PhasesBuildOnEachOther
    NoNetworkChangeAfterError

    
