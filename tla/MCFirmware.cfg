\* Three devices, the last one without a spec in the inventory.
CONSTANTS
    NumDevices = 3
    Known <- MCKnown
    Unparsed <- MCUnparsed
    Replacing <- MCReplacing
    Catalogues <- MCCatalogues
    MaxDrops = 2
SPECIFICATION FirmwareFairSpec
INVARIANTS
    PassedMeansUpgraded
    OneDeviceAtRisk
    BootImageVerified
    AuditAgreesWithTests
PROPERTIES
    RunnerEnds
\* When all devices have their result nothing is left to do.
CHECK_DEADLOCK FALSE
