\* A call, a call that repeats it and one more; a lost session and a crash.
CONSTANTS
    MaxCalls = 3
    MaxDrops = 2
    MaxCrashes = 1
SPECIFICATION FairSwitchSpec
INVARIANTS
    SuccessIsDurable
    UnvalidatedRunsArmed
PROPERTIES
    DeviceRecovers
\* After the last call nothing is left to do.
CHECK_DEADLOCK FALSE
