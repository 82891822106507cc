\* Three calls with up to two faults each.
CONSTANTS
    Specs <- MCSpecs
    MaxCalls = 3
    MaxFaults = 2
SPECIFICATION FairSpec
INVARIANTS
    AccessNeverLost
    ProvisionedAsSpecified
    RetrySucceeds
PROPERTIES
    CallReturns
\* A provisioned box, or one whose calls are used up, is left alone.
CHECK_DEADLOCK FALSE
