SPECIFICATION Spec
CONSTANTS
    Null = Null
    Environments <- MCEnvironments
    Configurations <- MCConfigurations
    Additions <- MCAdditions
    Requests <- MCRequests
INVARIANTS
    MalformedUrlIsUsageError
CHECK_DEADLOCK FALSE
