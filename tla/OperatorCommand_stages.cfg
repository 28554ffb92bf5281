SPECIFICATION Spec
CONSTANTS
    Null = Null
    Environments <- MCEnvironments
    Configurations <- MCConfigurations
    Additions <- MCAdditions
    Requests <- MCRequests
INVARIANTS
    
    ReportAgreesWithDatabase
    ConfigFollowsPrecedence
    NothingPrivateIsLaunched
CHECK_DEADLOCK FALSE
