SPECIFICATION Spec
CONSTANTS
    Null = Null
    Environments <- MCEnvironments
    Configurations <- MCConfigurations
    Additions <- MCAdditions
    Requests <- MCRequests
INVARIANTS
    DiagnosticFailuresExitAsDiagnostic
CHECK_DEADLOCK FALSE
