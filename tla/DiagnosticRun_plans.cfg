SPECIFICATION Spec
CONSTANTS
    Kinds <- AllKinds
    Initializers = 2
    MaxEvents = 3
    None = None
INVARIANTS
    NothingOutlivesTheRun
    CountMatchesArtifact
    EvidenceIsOfTheNavigation
CHECK_DEADLOCK FALSE
