CONSTANTS
    r1 = r1
    r2 = r2
    r3 = r3
    r4 = r4
    s1 = s1
    p1 = p1
    NoRun = NoRun
    Runs = {r1, r2, r3, r4}
    Sessions = {s1}
    Profiles = {p1}
    SessionOf <- OneSessionOf
    ProfileOf <- OneProfileOf
    DiagnosticOrders <- MCDiagnosticOrders
    PersistState = {r1, r2, r3}
    CaptureInitial = {r1, r3}
    CaptureFinal = {r1, r2, r3}
    Unsupported = {}
    Faulty = {r1}
    Mortal = {r1}
    Fragile = {r1}
SPECIFICATION OpsSpec
INVARIANTS
    OpsTypeOK
    LatestIsRecorded
    OnlyRecordedWorkIsCarried
    SnapshotsFormLineages
PROPERTIES
    Spec
    UndisturbedRunsAccumulate
CHECK_DEADLOCK FALSE
