CONSTANTS
    r1 = r1
    r2 = r2
    r3 = r3
    r4 = r4
    s1 = s1
    p1 = p1
    NoRun = NoRun
    Runs = {r1, r2, r3, r4}
    Sessions = {s1}
    Profiles = {p1}
    SessionOf <- OneSessionOf
    ProfileOf <- OneProfileOf
    DiagnosticOrders <- NoDiagnosticOrders
    PersistState = {r1, r2, r3, r4}
    CaptureInitial = {}
    CaptureFinal = {r1, r2, r3, r4}
    Unsupported = {}
    Faulty = {}
    Mortal = {}
    Fragile = {}
SPECIFICATION OpsSpec
INVARIANTS
    NoRecordedWorkIsForgotten
CHECK_DEADLOCK FALSE
