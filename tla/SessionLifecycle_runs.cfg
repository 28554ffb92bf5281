CONSTANTS
    r1 = r1
    r2 = r2
    r3 = r3
    r4 = r4
    s1 = s1
    s2 = s2
    s3 = s3
    p1 = p1
    NoRun = NoRun
    Runs = {r1, r2, r3, r4}
    Sessions = {s1, s2, s3}
    Profiles = {p1}
    SessionOf <- SharedSessionOf
    ProfileOf <- SharedProfileOf
    PersistState = {r1, r2, r3}
    CaptureInitial = {r1, r2}
    CaptureFinal = {r1, r3}
    Unsupported = {r4}
    Faulty = {r1, r3}
    Mortal = {r1, r3}
    Fragile = {r1}
SPECIFICATION FairSpec
INVARIANTS
    TypeOK
    LiveRuntimeUnderLock
    OneBrowserPerProfile
    NoLockLeak
    StartsFromPrior
    RefsAreComplete
    SuccessIsClean
    SessionsAreIsolated
PROPERTIES
    CustodySpec
    OpenedRunsEnd
    LocksDrain
CHECK_DEADLOCK FALSE
