SPECIFICATION FairSpec
CONSTANTS
    p1 = p1
    s1 = s1
    r1 = r1
    r2 = r2
    c1 = c1
    c2 = c2
    Null = Null
    Profiles = {p1}
    Sessions = {s1}
    Runs = {r1, r2}
    Clients = {c1, c2}
    Gives <- MCGives
    ProfileOf <- MCProfileOf
    SessionOf <- MCSessionOf
    Snapshots <- MCSnapshots
    DiagnosticOrder <- MCDiagnosticOrder
    Editable = {"sessions"}
    MaxHealth = 1
INVARIANTS
    TypeOK
    RowsReferToRows
    ReadersSeeWholeRuns
    LatestPairIsOneRuns
PROPERTIES
    OnlyStaleEditsUndo
    WriteLockComesBack
