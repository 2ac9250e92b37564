CONSTANTS
    None = None
    Profiles = {"efficient", "corrected", "single", "staged"}
    RepairStride = 6
    RepairBase = 30
    MaxAnswer = 2
    RawSuites <- MCRawSuites
    Documents <- MCDocuments
    ChunkLimit = 2
    ScoutCount = 2
    CuratorBatch = 2
    PeerLimit = 1
    RejectBatch = 1
    RejectBase = 30
    SinglePassMax = 2
    MaterializeMax = 1
    MaxCandidates = 3
    MaxRequirements = 2
    MaxDependencies = 1
    MaxDependents = 1
    DesignBatch = 2
    WriterBatch = 1
    CriticBatch = 1
    ScenarioBatch = 1
    TestBatch = 1
    Complaints <- MCComplaints
    MaxReport = 2
    MaxFindings = 3
    StoredCatalogs <- MCCatalogs
    Statements = {1, 2}
    CatalogTasks = 2
    UnitBatch = 2
    CaseBatch = 2
SPECIFICATION Spec
INVARIANTS
    SourcesOwnedOnce
    CandidatesAccounted
    DraftIsValid
    RowsDistinct
    AcceptedIsVerified
    DraftKept
    ValidIsTraceable
    ScoredInFull
PROPERTIES
    LinkingAddsNoIssue
    StoredAsReturned
CHECK_DEADLOCK FALSE
