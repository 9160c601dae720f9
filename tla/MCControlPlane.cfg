CONSTANTS
    None = None
    Local = Local
    v1 = v1
    v2 = v2
    Versions <- TwoVersions
    Broken <- BrokenVersions
    Faults = {"transport"}
    Startups = {"api", "not_started", "file"}
    LocalEdits = {"config"}
    MaxFailures = 2
SPECIFICATION FairSpec
INVARIANTS
    TypeOK
    SyncedMeansFollowed
    StatusShowsApplied
PROPERTIES
    AuditAgreesWithLink
    Converges
    OutageIsReported
