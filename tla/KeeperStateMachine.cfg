CONSTANTS
    Root = Root
    Key = {a}
    None = None
    sizeInBytes <- UnitSize
    mzxid <- ModifiedAt
    snapshots_to_keep = 2
    MaxLog = 3
    MaxCrashes = 1
    MaxVersion = 2
    MaxAbandoned = 1
    WritingMayFail = TRUE
    SnapshotsMayLag = TRUE
    InstallMayOverlap = TRUE
SPECIFICATION Spec
INVARIANTS
    TypeOK
    StorageIsLogPrefix
    GoodSnapshotsAreLogPrefixes
    Recoverable
PROPERTIES
    SnapshotsFinish
    InstallsFinish
CHECK_DEADLOCK FALSE
