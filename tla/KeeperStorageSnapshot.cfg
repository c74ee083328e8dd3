CONSTANTS
    Key = {a, b}
    Value = {1, 2}
    None = None
    sizeInBytes <- SizeOfValue
    mzxid <- NoLogIndex
    snapshots_to_keep = 1
    MaxInsertions = 4
    MaxDataSize = 7
    MaxSnapshots = 2
SPECIFICATION Spec
INVARIANTS
    TypeOK
    TableConsistent
    KeysLive
    SizeNeverWraps
    IteratorValid
    FrozenElementsKept
PROPERTIES
    RefinesAtomicSnapshot
