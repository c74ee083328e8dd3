CONSTANTS
    NoACL = {}
    a = a
    b = b
    alice = alice
    BaseName = {a, b, empty}
    EmptyName = empty
    AuthID = {alice}
    SuperID = super
    SessionTimeout = {1}
    Requests <- SessionRequests
    MaxSessions = 2
    MaxZxid = 4
SPECIFICATION Spec
INVARIANTS
    TypeOK
    EphemeralsConsistent
    NothingOutlivesItsSession
    WatchesTracked
PROPERTIES
    WatchedChangesNotify
CHECK_DEADLOCK FALSE
