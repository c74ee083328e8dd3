CONSTANTS
    NoACL = {}
    a = a
    b = b
    alice = alice
    BaseName = {a, b, empty}
    EmptyName = empty
    AuthID = {alice}
    SuperID = super
    SessionTimeout = {1}
    Requests <- FailedMultiRequests
    MaxSessions = 1
    MaxZxid = 3
SPECIFICATION Spec
PROPERTIES
    WatchesFireOnChange
CHECK_DEADLOCK FALSE
