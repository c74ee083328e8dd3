CONSTANTS
    NoACL = {}
    a = a
    b = b
    alice = alice
    BaseName = {a, b, empty}
    EmptyName = empty
    AuthID = {alice}
    SuperID = super
    SessionTimeout = {1}
    Requests <- RootMultiRequests
    MaxSessions = 1
    MaxZxid = 3
SPECIFICATION Spec
INVARIANTS
    FailedMultiRestores
CHECK_DEADLOCK FALSE
