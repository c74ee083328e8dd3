CONSTANTS
    NoACL = {}
    a = a
    b = b
    alice = alice
    BaseName = {a, b, empty}
    EmptyName = empty
    AuthID = {alice}
    SuperID = super
    SessionTimeout = {1}
    Requests <- MultiACLRequests
    MaxSessions = 2
    MaxZxid = 5
SPECIFICATION Spec
INVARIANTS
    TreeConsistent
    FailedMultiRestores
    ACLUsageCounted
PROPERTIES
    VersionsAdvance
CHECK_DEADLOCK FALSE
