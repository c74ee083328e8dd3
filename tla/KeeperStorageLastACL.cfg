CONSTANTS
    NoACL = {}
    a = a
    b = b
    alice = alice
    BaseName = {a, b, empty}
    EmptyName = empty
    AuthID = {alice}
    SuperID = super
    SessionTimeout = {1}
    Requests <- LastACLRequests
    MaxSessions = 1
    MaxZxid = 4
SPECIFICATION Spec
INVARIANTS
    NeverUnknownACL
CHECK_DEADLOCK FALSE
