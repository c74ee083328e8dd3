CONSTANTS
    Client = {c1}
    max_requests_batch_size = 1
    MaxXid = 1
    MaxRaftLog = 3
    MaxResponses = 1
    MaxTrouble = 2
SPECIFICATION Spec
PROPERTIES ShutdownFinishes
CHECK_DEADLOCK FALSE
