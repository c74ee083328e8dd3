CONSTANTS
    Client = {c1}
    max_requests_batch_size = 1
    MaxXid = 2
    MaxRaftLog = 3
    MaxResponses = 1
    MaxTrouble = 2
SPECIFICATION Spec
INVARIANTS TypeOK MutexExclusive AnswersInOrder ReadsSeeOwnWrites
PROPERTIES StuckForever RequestsAnswered ExpiredSessionsClosed ShutdownFinishesUnlessStuck
CHECK_DEADLOCK FALSE
