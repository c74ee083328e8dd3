CONSTANTS
    None = None
    rotate_interval = 2
    QueueSize = 1
    reserved_log_items = 1
    Faults = {"uncleaned"}
    MaxIndex = 5
    MaxTerm = 3
    MaxCrashes = 1
    MaxFaults = 1
SPECIFICATION Spec
INVARIANT AckedSurvive
CHECK_DEADLOCK FALSE
