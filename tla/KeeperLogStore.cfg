CONSTANTS
    None = None
    rotate_interval = 2
    QueueSize = 1
    reserved_log_items = 1
    Faults = {"overwrite", "halfway", "torn", "uncleaned"}
    MaxIndex = 5
    MaxTerm = 3
    MaxCrashes = 2
    MaxFaults = 1
SPECIFICATION Spec
INVARIANTS
    TypeOK
    LogContiguousUnharmed
    TermsMonotone
    AckedSurviveUnharmed
    FilesHoldTheirRange
    CleanRestart
CHECK_DEADLOCK FALSE
