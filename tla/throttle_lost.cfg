CONSTANTS
    MaxRequests = 3
    Unknown = {}
    MaxConcurrent = 1
    MaxTrouble = 1
    MaxBacklog = 1
SPECIFICATION Spec
CHECK_DEADLOCK FALSE
INVARIANT QueuedSurvives
