SPECIFICATION Spec
CONSTANTS
    NumConsumers = 1
    ReadLimit = 2
    MaxAttempts = 3
    MaxEvents = 2
    MaxSessions = 2
    MaxFailures = 0
INVARIANT LedgerValidates
CHECK_DEADLOCK FALSE
