SPECIFICATION FairSpec
CONSTANTS
    NumConsumers = 2
    ReadLimit = 2
    MaxAttempts = 3
    MaxEvents = 2
    MaxSessions = 2
    MaxFailures = 1
INVARIANTS TypeOK CommittedAfterEffects DoneIsCaughtUp NothingLostQuietly
PROPERTIES Delivers SessionEnds
CHECK_DEADLOCK FALSE
