SPECIFICATION FairSpec
CONSTANTS
    NumSubscribers = 2
    RequestedCapacity <- MCRequestedCapacity
    MaxEvents = 5
INVARIANTS
    TypeOK
    QueueBounded
    NoSilentLoss
    NewestSurvives
    HandledInOrder
    JoinedIsCaughtUp
PROPERTY
    StopReturns
