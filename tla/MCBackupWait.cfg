SPECIFICATION FairSpec
CONSTANTS
    Timeout = 5
    Heartbeat = 2
    QueueLimit = 2
    MaxOthers = 5
INVARIANTS
    TypeOK
    NoLostWakeup
    EarlyOnlyOnFailure
    TimeoutBound
PROPERTIES
    NoWaitAfterFlag
    WakesUp
