SPECIFICATION FairSpec
CONSTANTS
    q1 = q1
    q2 = q2
    Queues <- TwoQueues
    MaxId = 3
INVARIANTS
    TypeOK
    NoLostUpdate
    NoMissedWakeup
PROPERTIES
    EveryUpdatePublished
    ShutdownEndsWorker
    ImplementsFeed
CHECK_DEADLOCK FALSE
