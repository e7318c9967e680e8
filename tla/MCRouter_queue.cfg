SPECIFICATION FairSpec
CONSTANTS
    a = a
    Requests = {1, 2, 3, 4, 5}
    ReplicaIds = {a}
    MaxConcurrency = 2
    MaxQueueDepth = 2
    MaxGeneration = 0
INVARIANTS
    QueueExact
PROPERTIES
    ImplementsAdmission
    RequestsSettle
ACTION_CONSTRAINT ArriveInOrder
CHECK_DEADLOCK FALSE
