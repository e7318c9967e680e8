CONSTANTS
    Requests = {r1, r2, r3}
    ReplicaIds = {a, b}
    MaxConcurrency = 2
    MaxQueueDepth = 1
    MaxGeneration = 1
SPECIFICATION Spec
INVARIANTS
    SlotsConserved
    InflightExact
    FailuresExact
PROPERTY
    RetriedOnceElsewhere
SYMMETRY Symmetry
CHECK_DEADLOCK FALSE
