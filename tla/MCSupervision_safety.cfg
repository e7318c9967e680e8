CONSTANTS
    Indices = {i, j}
    MaxRestarts = 2
    UnhealthyAfter = 2
    MaxMishaps = 3
SPECIFICATION FairSpec
INVARIANTS
    ReplacedOutOfRotation
    
PROPERTIES
    StoppedIsFinal
    DeadIsReplaced
    ShutdownCompletes
CHECK_DEADLOCK FALSE
