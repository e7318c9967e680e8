CONSTANTS
    Processes = {1, 2, 3}
    MaxDrift = 1
    MaxSignals = 1
    MaxMishaps = 1
SPECIFICATION FairSpec
INVARIANTS
    LabelCovers
    SameGround
PROPERTIES
    StopEnds
ACTION_CONSTRAINTS
    BeginInOrder
    DriftWhenSeen
CHECK_DEADLOCK FALSE
