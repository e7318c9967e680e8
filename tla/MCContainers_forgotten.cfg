CONSTANTS
    Groups <- Three
    MaxExperiments = 1
    MaxMishaps = 2
SPECIFICATION Spec
INVARIANTS
    GateAfterAllStopped
CHECK_DEADLOCK FALSE
