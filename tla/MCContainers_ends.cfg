CONSTANTS
    Groups <- Three
    MaxExperiments = 2
    MaxMishaps = 2
SPECIFICATION FairSpec
INVARIANTS
    SoleOnGpus
PROPERTIES
    ExperimentEnds
    EnginesEnd
CHECK_DEADLOCK FALSE
