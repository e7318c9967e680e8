SPECIFICATION FairSpec
CONSTANTS
    PipeCapacity = 2
    LeasePeriods = 2
    Preserve = TRUE
INVARIANTS
    ReportedGone
PROPERTIES
    EndsWhenTold
    LeaseEndsEngineUnlessBlocked
CHECK_DEADLOCK FALSE
