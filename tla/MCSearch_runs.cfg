SPECIFICATION FairSpec
CONSTANTS
    NumBaselines = 2
    MaxExperiments = 2
    MaxTurns = 2
    MaxRuns = 3
INVARIANTS
    AcceptedWasCleaned
    BooksMatchHistory
PROPERTIES
    SearchStops
    ResultsImmutable
    ImplementsHistory
CHECK_DEADLOCK FALSE
