SPECIFICATION ServingSpec
CONSTANTS
    Options <- MCOptions
    Goals <- MCGoals
    Outcomes <- MCOutcomes
    TopK = 2
    StageAConc = 4
    SweepPoints <- MCSweepPoints
    Refinements = 1
    Budgets = {80, 84}
    Raised <- MCRaised
    Free <- MCFree
    Minor <- MCMinor
    MaxVersion = 3
    MaxRuns = 3
    MaxSetbacks = 2
    NONE = NONE
INVARIANTS
    ServedIsEvidence
    StopFindsDeployment
    SettlesWell
PROPERTIES
    FinishedIsKept
CHECK_DEADLOCK FALSE
ACTION_CONSTRAINT Apart
