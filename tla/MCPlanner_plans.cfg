SPECIFICATION Spec
CONSTANTS
    Scenarios <- MCScenarios
    Options <- MCOptions
    ExhaustiveMax = 4
    NONE = NONE
INVARIANTS
    PlacementSound
    BestGroups
    
    Narrows
CHECK_DEADLOCK FALSE
