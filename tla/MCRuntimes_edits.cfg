CONSTANTS
    Nodes = 2
    Engines = {vllm, sglang}
    Commands = {upgrade, patch}
    Upgrades = {upgrade}
    MaxEdits = 2
    MaxExperiments = 2
    MaxIndex = 1
    MaxMishaps = 1
SPECIFICATION Spec
INVARIANTS
    EditsAreReplayed
    RecipeIsComplete
    OneVersion
SYMMETRY Symmetry
CHECK_DEADLOCK FALSE
