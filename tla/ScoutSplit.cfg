SPECIFICATION Spec
CONSTANTS
    Stage = {"scout"}
    Item = {1, 2}
    Plan <- OneScout
    Config = {c1}
    Extracting = {"scout"}
    MaxRuns = 2
    MaxFits = 2
    None = None
INVARIANTS
    HalvesMakeAWhole
CHECK_DEADLOCK FALSE
