SPECIFICATION FairSpec
CONSTANTS
    Stage = {"source_audit", "curator"}
    Item = {1, 2, 3, 4, 5}
    Plan <- TwoStages
    Config = {c1, c2}
    Extracting = {}
    MaxRuns = 3
    MaxFits = 3
    None = None
INVARIANTS
    HalvesMakeAWhole
    RowsAgree
    NothingAskedTwice
PROPERTIES
    RunsEnd
CHECK_DEADLOCK FALSE
