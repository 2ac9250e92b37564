SPECIFICATION ESpec
CONSTANTS
    t1 = t1
    t2 = t2
    Run = {r1, t1, t2}
    Importer = {i1}
    Units = {u1, u2}
    ErrorsFit = FALSE
    None = None
    Execution = {x1, x2}
    Order <- MCOrder
    RunCeiling = 1
    JudgeCeiling = 1
    Over <- MCOver
    MaxTotal = 3
SYMMETRY Symmetry
CHECK_DEADLOCK FALSE
INVARIANTS
    MeasuredAgainstStored
    ApprovedAsReviewed
    BudgetKept
    TrialsOnlyMeasure
    Reproducible
    OneAtATime
