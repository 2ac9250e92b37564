SPECIFICATION Spec
CONSTANTS
    GroupCount = 3
    Threads = 2
    Caller = {1, 2, 3}
    Limit = 6
    Need = 2
    Amount = {2}
    Excess = 1
    Retries = 1
    Repairs = 1
    Corrections = 1
    None = None
CHECK_DEADLOCK FALSE
INVARIANTS
    TypeOK
    OvershootBounded
    OutcomeIsHonest
    CancellationStopsSpending
    NothingLeftBehind
