SPECIFICATION FairSpec
CONSTANTS
    GroupCount = 2
    Threads = 2
    Caller = {1, 2}
    Limit = 4
    Need = 2
    Amount = {2}
    Excess = 1
    Retries = 1
    Repairs = 1
    Corrections = 1
    None = None
CHECK_DEADLOCK FALSE
PROPERTIES
    PoolEnds
