SPECIFICATION Spec
CONSTANTS
    w1 = w1
    w2 = w2
    Worker = {w1}
    RunId = {1, 2, 3}
    RunType = {"staged"}
    Settings = {"s1", "s2"}
    Requests <- ChainRequests
    TaskCount = 1
    MaxAttempts = 2
    MaxRepairs = 1
    LeasesMayDrop = FALSE
    None = None
INVARIANTS
    FinalRecordAgrees
    ReuseIsGrounded
    InheritedIsReal
