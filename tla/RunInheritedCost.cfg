SPECIFICATION Spec
CONSTANTS
    w1 = w1
    w2 = w2
    Worker = {w1, w2}
    RunId = {1, 2}
    RunType = {"staged"}
    Settings = {"s1"}
    Requests <- AllRequests
    TaskCount = 1
    MaxAttempts = 1
    MaxRepairs = 1
    LeasesMayDrop = FALSE
    None = None
SYMMETRY WorkerSymmetry
INVARIANTS
    InheritedIsComplete
