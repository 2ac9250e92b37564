SPECIFICATION Spec
CONSTANTS
    w1 = w1
    w2 = w2
    Worker = {w1, w2}
    RunId = {1, 2}
    RunType = {"staged"}
    Settings = {"s1"}
    Requests <- OneWayRequests
    TaskCount = 0
    MaxAttempts = 1
    MaxRepairs = 1
    LeasesMayDrop = TRUE
    None = None
SYMMETRY WorkerSymmetry
INVARIANTS
    TypeOK
    OneExecutor
    InheritedIsReal
PROPERTIES
    SettledRunsFrozen
    KeepsTheRecord
