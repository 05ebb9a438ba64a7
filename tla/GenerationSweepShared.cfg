SPECIFICATION Spec
CONSTANTS
    None = None
    q1 = q1
    q2 = q2
    p1 = p1
    p2 = p2
    Runs = {q1, q2}
    Replicas = {p1}
    ReplicaOf <- OneProcess
    Generations = {1, 2}
    BatchSize = 1
    Concurrency = 1
    CheckTimeout = 1
    Deadlines = {None, 2}
    MayEnd = TRUE
    MayFail = FALSE
    MaySever = TRUE
    Horizon = 2
SYMMETRY RunSymmetry
INVARIANTS
    TypeOK
    SlotsBalanced
    ChecksEndInTime
CHECK_DEADLOCK FALSE
