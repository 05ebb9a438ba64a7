SPECIFICATION Spec
CONSTANTS
    None = None
    q1 = q1
    q2 = q2
    p1 = p1
    p2 = p2
    Runs = {q1, q2}
    Replicas = {p1, p2}
    ReplicaOf <- TwoProcesses
    Generations = {1, 2}
    BatchSize = 1
    Concurrency = 1
    CheckTimeout = 1
    Deadlines = {None}
    MayEnd = FALSE
    MayFail = FALSE
    MaySever = TRUE
    Horizon = 0
INVARIANT OneSweepAtATime
CHECK_DEADLOCK FALSE
