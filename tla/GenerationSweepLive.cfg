SPECIFICATION FairSpec
CONSTANTS
    None = None
    q1 = q1
    q2 = q2
    p1 = p1
    p2 = p2
    Runs = {q1, q2}
    Replicas = {p1, p2}
    ReplicaOf <- TwoProcesses
    Generations = {1, 2, 3}
    BatchSize = 2
    Concurrency = 2
    CheckTimeout = 1
    Deadlines = {None}
    MayEnd = TRUE
    MayFail = TRUE
    MaySever = FALSE
    Horizon = 0
INVARIANTS
    OneSweepAtATime
    DrainedMissesNone
PROPERTIES
    CheckedOnce
    EveryGenerationChecked
    LeadIsReleased
CHECK_DEADLOCK FALSE
