SPECIFICATION Spec
CONSTANTS
    None = None
    Starter = starter
    Checks = {c1}
    Modes = {TRUE, FALSE}
    MayInherit = TRUE
    MayFreeze = FALSE
    MayDrop = TRUE
    Answers = {"counted", "uncounted", "refusedByDatabase", "oversized"}
    Retention = 1
    StartTimeout = 1
    StreamStartTimeout = 1
    PersistenceTimeout = 1
    RecordPatience = 2
    RecordPause = 1
    RecordPauseCeiling = 1
    StartOutcomeUnknownAfter = 3
    StreamQueuedCeiling = 4
    StopRetryWindow = 1
    RunCeiling = 5
    Horizon = 6
    MaxAdmission = 1
INVARIANTS
    
    SchemaHolds
    StartNeverOutrun
 
CHECK_DEADLOCK FALSE
