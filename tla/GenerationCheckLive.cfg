SPECIFICATION FairSpec
CONSTANTS
    None = None
    Starter = starter
    Checks = {c1}
    Modes = {TRUE}
    MayInherit = FALSE
    MayFreeze = TRUE
    MayDrop = FALSE
    Answers = {"counted", "refusedByDatabase"}
    Retention = 1
    StartTimeout = 1
    StreamStartTimeout = 1
    PersistenceTimeout = 1
    RecordPatience = 2
    RecordPause = 1
    RecordPauseCeiling = 1
    StartOutcomeUnknownAfter = 3
    StreamQueuedCeiling = 1
    StopRetryWindow = 1
    RunCeiling = 2
    Horizon = 3
    MaxAdmission = 0
INVARIANT NothingRunsUnseen
PROPERTY EventuallySettles
CHECK_DEADLOCK FALSE
