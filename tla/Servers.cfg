SPECIFICATION FairSpec
CONSTANTS
    None = None
    Jobs = {j1, j2}
    Configs <- SomeConfigs
INVARIANTS
    WorkHasDatabase
    EachCheckHasAConnection
PROPERTIES
    EitherEndsBoth
    SignalEndsProcess
CHECK_DEADLOCK FALSE
