SPECIFICATION FairSpec
CONSTANTS
    None = None
    Submits = {s1, s2}
    Requests = {r1, r2}
    r1 = r1
    r2 = r2
    write = write
    Purposes = {write}
    PurposeOf <- OnePurpose
    CapChoices <- ManyCallers
    Tokens <- OneAnswer
    Summaries = {1, None}
    Retention = 1
    Hold = 1
    Horizon = 2
INVARIANTS
    OneRunPerRequest
    SummaryMissesNone
PROPERTIES
    ConcurrencyHeld
    SubmitsEnd
CHECK_DEADLOCK FALSE
