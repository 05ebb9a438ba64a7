SPECIFICATION Spec
CONSTANTS
    None = None
    Submits = {s1, s2, s3}
    Requests = {r1, r2}
    r1 = r1
    r2 = r2
    write = write
    Purposes = {write}
    PurposeOf <- OnePurpose
    CapChoices <- OneCaller
    Tokens <- OneAnswer
    Summaries = {}
    Retention = 2
    Hold = 2
    Horizon = 3
SYMMETRY SubmitSymmetry
INVARIANTS
    TypeOK
    OverspendBounded
    RetryIsFutileBefore
CHECK_DEADLOCK FALSE
