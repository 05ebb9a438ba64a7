SPECIFICATION Spec
CONSTANTS
    None = None
    Calls = {c1, c2}
    Runs = {1}
    Asked <- FewRequests
    Others <- ManyRequests
    Declared <- Texts1
    Registered <- Texts1
    Streamable <- OneStreams
    Names = {2, 3}
    Retention = 1
    StartUnknownAfter = 1
    Horizon = 2
SYMMETRY CallSymmetry
INVARIANTS
    TypeOK
    AnswerTravels
    RepliesAgree
    PollSeesTheEnd
    NotFoundIsTrue
    AnsweredWithItsOwn
PROPERTY KeyIdentifies
CHECK_DEADLOCK FALSE
