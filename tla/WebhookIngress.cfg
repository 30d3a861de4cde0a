SPECIFICATION FairSpec
CONSTANTS
    op = op
    stranger = stranger
    NoTime = NoTime
    Requests = {r1, r2}
    Batches <- MCBatches
    EventsOf <- MCEvents
    Operators <- MCOperators
    ReplayWindow = 1
    RejectionWindow = 1
    MaxTime = 2
    Nobody = nobody
    MaxInlinePosts = 2
    Modes = {"cloud", "inline"}
    MaxPosts = 4
    MaxFailures = 1
INVARIANTS
    InlineTypeOK
    AckedIsHandled
    RejectionsBounded
PROPERTY
    EventuallyAcked
    RequestsEnd
