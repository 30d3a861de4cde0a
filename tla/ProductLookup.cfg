SPECIFICATION Spec
CONSTANTS
    Workers = {k1, k2}
    Nobody = nobody
    MaxMsgs = 3
    MaxAborts = 1
    MaxRetries = 1
    MinimumScore = 1
    MaxScore = 2
    MaxFound = 2
SYMMETRY Symmetry
INVARIANTS
    TypeOK
    FirstWriteDecides
    LockOrder
    UploadsAccounted
    NoticesExplained
    AskedIsStored
    SelectionIsBest
PROPERTY
    OperatorValuesKept
