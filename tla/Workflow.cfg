SPECIFICATION AnySpec
CONSTANTS
    Workers = {k1, k2}
    Kinds <- AllKinds
    MaxMsgs = 3
    MaxAborts = 1
SYMMETRY Symmetry
INVARIANTS
    TypeOK
    OnlyCompletePairs
    AdsAccounted
PROPERTIES
    ImplementsLedger
    PreviewIsLatest
    PublishedAsSent
