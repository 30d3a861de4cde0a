SPECIFICATION FairSpec
CONSTANTS
    Wamids = {w1, w2}
    Workers = {k1, k2}
    NoMsg = NoMsg
    FaultKinds <- EveryFault
    MaxFaults = 2
    MaxPosts = 2
INVARIANTS
    TypeOK
    EffectsExplained
    NoConcurrentHandling
    OnlyOwnLoss
PROPERTIES
    EffectUnderMark
    ImplementsGate
    EventuallySettled
