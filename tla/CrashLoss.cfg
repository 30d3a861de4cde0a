SPECIFICATION Spec
CONSTANTS
    Wamids = {w1}
    Workers = {k1, k2}
    NoMsg = NoMsg
    FaultKinds = {"crash"}
    MaxFaults = 1
    MaxPosts = 2
SYMMETRY Symmetry
INVARIANT
    NoSilentLoss
