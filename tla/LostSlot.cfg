SPECIFICATION Spec
CONSTANTS
    Publishers = {p1, p2}
    InitialSlots <- MCSlots
    OldAds = 2
    MaxPublishes = 2
    MaxFaults = 0
SYMMETRY Symmetry
PROPERTY
    AlwaysAppended
