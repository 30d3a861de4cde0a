SPECIFICATION Spec
CONSTANTS
    Publishers = {p1}
    InitialSlots <- MCSlots
    OldAds = 2
    MaxPublishes = 5
    MaxFaults = 3
INVARIANTS
    TypeOK
    NewSlotsLast
    PublishedIsShown
    OrphansExplained
PROPERTIES
    AlwaysAppended
