SPECIFICATION FairSpec
CONSTANTS
    L = 2
    Window = 2
    Tolerated = 1
    Pulses = 3
    Groups = 2
    MaxNoise = 2
INVARIANTS
    ReceiverInvariant
    GroupsAreWhole
PROPERTIES
    AcquiresInStep
    Recovers
