SPECIFICATION FairSpec
CONSTANTS
    Enrolled <- Two
    Kind <- TwoKind
    Needs <- TwoNeeds
    MaxVersion = 1
    MaxShadows = 3
    MaxEdits = 1
    MaxFaults = 2
    WriteBudget = 1
    Tampering = {"alter", "remove", "occupy"}
PROPERTY MirrorSettles
