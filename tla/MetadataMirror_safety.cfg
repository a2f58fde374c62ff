SPECIFICATION Spec
CONSTANTS
    Enrolled <- Thread
    Kind <- ThreadKind
    Needs <- ThreadNeeds
    MaxVersion = 2
    MaxShadows = 5
    MaxEdits = 1
    MaxFaults = 2
    WriteBudget = 2
    Tampering = {"alter", "remove", "occupy"}
INVARIANT TypeOK
INVARIANT OneCopy
PROPERTY NoResurrection
PROPERTY ReportsAreTrue
PROPERTY KeepsPromise
