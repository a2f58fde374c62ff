SPECIFICATION Spec
CONSTANTS
    NoSlot = NoSlot
    Slots = {s1, s2}
    Enabled = {s1, s2}
    Jobs = {1, 2}
    MaxGeneration = 3
    MaxFaults = 1
    LateCreation = FALSE
INVARIANTS
    ReservedJobsAreExcluded
