SPECIFICATION FairSpec
CONSTANTS
    NoSlot = NoSlot
    Slots = {s1, s2}
    Enabled = {s1, s2}
    Jobs = {1}
    MaxGeneration = 2
    MaxFaults = 1
    LateCreation = TRUE
INVARIANTS
    EnrollmentIsBounded
PROPERTIES
    SlotsRecover
    WaitingJobsAreServed
