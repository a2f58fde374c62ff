SPECIFICATION Spec
CONSTANTS
    MaxDrillFaults = 2
    MaxSignals = 1
    MaxAttempts = 2
    MaxHostFaults = 2
    MaxArchives = 2
    MaxTransferFaults = 2
    MaxMishaps = 3
    MaxIssued = 2
    MaxRenewalFaults = 3
    MaxReleases = 2
    MaxDeclarations = 2
    MaxSetupFaults = 2
    MaxMeddling = 2
INVARIANT TypeOK
INVARIANT ReportsAreHonest
INVARIANT NothingHalfMadeIsUsed
PROPERTY OthersAreKept
PROPERTY ArchivesAreKept
CHECK_DEADLOCK FALSE
