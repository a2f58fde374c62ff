SPECIFICATION FairSpec
CONSTANTS
    MaxAttempts = 1
    MaxRevision = 1
    MaxFaults = 3
INVARIANTS
    TypeOK
    OnePending
    CaptureIsStill
    ConfigurationActive
PROPERTIES
    UpgradesAreSafe
    UpgradesSettle
    AppReturns
