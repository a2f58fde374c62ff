SPECIFICATION Spec
CONSTANTS
    MaxAttempts = 1
    MaxRevision = 0
    MaxFaults = 0
INVARIANT MigratesAlone
