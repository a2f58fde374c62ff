SPECIFICATION Spec
CONSTANTS
    MaxGeneration = 2
    MaxRevision = 2
    MaxFaults = 3
INVARIANT TypeOK
INVARIANT CrashesAreRecoverable
INVARIANT CommittedIsServed
PROPERTY CommitsAtomically
