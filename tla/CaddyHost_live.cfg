SPECIFICATION FairSpec
CONSTANTS
    MaxGeneration = 2
    MaxRevision = 1
    MaxFaults = 2
PROPERTY UnfinishedIsResolved
PROPERTY ServiceReturns
