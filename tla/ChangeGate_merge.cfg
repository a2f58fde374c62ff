SPECIFICATION Spec
CONSTANTS
    Commands = {c1, c2}
    RulesetIds = {1, 2}
    MaxTroubles = 1
    MaxHeads = 1
    Changes <- MCChanges
    Platforms <- MCPlatforms
SYMMETRY CommandSymmetry
INVARIANT TypeOK
INVARIANT ReportsProtection
PROPERTY MergedIsValidated
CHECK_DEADLOCK FALSE
