SPECIFICATION Spec
CONSTANTS
    checkout = checkout
    v1 = v1
    v2 = v2
    o1 = o1
    o2 = o2
    a1 = a1
    a2 = a2
    b1 = b1
    Preparers = {a1, a2}
    Checkouts = {checkout}
    HomeOf <- MCHomeOf
    Versions = {v1, v2}
    Overrides = {o1, o2}
    MaxEdits = 1
    MaxGalaxyFaults = 2
    MaxGenerations = 2
    Invocations = {a1, a2, b1}
    CloneOf <- MCCloneOf
    TestPlatforms = {"debian"}
    MaxMoleculeFaults = 1
    TimedPhases = {"create", "converge"}
    TaskSources = {"x", "y"}
    RoleRuns <- MCRoleRuns
    MaxPhases = 2
    MaxTasks = 2
    MaxLines = 5
SYMMETRY ToolSymmetry
INVARIANT TypeOK
INVARIANT VerdictsAreTrue
INVARIANT TimingAccounts
PROPERTY SelectionIsSound
PROPERTY NothingIsLost
PROPERTY CollisionsAreRefused
CHECK_DEADLOCK FALSE
