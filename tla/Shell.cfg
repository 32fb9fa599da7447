SPECIFICATION Spec
CONSTANTS
    Calls = {k1, k2}
    Commands <- MCCommands
    Groups <- MCGroups
    MaxInvoked = 2
    MaxOutside = 3
    Items = {"letter", "disc"}
    Large = {"disc"}
    Reports <- MCReports
    Versions <- MCVersions
SYMMETRY CallSymmetry
CHECK_DEADLOCK FALSE
INVARIANTS
    ConsentIsHonest
    RemovalsAreTold
    CalmOnlyWhenRead
    ComesAndGoesAsChosen
