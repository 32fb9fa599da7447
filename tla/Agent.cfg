SPECIFICATION Spec
CONSTANTS
    Conns = {c1, c2}
    Users = {"ann"}
    Clients <- MCClients
    Requests <- MCRequests
    Groups <- MCGroups
    MaxServed = 2
    MaxOutside = 2
    MaxAtCaches = 1
    KnownRules = {"office", "pua"}
    Locked = {"pua"}
    Tasks = FALSE
    Names = {"setup"}
    Missing <- MCMissing
    MaxRules = 2
    Files <- MCFiles
    Keys <- MCKeys
    Catalogue <- MCCatalogue
CHECK_DEADLOCK FALSE
SYMMETRY ConnSymmetry
INVARIANTS
    AuditIsTrue
    ReportsAreTrue
PROPERTIES
    OnlyForAdministrators
    OthersThingsStay
