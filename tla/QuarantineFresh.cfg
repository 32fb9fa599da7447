SPECIFICATION FreshSpec
CONSTANTS
    Workers = {w1, w2}
    shared = shared
    own = own
    folder = folder
    away = away
    distant = distant
    Paths = {shared, own}
    Barred = {}
    Contents = {a, b, folder}
    Directories = {folder}
    Links = {}
    Home <- MCHome
    Nothing = Nothing
    NoPath = NoPath
    Suffixes = 1
    Retention = 1
    MaxTime = 1
INVARIANTS
    TypeOK
    Labelled
    AtHome
    Conserved
PROPERTIES
    DestroyedOnRequest
    PurgeHonoursRetention
SYMMETRY SymmetricWorkers
CHECK_DEADLOCK FALSE
