SPECIFICATION SerialSpec
CONSTANTS
    Workers = {w1}
    shared = shared
    own = own
    folder = folder
    away = away
    distant = distant
    Paths = {shared, away}
    Barred = {away}
    Contents = {a, b, distant, link}
    Directories = {b}
    Links = {link}
    Home <- MCHome
    Nothing = Nothing
    NoPath = NoPath
    Suffixes = 2
    Retention = 0
    MaxTime = 0
INVARIANTS
    NeverOverwritten
PROPERTIES
    ImplementsVault
CHECK_DEADLOCK FALSE
