SPECIFICATION WatcherSpec
CONSTANTS
    Entries = {task, service}
    Shady = {task, service}
    Hidable = {service}
    Keep = 1
    Interval = 3
    CheckEvery = 2
INVARIANTS
    OnlyWhatArrived
PROPERTIES
    NoneMissed
    WatcherObeys
