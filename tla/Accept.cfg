SPECIFICATION Spec
CONSTANTS
    Slots = {s1, s2, s3}
    MaxConnections = 3
    None = None
CHECK_DEADLOCK FALSE
INVARIANTS
    PlacesAndInstances
    NameIsOurs
PROPERTIES
    ListensAgain
    StopIsHeeded
