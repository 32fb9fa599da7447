SPECIFICATION Spec
CONSTANTS
    Conns = {c1, c2}
    None = None
    Rechecks = {c1}
    MaxReports = 2
    Room = 1
CHECK_DEADLOCK FALSE
INVARIANTS
    StopsTheRightJob
    LeavesInOrder
PROPERTIES
    JobsAreAnswered
