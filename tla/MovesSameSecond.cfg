SPECIFICATION SerialSpec
CONSTANTS
    Workers = {w1}
    here = here
    there = there
    near = near
    far = far
    Paths = {here, there, near, far}
    Contents = {a, b}
    Nothing = Nothing
    NoPath = NoPath
    Pairs <- Apart
    Deletable = {}
    Suffixes = 2
    MaxTime = 1
INVARIANT Trail
SYMMETRY Symmetric
CHECK_DEADLOCK FALSE
