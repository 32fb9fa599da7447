SPECIFICATION SpacedSpec
CONSTANTS
    Workers = {w1, w2}
    here = here
    there = there
    near = near
    far = far
    Paths = {here, there, near, far}
    Contents = {a, b}
    Nothing = Nothing
    NoPath = NoPath
    Pairs <- Apart
    Deletable = {there}
    Suffixes = 1
    MaxTime = 1
SYMMETRY Symmetric
CHECK_DEADLOCK FALSE
INVARIANTS
    Trail
    MovesAreSafe
