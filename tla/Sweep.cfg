SPECIFICATION SweepSpec
CONSTANTS
    d1 = d1  d2 = d2  signed = signed  unsigned = unsigned
    Things <- TwoThings
    Sources <- AllSources
    Details = {d1}
    Trusts = {signed, unsigned}
    Absent = Absent
    Unseen = Unseen
    Unrecorded = Unrecorded
    Sweepers = {s1}
    FlapsBeforeRecurring = 2
INVARIANTS
    ChangesSurface
PROPERTIES
    BlindnessProvesNothing
    NoFalseAlarm
