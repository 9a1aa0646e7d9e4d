SPECIFICATION Spec
CONSTANTS
    u1 = u1
    u2 = u2
    u3 = u3
    Users = {u1, u2, u3}
    NoOne = NoOne
    None = None
    Second = 2
    Day = 4
    MaxDuration = 24
    CalendarDays = 2
    OverrideIds = {o1, o2}
    Rotations <- MCRotations
    MaxTime = 6
    MaxEdits = 2
SYMMETRY Symmetry
INVARIANTS
    TypeOK
    PagedWasOnCall
    CalendarTruthful
PROPERTIES
    HandoverOnTime
    TurnsInOrder
