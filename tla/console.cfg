SPECIFICATION Spec
CONSTANTS
    Users = {u1, u2}
    Source = Source
    Tokens = {t1}
    Browsers = {b1}
    Incidents = {i1}
    Workers = {w1, w2}
    None = None
    MaxFaults = 1
SYMMETRY Symmetry
CHECK_DEADLOCK FALSE
INVARIANTS
    TypeOK
    SetupBound
    ServedWhileEntitled
    EventsFollowUpdates
PROPERTIES
    TimelineExplainsRow
    FirstResponderStays
