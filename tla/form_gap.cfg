SPECIFICATION Spec
CONSTANTS
    s1 = s1
    Actors = {a1, a2}
    Users = {u1, u2}
    FirstUser = u1
    Rota = {u2}
    Schedules = {s1}
    NoTarget = NoTarget
    Unread = Unread
    Removed = Removed
    Gone = Gone
    NewWait = 5
    Entries <- MCEntries
    MaxRows = 2
    MaxSaves = 1
    MaxFaults = 0
CHECK_DEADLOCK FALSE
PROPERTIES
    SavedAsShown
