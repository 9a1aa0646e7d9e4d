SPECIFICATION Spec
CONSTANTS
    MigrationCount = 2
    KeyPairs = {k1, k2}
    NoKey = NoKey
    MaxCrashes = 1
    Users = {u1}
    Browsers = {b1}
    Endpoints = {e1}
    None = None
    Pagers = {p1}
    Testers = {}
INVARIANTS
    ServesKeyPair
CHECK_DEADLOCK FALSE
