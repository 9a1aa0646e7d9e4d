SPECIFICATION Spec
CONSTANTS
    MigrationCount = 2
    KeyPairs = {k1, k2}
    NoKey = NoKey
    MaxCrashes = 2
    Users = {u1, u2}
    Browsers = {b1, b2}
    Endpoints = {e1, e2}
    None = None
    Pagers = {p1}
    Testers = {t1}
SYMMETRY Symmetry
INVARIANTS
    TypeOK
    SubscriptionsUsable
    CleanupSparesLive
    EveryDeviceTried
    HonestReport
PROPERTIES
    ImplementsRegistry
