SPECIFICATION FairSpec
CONSTANTS
    MigrationCount = 3
    KeyPairs = {k1, k2}
    NoKey = NoKey
    MaxCrashes = 4
    Users = {u1}
    Browsers = {}
    Endpoints = {e1}
    None = None
    Pagers = {}
    Testers = {}
PROPERTIES
    ImplementsDisk
    BootsAgain
CHECK_DEADLOCK FALSE
