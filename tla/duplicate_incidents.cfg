SPECIFICATION Spec
CONSTANTS
    MaxRequests = 2
    NumAlerts = 1
    MaxFaults = 0
INVARIANTS
    OneOpenPerFingerprint
