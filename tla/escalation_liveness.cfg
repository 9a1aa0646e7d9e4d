SPECIFICATION FairSpec
CONSTANTS
    Incidents = {i1, i2}
    Services = {s1}
    Policies = {q1}
    PolicyOf <- MCPolicyOf
    Fingerprints = {f1}
    NoFingerprint = NoFingerprint
    None = None
    MaxSteps = 2
    MaxRepeat = 1
    Workers = {w1}
    Engine = Engine
    MaxFaults = 0
    MayEdit = FALSE
INVARIANTS
    PolicyRunsInFull
PROPERTIES
    EveryPageSettles
    ImplementsLease
