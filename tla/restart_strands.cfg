SPECIFICATION FairSpec
CONSTANTS
    Incidents = {i1}
    Services = {s1}
    Policies = {q1}
    PolicyOf <- MCPolicyOf
    Fingerprints = {}
    NoFingerprint = NoFingerprint
    None = None
    MaxSteps = 1
    MaxRepeat = 0
    Workers = {w1}
    Engine = Engine
    MaxFaults = 1
    MayEdit = FALSE
PROPERTIES
    EveryPageSettles
