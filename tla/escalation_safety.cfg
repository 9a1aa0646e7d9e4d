SPECIFICATION Spec
CONSTANTS
    Incidents = {i1, i2}
    Services = {s1}
    Policies = {q1}
    PolicyOf <- MCPolicyOf
    Fingerprints = {}
    NoFingerprint = NoFingerprint
    None = None
    MaxSteps = 2
    MaxRepeat = 1
    Workers = {w1}
    Engine = Engine
    MaxFaults = 1
    MayEdit = TRUE
SYMMETRY Symmetry
CHECK_DEADLOCK FALSE
INVARIANTS
    TypeOK
    FireExclusive
    EscalationOrder
    RepeatsTakeFaults
    LatePageBound
    SilenceIsBounded
PROPERTIES
    OnlyForward
