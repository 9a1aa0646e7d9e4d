SPECIFICATION FairSpec
CONSTANTS
    MaxRequests = 2
    NumAlerts = 2
    MaxFaults = 2
INVARIANTS
    TypeOK
    AnswerIsHonest
    DuplicateBound
    QuietMeansClosed
PROPERTIES
    Delivered
