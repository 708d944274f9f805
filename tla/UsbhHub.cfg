CONSTANTS
    StableSteps = 2
    TimeoutSteps = 5
    QueueSize = 2
    MaxPlugs = 4
SPECIFICATION FairSpec
CHECK_DEADLOCK FALSE
INVARIANTS
    TypeOK
    ChangePending
    DecisionStable
PROPERTIES
    Settles
