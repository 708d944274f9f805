CONSTANTS
    s1 = s1
    Hard = {}
    Soft = {s1}
    IntTimer = s1
    Times <- MCTimes
    TickMax = 7
    MaxLate = 1
    QueueSize = 2
    MaxPlugs = 2
SPECIFICATION FairPollSpec
INVARIANT PollAlive
PROPERTIES
    Polled
    
CHECK_DEADLOCK FALSE
