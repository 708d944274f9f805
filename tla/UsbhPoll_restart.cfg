CONSTANTS
    s1 = s1
    Hard = {}
    Soft = {s1}
    IntTimer = s1
    Times <- MCTimes
    TickMax = 7
    MaxLate = 1
    QueueSize = 2
    MaxPlugs = 1
SPECIFICATION FairPollSpec
PROPERTY RestartPolls
CHECK_DEADLOCK FALSE
