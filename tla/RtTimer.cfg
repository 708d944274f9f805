CONSTANTS
    h1 = h1
    s1 = s1
    s2 = s2
    Hard = {h1}
    Soft = {s1, s2}
    Times <- MCTimes
    TickMax = 7
    MaxLate = 1
SPECIFICATION Spec
INVARIANTS
    TypeOK
    ListExact
    Ordered
    NotOverslept
