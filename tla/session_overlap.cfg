SPECIFICATION SessionSpec
CONSTANTS
    d1 = d1
    d2 = d2
    Drones <- TwoDrones
    Router = Router
    HashSize = 1
    Answers <- Simple
    MaxReqs = 2
    MaxConnects = 1
    Faults <- Overlapping
    MaxCalls = 3
    MaxMade = 2
    MaxBundle = 2
    Chunks = 2
    Conducts <- SomeConducts
    Waits = {0, 1, 3}
    MaxContinues = 2
    MaxLate = 2
    OneEnd = {"client"}
CHECK_DEADLOCK FALSE
\* One of these at a time: each of them is violated.
INVARIANT RemoteIsPeer
\* PROPERTY OthersStay
