SPECIFICATION SessionSpec
CONSTANTS
    d1 = d1
    d2 = d2
    Drones <- TwoDrones
    Router = Router
    HashSize = 2
    Answers <- Simple
    MaxReqs = 1
    MaxConnects = 2
    Faults <- Expiring
    MaxCalls = 3
    MaxMade = 2
    MaxBundle = 2
    Chunks = 2
    Conducts <- SomeConducts
    Waits = {0, 1, 3}
    MaxContinues = 2
    MaxLate = 2
    OneEnd = {"client", "wait"}
CHECK_DEADLOCK FALSE
\* One of these at a time: each of them is violated.
INVARIANT NoneForgotten
\* INVARIANT PeerHasSession
\* INVARIANT TimeIsUsed
\* INVARIANT OneReprieve
