SPECIFICATION Spec
CONSTANTS
    d1 = d1  d2 = d2
    a = a  b = b
    NoDrone = NoDrone
    Router = Router
    Drones <- OneDrone
    Names <- OneName
    Batches <- Single
    MaxSessions = 1
    IdleTimeout = 1
    MaxWait = 2
    MaxClients = 2
    MaxSent = 3
    MaxSeveredSent = 3
    MaxCalmSent = 0
    MaxQuiet = 0
    MaxSignals = 0
    Outside <- CalmOrSevered
\* One of these at a time: each of them is violated.
PROPERTY AnswersReachTheirCaller
\* PROPERTY SerializedAfterSetup
\* PROPERTY KilledWhenSevered
\* INVARIANT CacheCleared
