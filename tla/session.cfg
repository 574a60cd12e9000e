SPECIFICATION SessionSpec
CONSTANTS
    d1 = d1
    d2 = d2
    Drones <- TwoDrones
    Router = Router
    HashSize = 2
    Answers <- OrException
    MaxReqs = 2
    MaxConnects = 2
    Faults <- OneAtMost
    MaxCalls = 3
    MaxMade = 2
    MaxBundle = 2
    Chunks = 2
    Conducts <- SomeConducts
    Waits = {0, 1, 3}
    MaxContinues = 2
    MaxLate = 2
    OneEnd <- AnyEnd
SYMMETRY Alike
CHECK_DEADLOCK FALSE
INVARIANTS ResultsAsMadeTyped Peer NoneForgottenUnexpired RunOnce Orderly EveryRequestEnds Awaited
