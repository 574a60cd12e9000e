SPECIFICATION Spec
CONSTANTS
    d1 = d1  d2 = d2
    a = a  b = b
    NoDrone = NoDrone
    Router = Router
    Drones <- TwoDrones
    Names <- OneName
    Batches <- Single
    MaxSessions = 1
    IdleTimeout = 1
    MaxWait = 2
    MaxClients = 2
    MaxSent = 2
    MaxSeveredSent = 2
    MaxCalmSent = 3
    MaxQuiet = 1
    MaxSignals = 1
    Outside <- CalmOrNot
SYMMETRY Alike
PROPERTIES RecipientFollowsSession TypedAndClosedOnlyIdle
