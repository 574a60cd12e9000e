SPECIFICATION Spec
CONSTANTS
    d1 = d1  d2 = d2
    a = a  b = b
    NoDrone = NoDrone
    Router = Router
    Drones <- OneDrone
    Names <- OneName
    Batches <- RequestsOnly
    MaxSessions = 1
    IdleTimeout = 1
    MaxWait = 2
    MaxClients = 2
    MaxSent = 2
    MaxSeveredSent = 2
    MaxCalmSent = 0
    MaxQuiet = 2
    MaxSignals = 0
    Outside <- Quiet
PROPERTY ClosedOnlyIdle
