SPECIFICATION FairSpec
CONSTANTS
    d1 = d1  d2 = d2
    a = a  b = b
    NoDrone = NoDrone
    Router = Router
    Drones <- OneDrone
    Names <- OneName
    Batches <- RequestsOnly
    MaxSessions = 1
    IdleTimeout = 1
    MaxWait = 2
    MaxClients = 1
    MaxSent = 1
    MaxSeveredSent = 1
    MaxCalmSent = 0
    MaxQuiet = 0
    MaxSignals = 1
    Outside <- Signalled
PROPERTY ResponsesRelayed
