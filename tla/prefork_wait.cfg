SPECIFICATION FairSpec
CONSTANTS
    m1 = m1  m2 = m2  m3 = m3  m4 = m4
    Pids <- ThreePids
    Msgs = {m1, m2}
    Errors = {}
    Empties = {}
    MinChildren = 1
    MaxChildren = 1
    MaxRequests = 1
    NoMsg = NoMsg
    MaxCrashes = 0
    MaxHups = 0
    MaxForkFails = 0
    Signals = {}
PROPERTIES DispatchedAlways
CHECK_DEADLOCK FALSE
