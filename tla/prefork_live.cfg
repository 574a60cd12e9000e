SPECIFICATION FairSpec
CONSTANTS
    m1 = m1  m2 = m2  m3 = m3  m4 = m4
    Pids <- ThreePids
    Msgs = {m1, m2, m3}
    Errors = {}
    Empties = {}
    MinChildren = 1
    MaxChildren = 2
    MaxRequests = 4
    NoMsg = NoMsg
    MaxCrashes = 0
    MaxHups = 0
    MaxForkFails = 0
    Signals = {"term"}
PROPERTIES Dispatched GracefulEnds
CHECK_DEADLOCK FALSE
