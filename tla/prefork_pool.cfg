SPECIFICATION Spec
CONSTANTS
    m1 = m1  m2 = m2  m3 = m3  m4 = m4
    Pids <- ThreePids
    Msgs = {m1, m2, m3, m4}
    Errors = {m4}
    Empties = {}
    MinChildren = 1
    MaxChildren = 2
    MaxRequests = 2
    NoMsg = NoMsg
    MaxCrashes = 1
    MaxHups = 1
    MaxForkFails = 1
    Signals = {"term", "int"}
SYMMETRY Alike
INVARIANTS PoolSound NoneLost
PROPERTIES GracefulKillsIdle
CHECK_DEADLOCK FALSE
