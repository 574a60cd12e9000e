SPECIFICATION FairSpec
CONSTANTS
    a = a  b = b  n1 = n1  n2 = n2  n3 = n3  r1 = r1  r2 = r2  r3 = r3
    Classes = {a}
    Nodes = {n1}
    Requests = {r1}
    ServiceOf <- AllOfA
    TrustedServers <- AllNodes
    TrustedClients <- Everybody
    Top = Top  NoNode = NoNode  NoMsg = NoMsg
    MaxOddities = 1
CHECK_DEADLOCK FALSE
\* One of these at a time: each of them is violated.
INVARIANT SurvivesQueries
\* PROPERTY StopEndsLoop
