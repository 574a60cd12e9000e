SPECIFICATION FairSpec
CONSTANTS
    a = a  b = b  n1 = n1  n2 = n2  n3 = n3  r1 = r1  r2 = r2  r3 = r3
    Classes = {a, b}
    Nodes = {n1, n2}
    Requests = {r1, r2}
    ServiceOf <- OneEach
    TrustedServers <- AllNodes
    TrustedClients <- AllButOne
    Top = Top  NoNode = NoNode  NoMsg = NoMsg
    MaxOddities = 0
PROPERTIES DeadNodeRemoved ClassesServed
CHECK_DEADLOCK FALSE
