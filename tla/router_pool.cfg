SPECIFICATION Spec
CONSTANTS
    a = a  b = b  n1 = n1  n2 = n2  n3 = n3  r1 = r1  r2 = r2  r3 = r3
    Classes = {a}
    Nodes = {n1, n2, n3}
    Requests = {r1, r2}
    ServiceOf <- AllOfA
    TrustedServers <- AllNodes
    TrustedClients <- Everybody
    Top = Top  NoNode = NoNode  NoMsg = NoMsg
    MaxOddities = 0
SYMMETRY InterchangeableAll
INVARIANTS TypeOK RoundRobin OneOutcome
PROPERTIES BounceRemovesOnlyDead
CHECK_DEADLOCK FALSE
