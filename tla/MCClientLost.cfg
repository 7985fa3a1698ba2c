SPECIFICATION Spec
CONSTANTS
    c1 = c1
    c2 = c2
    c3 = c3
    w1 = w1
    w2 = w2
    Client = {c1, c2, c3}
    Worker = {w1}
    MaxClients = 0
    Simultaneous = 0
    MaxPackets = 0
    Ip <- MCIp
SYMMETRY Symmetry
INVARIANTS
    EveryClientListed
\* Every client may be gone and no further socket accepted.
CHECK_DEADLOCK FALSE
