SPECIFICATION FairSpec
CONSTANTS
    c1 = c1
    c2 = c2
    c3 = c3
    w1 = w1
    w2 = w2
    Client = {c1}
    Worker = {w1, w2}
    MaxClients = 0
    Simultaneous = 0
    MaxPackets = 2
    Ip <- MCIp
INVARIANTS
    OneProcessJob
    JobsCounted
    NoStrandedInput
    DisconnectOnItsWay
    ProcessIsolated
    ListedAreAlive
PROPERTIES
    ImplementsSession
    DrainEnds
\* Every client may be gone and no further socket accepted.
CHECK_DEADLOCK FALSE
