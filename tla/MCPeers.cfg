SPECIFICATION Spec
CONSTANTS
    a1 = a1
    a2 = a2
    p1 = p1
    p2 = p2
    Addrs = {a1, a2}
    Peers = {p1, p2, p3}
    Hosts <- OnePeerEach
    ManualAddrs = {a1, a2}
    out_peers = 2
    MaxOfType <- OneEach
    MaxFound = 1
    MaxRestarts = 1
    MaxDisturbances = 1
INVARIANT StatusMatchesSwarm
PROPERTY CooldownRespected
PROPERTY ManualPeersRetried
CONSTRAINT RestartOrDisturbance
CHECK_DEADLOCK FALSE
