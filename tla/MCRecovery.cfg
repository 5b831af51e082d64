SPECIFICATION Spec
CONSTANTS
    n1 = n1
    n2 = n2
    n3 = n3
    w1 = w1
    w2 = w2
    w3 = w3
    Nodes = {n1, n2}
    Workers <- FirstRunsTwo
    CommitteeSize = 1
    Committees <- NoCommittee
    RandomNumbers = {1}
    Slots = 1
    Endless = {n1}
    MaxPending = 1
    MaxRequests = 1
    MaxQueue = 1
    MaxTicks <- Once
    MaxFaults = 1
    CacheSlots = {2}
PROPERTY StoresCatchUp
ACTION_CONSTRAINT OnlyFirstListens
CHECK_DEADLOCK FALSE
