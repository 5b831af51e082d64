SPECIFICATION Spec
CONSTANTS
    n1 = n1
    n2 = n2
    n3 = n3
    w1 = w1
    w2 = w2
    w3 = w3
    Nodes = {n1, n2, n3}
    Workers <- FirstRunsTwo
    CommitteeSize = 2
    Committees <- AfterBootstrap
    RandomNumbers = {1}
    Slots = 2
    Endless = {}
    MaxPending = 1
    MaxRequests = 1
    MaxQueue = 1
    MaxTicks <- FirstTwice
    MaxFaults = 0
    CacheSlots = {2}
INVARIANT StoreConsistent
INVARIANT SealedByWholeCommittee
ACTION_CONSTRAINT OnlyFirstListens
SYMMETRY WorkerSymmetry
CHECK_DEADLOCK FALSE
