SPECIFICATION Spec
CONSTANTS
    CliId = test
    TickId = BatchChainTick
    P2PId = p2p_message
    TriggerId = triggered
    Workers = {w1, w2}
    Idle = Idle
    Ended = Ended
    Unwinds = TRUE
    Ready = Ready
    Halted = Halted
    Keys = {k1}
    Values = {v1}
    OldValues = {v0}
    None = None
    MaxCalls = 2
    MaxEvents = 1
    MaxMessages = 2
    MaxRestarts = 1
    Capacity = 1
INVARIANT TypeOK
INVARIANT ReadsFirstRow
INVARIANT AcknowledgedStored
INVARIANT TriggersReachApp
CHECK_DEADLOCK FALSE
PROPERTY EventsRunOnceInOrder
PROPERTY EveryEventRuns
PROPERTY ChannelsDrain
