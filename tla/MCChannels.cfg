SPECIFICATION ChannelsSpec
CONSTANTS
    a = a
    b = b
    chan = chan
    sub1 = sub1
    sub2 = sub2
    Clients <- MCClients
    Chans <- MCChans
    Subs <- MCSubs
    Limits <- MCLimits
    MaxVal = 2
    MaxServers = 2
CHECK_DEADLOCK FALSE
INVARIANTS
    OneAnswer
    AskersInOrder
    LimitHolds
    SameEvents
PROPERTIES
    ChannelRefinesFifo
    NobodyStarves
