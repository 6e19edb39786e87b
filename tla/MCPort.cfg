SPECIFICATION PortFairSpec
CONSTANTS
    MaxSeq = 2
    InCap = 2
    OutCap = 1
    p1 = p1
    p2 = p2
    Stoppers <- MCStoppers
    ReplyTags <- MCReplyTags
CHECK_DEADLOCK FALSE
INVARIANTS
    ChannelRoom
    WaiterIsReachable
    NoLeakedEntry
    OwnAnswer
    FramesIntact
    StopIsFinal
PROPERTIES
    ImplementsRpc
    CallReturns
 
