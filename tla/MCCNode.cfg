\* Two Connects, two senders, one Close.
CONSTANTS
    a = a
    b = b
    None = None
    Connects = {1, 2}
    Senders = {"s1", "s2"}
    Nodes <- MCNodes
    Cookie = "right"
    CookieOf <- MCCookieOf
    MaxSends = 1
    MaxCloses = 1
SPECIFICATION CNodeFairSpec
\* When all calls have returned nothing is left to do.
CHECK_DEADLOCK FALSE
INVARIANTS
    SpeaksProtocol
    OpenIsKnown
PROPERTY ConnectReturns
