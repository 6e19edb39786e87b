SPECIFICATION MailboxFairSpec
CONSTANTS
    MaxMsg = 4
    Cap = 2
    c1 = c1
    c2 = c2
    w1 = w1
    Closers <- MCClosers
    Pushers <- MCPushers
CHECK_DEADLOCK FALSE
INVARIANTS
    NoPanic
    NothingVanishes
PROPERTIES
    CloseReturns
    CloseEndsChannel
