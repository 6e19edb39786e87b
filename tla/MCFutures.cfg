SPECIFICATION FuturesSpec
CONSTANTS
    r1 = r1
    r2 = r2
    r3 = r3
    Refs <- MCRefs
    MaxOps = 3
CHECK_DEADLOCK FALSE
INVARIANTS
    OnePlace
PROPERTIES
    ResultsInOrder
    FreshAwaitReturns
