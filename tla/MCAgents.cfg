SPECIFICATION AgentsFairSpec
CONSTANTS
    c1 = c1
    c2 = c2
    Clients <- MCClients
    MaxStarts = 2
    MaxOps = 3
    Intensity = 1
    TopIntensity = 1
    OnClose = TRUE
CHECK_DEADLOCK FALSE
INVARIANTS
    ReadYourCasts
    GracefulStop
    SupervisionSound
PROPERTIES
    CallsEnd
    CrashedComesBack
