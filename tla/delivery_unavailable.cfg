SPECIFICATION Spec
CONSTANTS
    a1 = a1
    a2 = a2
    a3 = a3
    b1 = b1
    chanA = chanA
    chanB = chanB
    Rows = {a1, a2}
    Channels = {chanA}
    ChannelOf <- OneChannel
    Unrenderable = {}
    Outcomes = {"refused"}
    EnvOverride = FALSE
    MaxAttempts = 2
    BatchLimit = 2
    Budget = 1
    Window = 2
    DeferDelay = 2
    BackoffBase = 1
    BackoffCap = 1
    MaxLag = 1
    MaxFaults = 0
INVARIANTS
    UnavailableNeverDead
