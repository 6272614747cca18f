SPECIFICATION FairSpec
CONSTANTS
    p1 = p1
    p2 = p2
    p3 = p3
    k1 = k1
    k2 = k2
    u = u
    c1 = c1
    c2 = c2
    Posts = {p1, p2, p3}
    Keys = {k1, k2, u}
    Channels = {c1, c2}
    EventsOf <- Bodies
    BlindEvents <- Blind
    RoutesOf <- Routes
    Invalid = {}
    Poison = {p3}
    Missed = {k1}
    MaxAttempts = 2
    BatchLimit = 2
    BackoffBase = 1
    BackoffCap = 1
    Retention = 0
    MaxFaults = 1
INVARIANTS
    TypeOK
    NothingAcceptedIsLost
    DoneMeansFannedOut
    OnlyExpiredReadBlind
    FailuresArePaid
PROPERTIES
    KeepsAccount
    EveryPostSettles
    AcceptedFansOut
