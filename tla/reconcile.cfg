SPECIFICATION Spec
CONSTANTS
    e1 = e1
    e2 = e2
    k1 = k1
    k2 = k2
    g = g
    Items = {e1, e2}
    Keys = {k1, k2, g}
    KeyOf <- RecordKeys
    HookKeyOf <- HookKeys
    Alike <- OneDownload
    Routed <- Everything
    Since <- Exact
    Cap = 2
    NewestFirst = TRUE
    MarksGaps = TRUE
    Lookback = 1
    MaxTime = 2
    MaxFaults = 1
INVARIANTS
    TypeOK
    TruthCovered
    RecoveredIsAnnounced
PROPERTIES
    QuietStaysQuiet
