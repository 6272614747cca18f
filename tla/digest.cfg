SPECIFICATION Spec
CONSTANTS
    i1 = i1
    Items = {i1}
    Period = 3
    MinPeriod = 2
    MaxTime = 6
    MaxFaults = 1
INVARIANTS
    TypeOK
    NoInstantSkipped
    DigestsOverlapOnlyAfterCrash
    SilencedStaysSilent
    MissingOnlyIfLate
