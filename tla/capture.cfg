SPECIFICATION Spec
CONSTANTS
    None = None
    WatchedTrigger = FALSE
    Threshold = 85
    Facts <- TheFacts
    HookOf <- TheHooks
    RecordsOf <- TheRecords
    AtOf <- TheDays
    Delays <- TheDelays
    Refs <- TheRefs
    TitleOf <- TheTitles
INVARIANTS
    TypeOK
    OneEventPerFact
    RecoveredOrSibling
    FactsStayApart
    EventsPointHome
    TmdbUnique
    RowsArePure
