\* The archive with a retry of every kind of write and a reader; two collectors on two
\* keys of one source; two senders of one note; a note that is edited, published, resynced
\* and retried while a background thread and the task send it.
SPECIFICATION ServicesSpec
CONSTANTS
    MethodKeys = {"k", "l", "m", "n"}
    Texts = {"t"}
    Readers = {"r"}
    PAGE = 1
    GRAPH_PAGE = 1
    MaxMethods = 1
    MaxVersion = 3
    MaxOutcomes = 2
    Collectors = {"c1", "c2"}
    Keys = {"k", "l"}
    Scopes = {"wikidata"}
    Items = {1, 2}
    Contents = {"a", "b"}
    MaxInvestigations = 2
    Senders = {"s1", "s2"}
    POINTS = 2
    MaxVersions = 2
    MaxRecords = 2
    NOTES = 1
    Threads = {"thread"}
    Rejected = {}
    LIMIT = 1
    THRESHOLD = 1
    BACKOFF = 1
    MaxEdits = 1
    MaxAdmin = 1
    MaxCrashes = 1
INVARIANTS
    ArchiveConsistent
    HistoryTraceable
    CitedClaimsHold
PROPERTIES
    RecordsKept
CHECK_DEADLOCK FALSE
