\* Two claims; two published notes of which the Core API refuses the first; two queries
\* that find nothing.  The limits let one thing through at a time.
SPECIFICATION StagesSpec
CONSTANTS
    CLAIMS = 2
    CAPSULES = 0
    Callers = {"a"}
    Unfit = {}
    LIMIT = 1
    HOURLY = 1
    MANY = 3
    MaxEdits = 1
    MaxRequests = 1
    SyncNotes = 2
    SyncLimit = 1
    SyncEdits = 0
    Threads = {"thread"}
    Rejected = {1}
    THRESHOLD = 2
    BACKOFF = 2
    MaxAdmin = 0
    MaxCrashes = 0
    QUERIES = 2
    RESOLVES = 1
    MaxSearches = 2
    MaxTrouble = 1
PROPERTIES
    EventuallySynced
    EveryGapNoted
    ClaimsDecided
CHECK_DEADLOCK FALSE
