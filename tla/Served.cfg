\* Two curation threads feed two signal scans to the loop and to requests; a loop whose
\* cycles run one task, woken by enqueues, with delays, settings and a crash; two workers of
\* the agent's queue with retries, overrun leases and crashes.
SPECIFICATION ServedSpec
CONSTANTS
    Loop = loop
    Requests = {request}
    Curators = {curator1, curator2}
    Kinds = {"analyze_search_gaps", "analyze_search_quality_signals"}
    ScanKinds = {"analyze_search_gaps", "analyze_search_quality_signals"}
    DedupKinds = {}
    Offers <- NoOffers
    SettingsDocs <- AlwaysOn
    QUEUE_PENDING_LIMIT = 3
    MAX_TASKS_PER_RUN = 1
    MaxDelay = 0
    MaxLate = 0
    MaxWakes = 1
    MaxTasks = 5
    MaxCrashes = 0
    ServedKinds = {"sync_to_core_api", "crawl_url"}
    ServedLimit = 2
    ServedTasks = 2
    ServedCrashes = 1
    w1 = w1
    w2 = w2
INVARIANTS
    ScanCopiesBounded
PROPERTIES
    EveryScanRecurs
    EveryTaskServed
    BacklogDrains
