\* A curation thread feeds a signal scan to the loop, and a crash may orphan the
\* scan that runs.
SPECIFICATION FairSpec
CONSTANTS
    Loop = loop
    Requests = {}
    Curators = {curator}
    Kinds = {"analyze_search_gaps"}
    ScanKinds = {"analyze_search_gaps"}
    DedupKinds = {}
    Offers <- NoOffers
    SettingsDocs <- AlwaysOn
    QUEUE_PENDING_LIMIT = 4
    MAX_TASKS_PER_RUN = 1
    MaxDelay = 0
    MaxLate = 0
    MaxWakes = 1
    MaxTasks = 4
    MaxCrashes = 1
PROPERTIES
    ScansRecur
