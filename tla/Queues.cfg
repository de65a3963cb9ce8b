\* The loop and an admin's request share the subordinate's queue; kinds are switched,
\* tasks delayed and deduplicated, dates garbled, the process crashes.  One worker of the
\* other queue spawns follow-ups of follow-ups at its limit, with retries and leases that
\* are overrun.
SPECIFICATION QueuesSpec
CONSTANTS
    Loop = loop
    Requests = {request}
    Curators = {}
    Kinds = {"sync_to_core_api", "crawl_url"}
    ScanKinds = {}
    DedupKinds = {"crawl_url"}
    Offers <- MixedOffers
    SettingsDocs <- CrawlSwitched
    QUEUE_PENDING_LIMIT = 2
    MAX_TASKS_PER_RUN = 1
    MaxDelay = 0
    MaxLate = 0
    MaxWakes = 1
    MaxTasks = 3
    MaxCrashes = 1
    SagwanWorkers = {worker}
    MaxPath = 3
    MAX_CHAIN_DEPTH = 2
    SAGWAN_PENDING_LIMIT = 1
    MaxSagwanTasks = 4
    MaxSagwanCrashes = 0
INVARIANTS
    ExclusiveExecution
    NoLostWake
    FollowUpsBounded
