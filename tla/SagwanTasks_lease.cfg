\* Retries, a crash and two workers whose handlers may outlive their leases, on a
\* note and on the log it shares.
SPECIFICATION Spec
CONSTANTS
    w1 = w1
    w2 = w2
    Workers = {w1, w2}
    LoopWorkers = {}
    MaxPath = 2
    Freshness = {1}
    Seeds <- LockSeeds
    Disableable = {}
    MAX_CHAIN_DEPTH = 1
    MAX_CHILDREN_PER_TASK = 1
    MAX_TASKS_PER_CYCLE = 1
    RECENTLY_TOUCHED_COOLDOWN = 0
    LEASE_DURATION = 1
    DEFAULT_MAX_RETRIES = 1
    RETRY_BACKOFF_BASE = 1
    QUEUE_PENDING_LIMIT = 1
    DONE_PRUNE_AFTER = 0
    MaxTasks = 2
    MaxCrashes = 1
SYMMETRY WorkerSymmetry
INVARIANTS
    TypeOK
    UniqueOpenTask
    ExclusiveExecution
    AttemptsBounded
    WriteSetExclusion
    NoLockDeadlock
    LineageBounded
PROPERTIES
    LifecycleKept
