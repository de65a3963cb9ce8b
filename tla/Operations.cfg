\* Two cycles over two notes: the budget of calls and revalidation; upkeep by rank with
\* one goal, from a claim alone or beside a capsule, in both modes.
SPECIFICATION OperationsSpec
CONSTANTS
    GOALS = 1
    Priorities = {1}
    HORIZON = 1
    Concerns = {}
    TTL = 1
    n1 = n1
    n2 = n2
    Notes = {n1, n2}
    Claims = {n2}
    Focused = {n1}
    Protected = {}
    CONNECTED = 3
    SEEDS = 1
    DRAIN = 1
    Modes = {"queue", "inline"}
    MaxUpkeepTrouble = 1
    NOTES = 2
    CALLS = 2
    HOUR = 2
    VALID = 2
    PAUSE = 2
    PER_CYCLE = 1
    BEFORE = 1
    AFTER = 0
    MaxManual = 1
    MaxCurationTrouble = 1
INVARIANTS
    CurationThrifty
    PromotionEarned
PROPERTIES
    EveryNoteRevalidated
    EveryNoteMaintained
CHECK_DEADLOCK FALSE
