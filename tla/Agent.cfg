\* Two cycles edit two of the agent's notes and sweep; two run the periodic stages; two
\* threads remember and distil; two administrators save the settings.
SPECIFICATION AgentSpec
CONSTANTS
    playbook = playbook
    policy = policy
    Paths = {playbook, policy}
    Policy = policy
    Class <- Classes
    CLASS_LIMIT <- ClassLimits
    DAY = 2
    INTERVAL = 1
    NO_CHANGE = 2
    MaxEdits = 2
    MaxTrouble = 1
    Kinds = {"concern", "request"}
    CAP <- Caps
    Targets = {"t"}
    PER_SWEEP = 1
    WEEK = 3
    MONTH = 4
    MaxManual = 1
    ORDER <- Order
    Requests = {"r", "blocked"}
    BlockedNotes = "blocked"
    PERIOD = 2
    MaxHours = 2
    MaxDecisions = 1
    Threads = {"t", "u"}
    SIZE = 3
    FLOOR = 2
    WINDOW = 2
    AFTER_TASK = 3
    IN_CYCLE = 2
    PAUSE = 1
    MaxEpisodes = 3
    MaxTime = 3
    Admins = {"a", "b"}
    LOW = 1
    HIGH = 2
    Numbers = {0, 1, 2, 3}
    DEFAULT = 2
    Tools = {"exec", "read", "search"}
    Exec = "exec"
    MaxChanges = 3
INVARIANTS
    EditsSurvive
    LookedUpInTime
    WritingsKept
CHECK_DEADLOCK FALSE
