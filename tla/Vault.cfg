\* Two callers, an admin and the stages on a capsule; two voters, one of
\* them the note's owner; two runs of the stages that make capsules and lessons;
\* two queries that find nothing.
SPECIFICATION VaultSpec
CONSTANTS
    CLAIMS = 0
    CAPSULES = 1
    Callers = {"a", "b"}
    Unfit = {}
    LIMIT = 1
    HOURLY = 1
    MANY = 2
    MaxEdits = 3
    MaxRequests = 3
    Voters = {"a", "owner"}
    MIN = 1
    MaxReviews = 1
    MaxCalls = 3
    SEEDS = 1
    Titles = {"x", "y", "w"}
    Runs = {stage, admin}
    MaxTrouble = 1
    MaxEvents = 1
    INTERVAL = 1
    MaxEntries = 1
    MaxTicks = 2
    QUERIES = 2
    RESOLVES = 1
    MaxSearches = 2
    MaxCrashes = 1
SYMMETRY RunSymmetry
ACTION_CONSTRAINT ClockOrLessons
INVARIANTS
    AuthorRemembered
    RequestRateBounded
    VotesHonest
    DuplicatesOnlyByRace
    AnchorEarned
    CountedOnce
CHECK_DEADLOCK FALSE
