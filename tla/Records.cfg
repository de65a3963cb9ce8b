\* Two users beside the admin and a note, one account a day, one renaming; a capsule and three
\* claims that may review it and each other; three messages in a session; two rounds of each
\* loop; two paths, two searchers and one change; three notes of five shapes, two with votes.
\* The instances of the public memory and of the evidence are given in MCRecords.
SPECIFICATION RecordsSpec
CONSTANTS
    Users = {"admin", "u", "v"}
    Admin = "admin"
    Names = {"boss", "x", "y"}
    AdminName = "boss"
    Reserved = {}
    NOTES = 1
    DAILY = 1
    Requests = {1, 2}
    MaxRenames = 1
    MaxTrouble = 1
    Capsules = {"k"}
    Claims = {"p", "q", "r"}
    Writers = {"o", "w"}
    Owner <- Owners
    Stances = {"support"}
    Lifecycles = {"active", "consolidated"}
    DEPTH = 3
    MaxBypass = 1
    Turns = {1, 2, 3}
    Caller <- Callers
    Engines = {"responses", "completions", "cli", "ollama"}
    ROUNDS <- Rounds
    MaxBatch = 2
    Paths = {1, 2}
    Searchers = {"s", "t"}
    Editors = {"w"}
    MaxChanges = 1
    MaxSearches = 2
    Documents = {1, 2, 3}
    FileNames = {"p", "q", "r"}
    Viewers = {"v", "w", "admin"}
    Forms <- Shapes
    RRF_K = 2
    MaxVotes = 1
INVARIANTS
    AccountsInOrder
    ReviewsSound
    ConversationsWhole
    NotesFound
    AnswersSound
CHECK_DEADLOCK FALSE
