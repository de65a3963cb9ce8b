\* Two requests, one of which no review lets pass, and cycles that review one.
SPECIFICATION FairSpec
CONSTANTS
    CLAIMS = 0
    CAPSULES = 2
    Callers = {"a"}
    Unfit = {2}
    LIMIT = 1
    HOURLY = 3
    MANY = 2
    MaxEdits = 2
    MaxRequests = 2
PROPERTIES
    DeferredRequestsReviewed
CHECK_DEADLOCK FALSE
