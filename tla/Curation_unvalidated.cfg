\* One note, whose revalidation call may fail.
SPECIFICATION Spec
CONSTANTS
    NOTES = 1
    CAP = 2
    HOUR = 2
    DAY = 3
    INTERVAL = 2
    PER_CYCLE = 1
    BEFORE = 1
    AFTER = 1
    MaxManual = 1
    MaxTrouble = 1
INVARIANTS
    FailedCallValidatesNothing
CHECK_DEADLOCK FALSE
