\* An event that the gateway refuses shares a batch with one that it would take.
CONSTANTS
    MAX_FUTURE_SKEW = 2
    Blank = ""
    Nothing = Nothing
    Unparseable = Unparseable
    MIN_TIMESTAMP <- FirstSecond
    MAX_TIMESTAMP = 100
    BATCH_MAX_EVENTS = 2
    BACKOFF_INITIAL = 1
    BACKOFF_MAX = 3
    Messages <- Refused
    Faults = {}
    MAX_DISCONNECTS = 0
    MAX_REFUSALS = 0
    MAX_STREAM = 3
SPECIFICATION Spec
INVARIANTS NoEditMissed
CHECK_DEADLOCK FALSE
