\* The stream breaks while a batch is being filled.
CONSTANTS
    MAX_FUTURE_SKEW = 2
    Blank = ""
    Nothing = Nothing
    Unparseable = Unparseable
    MIN_TIMESTAMP <- FirstSecond
    MAX_TIMESTAMP = 100
    BATCH_MAX_EVENTS = 2
    BACKOFF_INITIAL = 1
    BACKOFF_MAX = 3
    Messages <- Edits
    Faults = {"error"}
    MAX_DISCONNECTS = 1
    MAX_REFUSALS = 0
    MAX_STREAM = 3
SPECIFICATION Spec
INVARIANTS NoEditMissed
CHECK_DEADLOCK FALSE
