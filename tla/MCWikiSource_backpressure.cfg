\* The gateway answers 503.
CONSTANTS
    MAX_FUTURE_SKEW = 2
    Blank = ""
    Nothing = Nothing
    Unparseable = Unparseable
    MIN_TIMESTAMP <- FirstSecond
    MAX_TIMESTAMP = 100
    BATCH_MAX_EVENTS = 2
    BACKOFF_INITIAL = 1
    BACKOFF_MAX = 3
    Messages <- Edits
    Faults = {"503"}
    MAX_DISCONNECTS = 0
    MAX_REFUSALS = 1
    MAX_STREAM = 3
SPECIFICATION Spec
INVARIANTS NoEditMissed
CHECK_DEADLOCK FALSE
