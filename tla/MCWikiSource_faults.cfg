\* Every kind of disconnect and refusal, over edits, skipped and refused messages.
CONSTANTS
    MAX_FUTURE_SKEW = 2
    Blank = ""
    Nothing = Nothing
    Unparseable = Unparseable
    MIN_TIMESTAMP <- FirstSecond
    MAX_TIMESTAMP = 100
    BATCH_MAX_EVENTS = 2
    BACKOFF_INITIAL = 1
    BACKOFF_MAX = 3
    Messages <- AllKinds
    Faults = {"end", "error", "connect", "503", "network"}
    MAX_DISCONNECTS = 2
    MAX_REFUSALS = 1
    MAX_STREAM = 4
SPECIFICATION FairSpec
INVARIANTS AtMostOnceInOrder LossBounded
PROPERTY EditsPosted
CHECK_DEADLOCK FALSE
