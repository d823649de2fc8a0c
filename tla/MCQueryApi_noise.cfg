\* Two requests for the same noised answer.
CONSTANTS
    WINDOW_SIZE = 2
    ALLOWED_LATENESS = 1
    HASH_BITS = 16
    PRECISION = 12
    Hash <- UserHash
    HllPartitions = {}
    DP_ENABLED = TRUE
    MAX_NOISE = 1
    K = 2
    p1 = p1
    p2 = p2
    None = None
    Segments <- PlainNames
    Clients = {c1, c2}
    Partitions = {p1, p2}
    Known = {p1, p2}
    Windows = {0}
    Edits <- SplitEdits
    Queries <- GlobalQuery
SPECIFICATION Spec
INVARIANTS RepeatsAgree
