\* The level 0 answer against the threshold.
CONSTANTS
    WINDOW_SIZE = 2
    ALLOWED_LATENESS = 1
    HASH_BITS = 16
    PRECISION = 12
    Hash <- UserHash
    HllPartitions = {}
    DP_ENABLED = FALSE
    MAX_NOISE = 0
    K = 3
    p1 = p1
    p2 = p2
    None = None
    Segments <- PlainNames
    Clients = {c1}
    Partitions = {p1, p2}
    Known = {p1, p2}
    Windows = {0}
    Edits <- FewEdits
    Queries <- GlobalQuery
SPECIFICATION Spec
INVARIANTS KThreshold
