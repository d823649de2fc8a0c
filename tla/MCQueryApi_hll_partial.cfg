\* One partition's aggregator runs with HLL_ENABLED, the other one's without.
CONSTANTS
    WINDOW_SIZE = 2
    ALLOWED_LATENESS = 1
    HASH_BITS = 16
    PRECISION = 12
    Hash <- UserHash
    HllPartitions = {p1}
    DP_ENABLED = FALSE
    MAX_NOISE = 0
    K = 2
    p1 = p1
    p2 = p2
    None = None
    Segments <- PlainNames
    Clients = {c1}
    Partitions = {p1, p2}
    Known = {p1, p2}
    Windows = {0}
    Edits <- SplitEdits
    Queries <- WikiEstimate
SPECIFICATION Spec
INVARIANTS SuppressionIsExact
