\* Two requests for a breakdown in which two children tie.
CONSTANTS
    WINDOW_SIZE = 2
    ALLOWED_LATENESS = 1
    HASH_BITS = 16
    PRECISION = 12
    Hash <- UserHash
    HllPartitions = {}
    DP_ENABLED = FALSE
    MAX_NOISE = 0
    K = 2
    p1 = p1
    p2 = p2
    None = None
    Segments <- PlainNames
    Clients = {c1, c2}
    Partitions = {p1}
    Known = {p1}
    Windows = {0}
    Edits <- TiedEdits
    Queries <- WikiQuery
SPECIFICATION Spec
INVARIANTS RepeatsHideSmallGroups
