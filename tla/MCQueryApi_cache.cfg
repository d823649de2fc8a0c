\* Two concurrent requests while two windows are being flushed; every partition has a progress row.
CONSTANTS
    WINDOW_SIZE = 2
    ALLOWED_LATENESS = 1
    HASH_BITS = 16
    PRECISION = 12
    Hash <- UserHash
    HllPartitions = {}
    DP_ENABLED = FALSE
    MAX_NOISE = 0
    K = 2
    p1 = p1
    p2 = p2
    None = None
    Segments <- PlainNames
    Clients = {c1, c2}
    Partitions = {p1, p2}
    Known = {p1, p2}
    Windows = {0, 2}
    Edits <- FewEdits
    Queries <- WindowQueries
SPECIFICATION Spec
SYMMETRY ClientSymmetry
INVARIANTS CacheFresh LatestIsNewestComplete
