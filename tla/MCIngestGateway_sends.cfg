\* More sends in flight than the channel holds.
CONSTANTS
    MAX_FUTURE_SKEW = 2
    Blank = ""
    p1 = p1
    p2 = p2
    Clients = {c1, c2}
    Partitions = {p1, p2}
    Batches <- GoodBatches
    Pseudonym <- HMAC
    PartitionOf <- Partitioner
    CHANNEL_CAPACITY = 2
    MAX_BATCH_EVENTS = 3
    MAX_TRIES = 2
    MAX_CRASHES = 0
SPECIFICATION Spec
SYMMETRY ClientSymmetry
INVARIANTS SendsBounded
CHECK_DEADLOCK FALSE
