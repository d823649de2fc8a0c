\* The gateway refuses a part of a batch.
CONSTANTS
    WINDOW_SIZE = 2
    ALLOWED_LATENESS = 1
    Undecodable = Undecodable
    u1 = u1
    u2 = u2
    p1 = p1
    p2 = p2
    Partitions = {p1, p2}
    Users = {u1, u2}
    PartitionOf <- Split
    Pages <- OnePage
    Instants = {0, 2}
    BATCHES = 2
    BATCH_SIZE = 2
    Refusals = TRUE
SPECIFICATION Spec
INVARIANTS SettledPasses
CHECK_DEADLOCK FALSE
