\* Three concurrent batches, every post accepted.
CONSTANTS
    WINDOW_SIZE = 2
    ALLOWED_LATENESS = 1
    Undecodable = Undecodable
    u1 = u1
    u2 = u2
    p1 = p1
    p2 = p2
    Partitions = {p1, p2}
    Users = {u1, u2}
    PartitionOf <- Split
    Pages <- OnePage
    Instants = {0, 2}
    BATCHES = 3
    BATCH_SIZE = 1
    Refusals = FALSE
SPECIFICATION Spec
INVARIANTS PassMeansCounted SettledPasses
CHECK_DEADLOCK FALSE
