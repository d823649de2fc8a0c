\* Requests during flushes, a crash, a rebalance and a redelivery.
CONSTANTS
    WINDOW_SIZE = 2
    ALLOWED_LATENESS = 1
    ONE_DAY = 100
    MAX_DELAY = 1
    MAX_SKEW = 0
    MAX_TIME = 3
    MAX_LOG = 2
    IdleOnlyWhenDrained = TRUE
    Undecodable = Undecodable
    u1 = u1
    u2 = u2
    p1 = p1
    p2 = p2
    i1 = i1
    i2 = i2
    Instances = {i1}
    Partitions = {p1}
    Users = {u1, u2}
    PartitionOf <- AllToP1
    Pages <- OnePage
    Faults = {"crash", "revoke", "duplicate"}
    MAX_FAULTS = 1
    Clients = {c1, c2}
    Queries <- TwoQueries
    None = None
    Segments <- Nameless
    K = 2
SPECIFICATION PipelineSpec
SYMMETRY ClientSymmetry
INVARIANT AnswersMatchLog
