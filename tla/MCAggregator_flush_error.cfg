\* One transaction that rolls back.
CONSTANTS
    WINDOW_SIZE = 2
    ALLOWED_LATENESS = 1
    ONE_DAY = 100
    MAX_DELAY = 1
    MAX_SKEW = 0
    MAX_TIME = 5
    MAX_LOG = 2
    IdleOnlyWhenDrained = TRUE
    Undecodable = Undecodable
    u1 = u1
    u2 = u2
    p1 = p1
    p2 = p2
    i1 = i1
    i2 = i2
    Instances = {i1}
    Partitions = {p1}
    Users = {u1}
    PartitionOf <- AllToP1
    Pages <- OnePage
    Faults = {"flush"}
    MAX_FAULTS = 1
SPECIFICATION Spec
INVARIANT ZeroDrift
