\* Refinement of ExactlyOnce by two instances, through two faults.
CONSTANTS
    WINDOW_SIZE = 2
    ALLOWED_LATENESS = 1
    ONE_DAY = 100
    MAX_DELAY = 1
    MAX_SKEW = 0
    MAX_TIME = 4
    MAX_LOG = 2
    IdleOnlyWhenDrained = TRUE
    Undecodable = Undecodable
    u1 = u1
    u2 = u2
    p1 = p1
    p2 = p2
    i1 = i1
    i2 = i2
    Instances = {i1, i2}
    Partitions = {p1}
    Users = {u1}
    PartitionOf <- AllToP1
    Pages <- OnePage
    Faults = {"crash", "session", "revoke", "load", "seek", "duplicate", "garbage"}
    MAX_FAULTS = 2
SPECIFICATION Spec
SYMMETRY InstanceSymmetry
INVARIANT ZeroDrift
PROPERTY ImplementsExactlyOnce
