\* A producer clock ahead of the others, no fault.
CONSTANTS
    WINDOW_SIZE = 2
    ALLOWED_LATENESS = 1
    ONE_DAY = 100
    MAX_DELAY = 1
    MAX_SKEW = 2
    MAX_TIME = 4
    MAX_LOG = 2
    IdleOnlyWhenDrained = TRUE
    Undecodable = Undecodable
    u1 = u1
    u2 = u2
    p1 = p1
    p2 = p2
    i1 = i1
    i2 = i2
    Instances = {i1, i2}
    Partitions = {p1}
    Users = {u1}
    PartitionOf <- AllToP1
    Pages <- OnePage
    Faults = {}
    MAX_FAULTS = 0
SPECIFICATION Spec
SYMMETRY InstanceSymmetry
INVARIANT ZeroDrift
