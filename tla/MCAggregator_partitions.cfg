\* Two partitions and two wikis on one instance: one flush round, two transactions.
CONSTANTS
    WINDOW_SIZE = 2
    ALLOWED_LATENESS = 1
    ONE_DAY = 100
    MAX_DELAY = 1
    MAX_SKEW = 0
    MAX_TIME = 3
    MAX_LOG = 1
    IdleOnlyWhenDrained = TRUE
    Undecodable = Undecodable
    u1 = u1
    u2 = u2
    p1 = p1
    p2 = p2
    i1 = i1
    i2 = i2
    Instances = {i1}
    Partitions = {p1, p2}
    Users = {u1, u2}
    PartitionOf <- Split
    Pages <- TwoPages
    Faults = {"crash", "revoke"}
    MAX_FAULTS = 1
SPECIFICATION Spec
INVARIANT ZeroDrift
