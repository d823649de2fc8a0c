\* Two clients, well-formed and malformed batches, a retry, a crash and a channel shorter than a batch.
CONSTANTS
    MAX_FUTURE_SKEW = 2
    Blank = ""
    p1 = p1
    p2 = p2
    Clients = {c1, c2}
    Partitions = {p1, p2}
    Batches <- AllBatches
    Pseudonym <- HMAC
    PartitionOf <- Partitioner
    CHANNEL_CAPACITY = 1
    MAX_BATCH_EVENTS = 2
    MAX_TRIES = 2
    MAX_CRASHES = 1
SPECIFICATION FairSpec
INVARIANTS OnlyValidPseudonyms CopiesPerPost UserOnOnePartition
PROPERTY AcceptedIsSent
CHECK_DEADLOCK FALSE
