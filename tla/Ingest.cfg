CONSTANTS
    Feeds = {"kafka", "nats", "redis", "otel"}
    Published <- AllPublished
    MaxFaults <- AllFaults
    Procs = {c1, c2}
    NPartitions = 2
    MaxBatch = 2
    FetchBatch = 2
    ReadBatch = 2
    Slots = {1, 2}
    RequestSize = 3
    ChunkSize = 2
SPECIFICATION IngestSpec
INVARIANTS
    CommittedOnce
    NothingLost
PROPERTIES
    Delivered
    OthersGoOn
\* Everything published may be handled.
CHECK_DEADLOCK FALSE
