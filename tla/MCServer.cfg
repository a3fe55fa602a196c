SPECIFICATION ServerSpec
CONSTANTS
    Sample <- MCSample
    HashOf <- MCHashOf
    Batch <- ServerBatches
    Window <- AllTimes
    Flushed <- NoBlocks
    Garbage = Garbage
    Caller = {c1, c2}
    MaxSegSize = 2
    Tearing = FALSE
    MaxCommits = 3
    CompactionPeriod = 1
    RetentionAge = 1
    RetentionMaxSize = 0
    MinNow = 0
    MaxNow = 0
INVARIANTS
    TypeOK
    AckedDurable
    AckedVisible
PROPERTIES
    ImplementsMetricStore
