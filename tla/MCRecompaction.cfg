SPECIFICATION FlushedSpec
CONSTANTS
    Sample <- MCSample
    HashOf <- MCHashOf
    Batch <- NoBatches
    Window <- NoWindow
    Flushed <- DisjointFlushed
    Garbage = Garbage
    Caller = {c1}
    MaxSegSize = 2
    Tearing = FALSE
    MaxCommits = 0
    CompactionPeriod = 1
    RetentionAge = 0
    RetentionMaxSize = 0
    MinNow = 0
    MaxNow = 0
INVARIANTS
    MergedDurable
