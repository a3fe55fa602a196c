SPECIFICATION Spec
CONSTANTS
    Sample <- MCSample
    HashOf <- MCHashOf
    Batch <- TwoBatches
    Window <- NoWindow
    Flushed <- NoBlocks
    Garbage = Garbage
    Caller = {c1}
    MaxSegSize = 1
    Tearing = FALSE
    MaxCommits = 2
    CompactionPeriod = 0
    RetentionAge = 0
    RetentionMaxSize = 0
    MinNow = 0
    MaxNow = 0
INVARIANTS
    AckedDurable
