SPECIFICATION FirstCompactionSpec
CONSTANTS
    Sample <- MCSample
    HashOf <- MCHashOf
    Batch <- NoBatches
    Window <- SomeTimes
    Flushed <- OverlappingFlushed
    Garbage = Garbage
    Caller = {c1}
    MaxSegSize = 2
    Tearing = FALSE
    MaxCommits = 0
    CompactionPeriod = 1
    RetentionAge = 2
    RetentionMaxSize = 5
    MinNow = 4
    MaxNow = 5
INVARIANTS
    KeysKept
PROPERTIES
    SelectComplete
    SizeLimitTight
    CloseEnds
