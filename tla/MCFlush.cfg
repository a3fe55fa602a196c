SPECIFICATION DisciplinedSpec
CONSTANTS
    Sample <- MCSample
    HashOf <- MCHashOf
    Batch <- FlushBatches
    Window <- TailTimes
    Flushed <- NoBlocks
    Garbage = Garbage
    Caller = {c1}
    MaxSegSize = 2
    Tearing = FALSE
    MaxCommits = 3
    CompactionPeriod = 0
    RetentionAge = 0
    RetentionMaxSize = 0
    MinNow = 0
    MaxNow = 0
INVARIANTS
    AckedDurable
    AckedVisible
PROPERTIES
    SelectComplete
    LabelsComplete
