SPECIFICATION Spec
CONSTANTS
    LabelSet <- MCLabelSet
    HashOf <- MCHashOf
    Time = {0, 1, 2}
    Point <- MCPoint
    Appender = {a1, a2}
    Retention = 1
    MaxAppends = 3
    MaxNow = 2
    ZeroTime <- MCZeroTime
    Request <- MCRequest
SYMMETRY Appenders
INVARIANTS
    SeriesFollowCommits
PROPERTIES
    PruneExact
    ResponseExact
    BatchesInOrder
    LabelsCover
