SPECIFICATION Spec
CONSTANTS
    Sample <- MCSample
    Garbage = Garbage
    Caller = {c1, c2}
    MaxSegSize = 2
    Tearing = TRUE
    MaxBatch = 2
    MaxIssued = 4
INVARIANTS
    RecoversAcked
    ReplayInOrder
    SealedSynced
    CurrentSegmentLast
