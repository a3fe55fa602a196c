SPECIFICATION FairSpec
CONSTANTS
    Day = 2880
    MaxDuration = 100000
    Source <- MCSource
    Request = {r1, r2}
INVARIANTS
    SendersNeverBlock
    DrainedBeforeClose
    StoreAsConfigured
PROPERTIES
    ShutdownEnds
    LossEnds
