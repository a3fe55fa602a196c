SPECIFICATION FairSpec
CONSTANTS
    Writer = {w1}
    Series <- MCSeries
    HashOf <- MCHashOf
    Config <- MCConfig
    DefaultBatchSize = 3
    DefaultMaxRetries = 2
    MaxSamples = 3
    MaxLate = 2
INVARIANTS NilAccounted PostsBounded SeriesInOrder
PROPERTY CommitReturns
