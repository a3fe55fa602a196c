SPECIFICATION Spec
CONSTANTS
    Handler = {h1, h2}
    Request <- HistogramRequest
    HashOf <- MCHash
    MaxBodySize = 1
    Promote <- MCPromote
    LabelMap <- MCLabelMap
    SchemaURL = TRUE
    SanitizeMetricNames = TRUE
    AddUnitSuffix = TRUE
    AddTypeSuffix = TRUE
    DeltaConversion = TRUE
    DeltaTTL = 1
    AppendMayFail = FALSE
    MaxRequests = 2
    MaxNow = 0
INVARIANT ValidHistograms
