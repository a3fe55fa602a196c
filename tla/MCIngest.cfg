SPECIFICATION Spec
SYMMETRY MCSymmetry
CONSTANTS
    Handler = {h1, h2}
    Request <- MCRequest
    HashOf <- MCHash
    MaxBodySize = 1
    Promote <- MCPromote
    LabelMap <- MCLabelMap
    SchemaURL = TRUE
    SanitizeMetricNames = TRUE
    AddUnitSuffix = TRUE
    AddTypeSuffix = TRUE
    DeltaConversion = TRUE
    DeltaTTL = 1
    AppendMayFail = TRUE
    MaxRequests = 3
    MaxNow = 2
INVARIANTS IngestTypeOK AnswersHonest TotalsExact SeriesAsSent
