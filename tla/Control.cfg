SPECIFICATION MCSpec
CONSTANTS
    plain = plain
    other = other
    high = high
    critical = critical
    s1 = s1
    t1 = t1
    Tools = {t1}
    Servers = {s1}
    ServerOf <- MCServerOf
    Descriptions = {plain, other, high, critical}
    Found <- MCFound
    Handlers = {1, 2}
    EditBound = 1
    NoRow = NoRow
    Runs = {1, 2, 3}
    BodyOf <- SameBody
    Bodies = {"body"}
    Decision = "decision"
    NoId = NoId
    Clients = {k1, k2}
    Codes = {c1}
    Requests = {q1, q2, q3}
    Nothing = Nothing
    Payers = {1, 2, 3}
    Detail <- MCDetail
    Currencies = {"usd", "eur"}
    Past <- MCPast
    PastLog <- MCPastLog
    Postures = {"disabled", "oauth_only", "trusted_workload"}
    HoldAt = "medium"
    DenyAt = "high"
    AlertAt = "high"
INVARIANTS
    TypeOK
    BarredPaysNothing
    DriftLowersTrust
    QuarantineAnnounced
    TraceOfOnePayment
    OneGuessPerCode
    OneLiveRefresh
    ThresholdsHeld
    ProfileCountsPayments
PROPERTIES
    OnlyReviewClears
CHECK_DEADLOCK FALSE
